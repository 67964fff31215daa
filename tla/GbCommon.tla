----------------------------- MODULE GbCommon -----------------------------
(***************************************************************************)
(* Pure definitions of src/operation.c shared by the operation modules:   *)
(* operation-id arithmetic, the result latch, and the mapping between     *)
(* errno values and wire status bytes.  Result codes are the names of the *)
(* C constants; "0" is success.                                            *)
(***************************************************************************)
EXTENDS Integers

U16_MAX == 65535
Half == 65536

\* atomic_inc_return on the 32-bit op_cycle; c = hi * 2^16 + lo.
NextCycle(c) ==
  IF c.lo = Half - 1 THEN [hi |-> (c.hi + 1) % Half, lo |-> 0]
                     ELSE [c EXCEPT !.lo = @ + 1]

\* (u16)(cycle % U16_MAX + 1); since 2^16 = 1 (mod 65535) the halves add.
CycleToId(c) == ((c.hi + c.lo) % U16_MAX) + 1

\* gb_operation_status_map: wire status byte to errno.
StatusMap(st) ==
  CASE st = "GB_OP_SUCCESS"     -> "0"
    [] st = "GB_OP_INTERRUPTED" -> "EINTR"
    [] st = "GB_OP_TIMEOUT"     -> "ETIMEDOUT"
    [] st = "GB_OP_NO_MEMORY"   -> "ENOMEM"
    [] st = "GB_OP_PROTOCOL_BAD"-> "EPROTONOSUPPORT"
    [] st = "GB_OP_OVERFLOW"    -> "EMSGSIZE"
    [] st = "GB_OP_INVALID"     -> "EINVAL"
    [] st = "GB_OP_RETRY"       -> "EAGAIN"
    [] st = "GB_OP_NONEXISTENT" -> "ENODEV"
    [] st = "GB_OP_MALFUNCTION" -> "EILSEQ"
    [] OTHER                    -> "EIO"

\* Mutant: a final result replaces any earlier one, not only -EINPROGRESS.
LatchValueOverwrite(prev, result) ==
  IF result = "EINPROGRESS"
    THEN IF prev = "EBADR" THEN result ELSE "EILSEQ"
    ELSE IF prev = "EBADR" THEN "EILSEQ" ELSE result

\* gb_operation_result_set: the value operation->errno takes ...
LatchValue(prev, result) ==
  IF result = "EINPROGRESS"
    THEN IF prev = "EBADR" THEN result ELSE "EILSEQ"
    ELSE IF prev = "EINPROGRESS"
           THEN IF result = "EBADR" THEN "EILSEQ" ELSE result
           ELSE prev

\* ... and whether the caller's result was recorded.
LatchWon(prev, result) == result = "EINPROGRESS" \/ prev = "EINPROGRESS"

\* gb_operation_errno_map: errno to wire status byte.
ErrnoMap(e) ==
  CASE e = "0"               -> "GB_OP_SUCCESS"
    [] e = "EINTR"           -> "GB_OP_INTERRUPTED"
    [] e = "ETIMEDOUT"       -> "GB_OP_TIMEOUT"
    [] e = "ENOMEM"          -> "GB_OP_NO_MEMORY"
    [] e = "EPROTONOSUPPORT" -> "GB_OP_PROTOCOL_BAD"
    [] e = "EMSGSIZE"        -> "GB_OP_OVERFLOW"
    [] e = "EINVAL"          -> "GB_OP_INVALID"
    [] e = "EAGAIN"          -> "GB_OP_RETRY"
    [] e = "EILSEQ"          -> "GB_OP_MALFUNCTION"
    [] e = "ENODEV"          -> "GB_OP_NONEXISTENT"
    [] OTHER                 -> "GB_OP_UNKNOWN_ERROR"

\* The error taxonomy both maps cover (errno side).
Taxonomy == {"0", "EINTR", "ETIMEDOUT", "ENOMEM", "EPROTONOSUPPORT", "EMSGSIZE",
             "EINVAL", "EAGAIN", "ENODEV", "EILSEQ", "EIO"}
=============================================================================
