--------------------------- MODULE MCGbOperation ---------------------------
(* Model-checking instance of GbOperation: two synchronous callers.        *)
EXTENDS GbOperation

\* op_cycle just below the 16-bit id wrap: the ids are 65535, then 1.
MCCycleInit == {[hi |-> 0, lo |-> 65533]}

\* op_cycle at 2^32 - 2: the next two ids are both 1.
MCCycleWrap == {[hi |-> 65535, lo |-> 65534]}

\* The wait may time out or be interrupted by a signal.
MCExpiries == {"ETIMEDOUT", "ECANCELED"}

\* The wait may time out (the interrupted wait differs only in the errno
\* latched and in not being bound to happen).
MCTimeoutOnly == {"ETIMEDOUT"}
=============================================================================
