------------------------ MODULE GbOperationAbstract ------------------------
(***************************************************************************)
(* What a synchronous Greybus operation promises its caller (spec.md, the *)
(* operation life cycle): each call decides exactly one final result --   *)
(* the response's status, a send error, a cancellation or timeout, or a  *)
(* local failure before the request left -- that result never changes,   *)
(* the call returns it, and every call returns.                          *)
(***************************************************************************)
CONSTANTS
  Calls,    \* the synchronous calls
  Results   \* the final results a call may return

VARIABLES
  result,   \* the call's decided result, or "none"
  returned  \* the call has returned to its caller

vars == <<result, returned>>

Init ==
  /\ result = [c \in Calls |-> "none"]
  /\ returned = [c \in Calls |-> FALSE]

\* One final result is decided while the caller still waits.
Decide(c, e) ==
  /\ result[c] = "none" /\ ~returned[c]
  /\ result' = [result EXCEPT ![c] = e]
  /\ UNCHANGED returned

\* The caller returns the decided result.
Return(c) ==
  /\ result[c] # "none" /\ ~returned[c]
  /\ returned' = [returned EXCEPT ![c] = TRUE]
  /\ UNCHANGED result

\* A failure found before anything was sent is decided and returned at once.
FailAtOnce(c, e) ==
  /\ result[c] = "none" /\ ~returned[c]
  /\ result' = [result EXCEPT ![c] = e]
  /\ returned' = [returned EXCEPT ![c] = TRUE]

Next == \E c \in Calls :
          \/ \E e \in Results : Decide(c, e) \/ FailAtOnce(c, e)
          \/ Return(c)

\* A call is always decided (at worst by its timeout) and then returns.
Spec == Init /\ [][Next]_vars
          /\ \A c \in Calls : /\ WF_vars(\E e \in Results : Decide(c, e) \/ FailAtOnce(c, e))
                              /\ WF_vars(Return(c))

TypeOK ==
  /\ result \in [Calls -> Results \cup {"none"}]
  /\ returned \in [Calls -> BOOLEAN]
=============================================================================
