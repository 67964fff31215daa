\* The host sees the response before the request's OUT-urb completion.
CONSTANTS
  Ops = {o1, o2}
  NoOp = NoOp
  CycleInit <- MCCycleInit
  Expiries <- MCExpiries
  OrderedCompletion = FALSE

SPECIFICATION Spec

INVARIANT FreedOnlyWhenUnreachable
