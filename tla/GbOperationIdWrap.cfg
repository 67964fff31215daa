\* op_cycle two steps below 2^32: do two active outgoing operations share an id?
CONSTANTS
  Ops = {o1, o2}
  NoOp = NoOp
  CycleInit <- MCCycleWrap
  Expiries <- MCExpiries
  OrderedCompletion = TRUE

SPECIFICATION Spec

INVARIANT UniqueActiveIds
