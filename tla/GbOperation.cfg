\* Two synchronous callers over an ordered ES1 transport, checked also
\* against the abstract operation spec.
CONSTANTS
  Ops = {o1, o2}
  NoOp = NoOp
  CycleInit <- MCCycleInit
  Expiries <- MCTimeoutOnly
  OrderedCompletion = TRUE

SPECIFICATION Spec

INVARIANT TypeOK
INVARIANT CompletionQueuedOnce
INVARIANT CancelIsSynchronous
INVARIANT SuccessHasOwnResponse
INVARIANT FreedOnlyWhenUnreachable

PROPERTY CallersReturn
PROPERTY ImplementsAbstract
