\* Two incoming requests handled on the connection workqueue.
CONSTANTS
  InOps = {i1, i2}
  ReqIds <- MCReqIds
  HandlerResults <- MCHandlerResults
  TeardownDuringRecv = FALSE

SPECIFICATION Spec

INVARIANT TypeOK
INVARIANT RepliesMatchRequests
INVARIANT FreedOnlyWhenUnlinked
INVARIANT CancelIncomingIsSynchronous

PROPERTY NoLeak
