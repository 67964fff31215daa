\* The response OUT urb completes after the handler work has dropped its
\* reference.
CONSTANTS
  InOps = {i1, i2}
  ReqIds <- MCReqIds
  HandlerResults <- MCHandlerResults
  TeardownDuringRecv = FALSE

SPECIFICATION Spec

INVARIANT TransportDoneBeforeFree
