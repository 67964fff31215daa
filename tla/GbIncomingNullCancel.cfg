\* The connection teardown may disable the connection and cancel an
\* operation that gb_connection_recv_request has linked but not yet queued.
CONSTANTS
  InOps = {i1, i2}
  ReqIds <- MCReqIds
  HandlerResults <- MCHandlerResults
  TeardownDuringRecv = TRUE

SPECIFICATION Spec

INVARIANT CancelHasResponse
