---------------------------- MODULE MCGbIncoming ----------------------------
(* Model-checking instance of GbIncoming: two request frames from the peer. *)
EXTENDS GbIncoming

\* A unidirectional request (id 0) and one that expects a response.
MCReqIds == {0, 7}

\* Handler results: success, an error of the wire taxonomy, and one
\* (-ENOTSUPP) that gb_operation_errno_map sends as GB_OP_UNKNOWN_ERROR.
MCHandlerResults == {"0", "EINVAL", "ENOTSUPP"}
=============================================================================
