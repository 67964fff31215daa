\* Two messages, one pool urb: the second send falls back to a dynamic urb
\* or reuses the pool urb; message_cancel runs
\* after message_send returned; ap_disconnect's OUT loop may run
\* once no send is under way.
CONSTANTS
  Msgs = {m1, m2}
  NumOut = 1
  NoUrb = NoUrb
  SendsDuringDisconnect = FALSE

SPECIFICATION Spec

INVARIANT TypeOK
INVARIANT KillHitsOwnTransfer
INVARIANT DynUrbAlive
INVARIANT CancelStopsTransfer

PROPERTY PoolRecovers
