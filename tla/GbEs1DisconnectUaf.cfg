\* Two messages, one pool urb; ap_disconnect's OUT loop may run while a
\* message_send holds the pool urb.
CONSTANTS
  Msgs = {m1, m2}
  NumOut = 1
  NoUrb = NoUrb
  SendsDuringDisconnect = TRUE

SPECIFICATION Spec

INVARIANT UrbRefsSound
