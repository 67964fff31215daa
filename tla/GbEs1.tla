-------------------------------- MODULE GbEs1 --------------------------------
(***************************************************************************)
(* The ES1 host driver's OUT path (the es1 text in src/svc.h): a pool of  *)
(* NUM_CPORT_OUT_URB preallocated urbs with busy and cancelled flags under *)
(* cport_out_urb_lock, a dynamically allocated urb when the pool is empty, *)
(* message_send, message_cancel and the completion cport_out_callback.    *)
(*                                                                         *)
(* Actors: per message, the core thread sending it and the core thread    *)
(* cancelling it (gb_message_cancel); the USB core completing urbs.  A    *)
(* message's dynamic urb is named after the message; NoUrb is NULL.      *)
(***************************************************************************)
EXTENDS Naturals, FiniteSets

CONSTANTS
  Msgs,             \* messages handed to message_send, each once
  NumOut,           \* NUM_CPORT_OUT_URB
  NoUrb,            \* model value: a NULL urb pointer
  SendsDuringDisconnect \* may message_send start while ap_disconnect runs?

Pool == 1..NumOut
Urbs == Pool \cup Msgs

ASSUME NoUrb \notin Urbs

VARIABLES
  busy,       \* es1->cport_out_urb_busy[]
  cancelled,  \* es1->cport_out_urb_cancelled[]
  stored,     \* es1->cport_out_urb[i] still points to pool urb i (not NULL)
  ref,        \* each urb's reference count (usb_alloc_urb, usb_get_urb, the USB core's)
  hcpriv,     \* message->hcpriv: the urb carrying the message, or NoUrb
  ust,        \* each urb: "idle", "inflight" (submitted), "callback" (in cport_out_callback)
  ctx,        \* urb->context: the message an urb was last submitted for
  snd,        \* message_send: "idle", "got", "set", "sent", "failed"
  surb,       \* message_send's local urb
  can,        \* message_cancel: "idle", "got", "killing", "unmark", "done"
  curb,       \* message_cancel's local urb
  cfound,     \* message_cancel found its urb in cport_out_urb[] (i < NUM_CPORT_OUT_URB)
  dpc,        \* ap_disconnect's OUT loop: "none", "loop", "kill", "free", "done"
  odi,        \* its index into cport_out_urb[]
  bad         \* an urb was used or put after its last reference was dropped

vars == <<busy, cancelled, stored, ref, hcpriv, ust, ctx, snd, surb, can, curb,
          cfound, dpc, odi, bad>>

\* usb_kill_urb in progress on u (urb->reject: submissions fail), by
\* message_cancel or by ap_disconnect.
Killing(u) == \/ \E m \in Msgs : can[m] = "killing" /\ curb[m] = u
              \/ dpc = "kill" /\ odi = u

\* n references to u are dropped (usb_free_urb, or the USB core's after
\* the completion handler); dropping one that is not there is a use after free.
Put(u, n) ==
  /\ ref' = [ref EXCEPT ![u] = IF @ >= n THEN @ - n ELSE 0]
  /\ bad' = (bad \/ ref[u] < n)

\* free_urb, with the USB core's own reference dropped as well (k = 1)
\* after cport_out_callback: an urb found in cport_out_urb[] is marked
\* free; any other urb is usb_free_urb'd.
FreeUrb(u, k) ==
  IF u \in Pool /\ stored[u]
    THEN /\ busy' = [busy EXCEPT ![u] = FALSE]
         /\ IF k > 0 THEN Put(u, k) ELSE UNCHANGED <<ref, bad>>
    ELSE /\ Put(u, k + 1)
         /\ UNCHANGED busy

\* The first pool slot, in array order, that is neither busy nor cancelled.
FreePool == {u \in Pool : ~busy[u] /\ ~cancelled[u]}
FirstFree == CHOOSE u \in FreePool : \A v \in FreePool : u <= v

-----------------------------------------------------------------------------
(* message_send.                                                           *)

\* The variables the disconnect loop and the cancel bookkeeping own.
CancelDiscVars == <<cfound, dpc, odi>>

\* next_free_urb: under the lock, the first free slot is marked busy and
\* its urb taken (NULL once ap_disconnect cleared the slot); without a urb,
\* usb_alloc_urb, which may fail (-ENOMEM).
NextFreeUrb(m) ==
  LET pool == FreePool # {}
      got  == pool /\ stored[FirstFree]
  IN
  /\ snd[m] = "idle"
  /\ SendsDuringDisconnect \/ dpc = "none"
  /\ busy' = IF pool THEN [busy EXCEPT ![FirstFree] = TRUE] ELSE busy
  /\ \/ /\ got
        /\ surb' = [surb EXCEPT ![m] = FirstFree]
        /\ snd' = [snd EXCEPT ![m] = "got"]
        /\ UNCHANGED ref
     \/ /\ ~got
        /\ ref' = [ref EXCEPT ![m] = 1]
        /\ surb' = [surb EXCEPT ![m] = m]
        /\ snd' = [snd EXCEPT ![m] = "got"]
     \/ /\ ~got
        /\ snd' = [snd EXCEPT ![m] = "failed"]
        /\ UNCHANGED <<ref, surb>>
  /\ UNCHANGED <<cancelled, stored, hcpriv, ust, ctx, can, curb, bad, CancelDiscVars>>

\* message->hcpriv = urb, under the lock.
SetHcpriv(m) ==
  /\ snd[m] = "got"
  /\ hcpriv' = [hcpriv EXCEPT ![m] = surb[m]]
  /\ snd' = [snd EXCEPT ![m] = "set"]
  /\ UNCHANGED <<busy, cancelled, stored, ref, ust, ctx, surb, can, curb, bad, CancelDiscVars>>

\* usb_fill_bulk_urb and usb_submit_urb, which takes the USB core's
\* reference; on an error (always while the urb is being killed) hcpriv is
\* cleared and free_urb called.
SubmitUrb(m) ==
  LET u == surb[m] IN
  /\ snd[m] = "set"
  /\ \/ /\ ~Killing(u)
        /\ ust' = [ust EXCEPT ![u] = "inflight"]
        /\ ctx' = [ctx EXCEPT ![u] = m]
        /\ ref' = [ref EXCEPT ![u] = @ + 1]
        /\ snd' = [snd EXCEPT ![m] = "sent"]
        /\ bad' = (bad \/ ref[u] = 0)
        /\ UNCHANGED <<busy, hcpriv>>
     \/ /\ hcpriv' = [hcpriv EXCEPT ![m] = NoUrb]
        /\ FreeUrb(u, 0)
        /\ snd' = [snd EXCEPT ![m] = "failed"]
        /\ UNCHANGED <<ust, ctx>>
  /\ UNCHANGED <<cancelled, stored, surb, can, curb, CancelDiscVars>>

-----------------------------------------------------------------------------
(* cport_out_callback, run by the USB core when an urb completes (or is   *)
(* killed).                                                               *)

\* gb_message_cport_clear; greybus_message_sent(hd, message, status).
OutNotify(u) ==
  /\ ust[u] = "inflight"
  /\ ust' = [ust EXCEPT ![u] = "callback"]
  /\ UNCHANGED <<busy, cancelled, stored, ref, hcpriv, ctx, snd, surb, can, curb, bad, CancelDiscVars>>

\* Mutant: the dynamic urb is released twice (free_urb and an extra
\* usb_free_urb).
OutReleaseTwice(u) ==
  /\ ust[u] = "callback"
  /\ hcpriv' = [hcpriv EXCEPT ![ctx[u]] = NoUrb]
  /\ busy' = IF u \in Pool /\ stored[u] THEN [busy EXCEPT ![u] = FALSE] ELSE busy
  /\ ref' = [ref EXCEPT ![u] = IF u \in Pool /\ stored[u] THEN @ - 1 ELSE @ - 3]
  /\ ust' = [ust EXCEPT ![u] = "idle"]
  /\ UNCHANGED <<cancelled, stored, ctx, snd, surb, can, curb, bad, CancelDiscVars>>

\* message->hcpriv = NULL under the lock; free_urb; the USB core then
\* drops its reference.
OutRelease(u) ==
  /\ ust[u] = "callback"
  /\ hcpriv' = [hcpriv EXCEPT ![ctx[u]] = NoUrb]
  /\ FreeUrb(u, 1)
  /\ ust' = [ust EXCEPT ![u] = "idle"]
  /\ UNCHANGED <<cancelled, stored, ctx, snd, surb, can, curb, CancelDiscVars>>

-----------------------------------------------------------------------------
(* message_cancel.  Its callers in the operation core reach it only after  *)
(* message_send returned: gb_operation_cancel from                         *)
(* gb_operation_request_send_sync_timeout, gb_operation_cancel_incoming    *)
(* after flush_work of the handler that sent the response.                 *)

\* The pool slot holding urb u, if any: the loop over cport_out_urb[].
InSlots(u) == u \in Pool /\ stored[u]

\* Mutant: the pool urb is not marked cancelled.
CancelBeginNoMark(m) ==
  LET u == hcpriv[m] IN
  /\ can[m] = "idle"
  /\ snd[m] = "sent"
  /\ curb' = [curb EXCEPT ![m] = u]
  /\ ref' = IF u \in Urbs THEN [ref EXCEPT ![u] = @ + 1] ELSE ref
  /\ can' = [can EXCEPT ![m] = "got"]
  /\ UNCHANGED <<busy, cancelled, stored, hcpriv, ust, ctx, snd, surb, bad, CancelDiscVars>>

\* Mutant: usb_get_urb is not taken.
CancelBeginNoGet(m) ==
  LET u == hcpriv[m] IN
  /\ can[m] = "idle"
  /\ snd[m] = "sent"
  /\ curb' = [curb EXCEPT ![m] = u]
  /\ cancelled' = IF InSlots(u) THEN [cancelled EXCEPT ![u] = TRUE] ELSE cancelled
  /\ cfound' = [cfound EXCEPT ![m] = InSlots(u)]
  /\ can' = [can EXCEPT ![m] = "got"]
  /\ UNCHANGED <<busy, stored, ref, hcpriv, ust, ctx, snd, surb, bad, dpc, odi>>

\* Under the lock: urb = message->hcpriv; usb_get_urb(urb) (a no-op on
\* NULL); an urb found in cport_out_urb[] is marked cancelled so that it
\* is not reused.
CancelBegin(m) ==
  LET u == hcpriv[m] IN
  /\ can[m] = "idle"
  /\ snd[m] = "sent"
  /\ curb' = [curb EXCEPT ![m] = u]
  /\ ref' = IF u \in Urbs THEN [ref EXCEPT ![u] = @ + 1] ELSE ref
  /\ cancelled' = IF InSlots(u) THEN [cancelled EXCEPT ![u] = TRUE] ELSE cancelled
  /\ cfound' = [cfound EXCEPT ![m] = InSlots(u)]
  /\ can' = [can EXCEPT ![m] = "got"]
  /\ UNCHANGED <<busy, stored, hcpriv, ust, ctx, snd, surb, bad, dpc, odi>>

\* usb_kill_urb(urb) starts, after the lock is dropped: from now on the
\* urb refuses submissions (urb->reject) and a transfer in flight is
\* unlinked.  For NULL it does nothing.
KillStart(m) ==
  /\ can[m] = "got"
  /\ can' = [can EXCEPT ![m] = "killing"]
  /\ UNCHANGED <<busy, cancelled, stored, ref, hcpriv, ust, ctx, snd, surb, curb, bad, CancelDiscVars>>

\* Mutant: the urb is unlinked asynchronously (usb_unlink_urb), not killed.
CancelKillAsync(m) ==
  /\ can[m] = "killing"
  /\ can' = [can EXCEPT ![m] = "unmark"]
  /\ UNCHANGED <<busy, cancelled, stored, ref, hcpriv, ust, ctx, snd, surb, curb, bad, CancelDiscVars>>

\* usb_kill_urb(urb) returns once the urb is idle and its completion
\* handler has returned (at once for NULL or an urb not in flight).
CancelKill(m) ==
  /\ can[m] = "killing"
  /\ curb[m] \in Urbs => ust[curb[m]] = "idle"
  /\ can' = [can EXCEPT ![m] = "unmark"]
  /\ UNCHANGED <<busy, cancelled, stored, ref, hcpriv, ust, ctx, snd, surb, curb, bad, CancelDiscVars>>

\* Mutant: the cancelled mark of a pool urb is never cleared.
CancelFinishKeepMark(m) ==
  LET u == curb[m] IN
  /\ can[m] = "unmark"
  /\ IF u \in Urbs THEN Put(u, 1) ELSE UNCHANGED <<ref, bad>>
  /\ can' = [can EXCEPT ![m] = "done"]
  /\ UNCHANGED <<busy, cancelled, stored, hcpriv, ust, ctx, snd, surb, curb, CancelDiscVars>>

\* If the urb was found in the pool, its cancelled mark is cleared under
\* the lock; usb_free_urb drops the reference taken by usb_get_urb.
CancelFinish(m) ==
  LET u == curb[m] IN
  /\ can[m] = "unmark"
  /\ cancelled' = IF cfound[m] THEN [cancelled EXCEPT ![u] = FALSE] ELSE cancelled
  /\ IF u \in Urbs THEN Put(u, 1) ELSE UNCHANGED <<ref, bad>>
  /\ can' = [can EXCEPT ![m] = "done"]
  /\ UNCHANGED <<busy, stored, hcpriv, ust, ctx, snd, surb, curb, CancelDiscVars>>

-----------------------------------------------------------------------------
(* ap_disconnect's OUT loop, after usb_log_disable: for each slot until   *)
(* the first NULL one, usb_kill_urb, usb_free_urb, then the slot is set   *)
(* NULL and not busy, all without cport_out_urb_lock.                     *)

\* The device is unplugged or the driver unbound.  Unless sends may race
\* it, no message_send is under way or starts afterwards.
DiscStart ==
  /\ dpc = "none"
  /\ SendsDuringDisconnect \/ \A m \in Msgs : snd[m] \notin {"got", "set"}
  /\ dpc' = "loop" /\ odi' = 1
  /\ UNCHANGED <<busy, cancelled, stored, ref, hcpriv, ust, ctx, snd, surb, can, curb, cfound, bad>>

\* urb = es1->cport_out_urb[i]; if (!urb) break; else usb_kill_urb starts.
DiscCheck ==
  /\ dpc = "loop"
  /\ dpc' = IF odi <= NumOut /\ stored[odi] THEN "kill" ELSE "done"
  /\ UNCHANGED <<busy, cancelled, stored, ref, hcpriv, ust, ctx, snd, surb, can, curb, cfound, odi, bad>>

\* usb_kill_urb returns once the urb is idle and its callback returned.
DiscKill ==
  /\ dpc = "kill" /\ ust[odi] = "idle"
  /\ dpc' = "free"
  /\ UNCHANGED <<busy, cancelled, stored, ref, hcpriv, ust, ctx, snd, surb, can, curb, cfound, odi, bad>>

\* usb_free_urb(urb); cport_out_urb[i] = NULL; cport_out_urb_busy[i] = false.
DiscFree ==
  /\ dpc = "free"
  /\ Put(odi, 1)
  /\ stored' = [stored EXCEPT ![odi] = FALSE]
  /\ busy' = [busy EXCEPT ![odi] = FALSE]
  /\ odi' = odi + 1 /\ dpc' = "loop"
  /\ UNCHANGED <<cancelled, hcpriv, ust, ctx, snd, surb, can, curb, cfound>>

-----------------------------------------------------------------------------

\* ap_probe: the pool urbs are allocated and stored, none busy or
\* cancelled; each holds usb_alloc_urb's reference.
Init ==
  /\ busy = [u \in Pool |-> FALSE]
  /\ cancelled = [u \in Pool |-> FALSE]
  /\ stored = [u \in Pool |-> TRUE]
  /\ ref = [u \in Urbs |-> IF u \in Pool THEN 1 ELSE 0]
  /\ hcpriv = [m \in Msgs |-> NoUrb]
  /\ ust = [u \in Urbs |-> "idle"]
  /\ ctx = [u \in Urbs |-> CHOOSE m \in Msgs : TRUE]
  /\ snd = [m \in Msgs |-> "idle"]
  /\ surb = [m \in Msgs |-> NoUrb]
  /\ can = [m \in Msgs |-> "idle"]
  /\ curb = [m \in Msgs |-> NoUrb]
  /\ cfound = [m \in Msgs |-> FALSE]
  /\ dpc = "none" /\ odi = 1 /\ bad = FALSE

SendStep(m) == SetHcpriv(m) \/ SubmitUrb(m)
CancelStep(m) == KillStart(m) \/ CancelKill(m) \/ CancelFinish(m)
DiscStep == DiscCheck \/ DiscKill \/ DiscFree

\* Every send has returned, no cancel or disconnect is under way and no
\* urb is busy in the USB core: only new sends, cancels or an unplug,
\* which need not come, remain (after the disconnect no send starts).
Terminated ==
  /\ \A m \in Msgs : \/ snd[m] \in {"sent", "failed"}
                     \/ snd[m] = "idle" /\ dpc = "done"
  /\ \A m \in Msgs : can[m] \in {"idle", "done"}
  /\ \A u \in Urbs : ust[u] = "idle"
  /\ dpc \in {"none", "done"}
  /\ UNCHANGED vars

Next ==
  \/ \E m \in Msgs : NextFreeUrb(m) \/ SendStep(m) \/ CancelBegin(m) \/ CancelStep(m)
  \/ \E u \in Urbs : OutNotify(u) \/ OutRelease(u)
  \/ DiscStart \/ DiscStep
  \/ Terminated

\* A thread inside message_send, message_cancel or ap_disconnect runs on;
\* the USB core completes submitted urbs.  Whether a message is sent or
\* cancelled, and whether the device goes, is the environment's choice.
Spec == Init /\ [][Next]_vars
          /\ \A m \in Msgs : WF_vars(SendStep(m)) /\ WF_vars(CancelStep(m))
          /\ \A u \in Urbs : WF_vars(OutNotify(u)) /\ WF_vars(OutRelease(u))
          /\ WF_vars(DiscStep)

-----------------------------------------------------------------------------
TypeOK ==
  /\ busy \in [Pool -> BOOLEAN] /\ cancelled \in [Pool -> BOOLEAN]
  /\ stored \in [Pool -> BOOLEAN] /\ ref \in [Urbs -> 0..3]
  /\ hcpriv \in [Msgs -> Urbs \cup {NoUrb}]
  /\ ust \in [Urbs -> {"idle", "inflight", "callback"}]
  /\ snd \in [Msgs -> {"idle", "got", "set", "sent", "failed"}]
  /\ can \in [Msgs -> {"idle", "got", "killing", "unmark", "done"}]
  /\ curb \in [Msgs -> Urbs \cup {NoUrb}] /\ cfound \in [Msgs -> BOOLEAN]
  /\ dpc \in {"none", "loop", "kill", "free", "done"} /\ odi \in 1..(NumOut + 1)

\* message_cancel's usb_kill_urb never aborts another message's transfer:
\* while it kills the urb it read from message->hcpriv, that urb is idle
\* or still carries this message (the cancelled mark keeps a completed
\* pool urb from being handed to the next message_send between the read
\* under the lock and the start of the kill).
KillHitsOwnTransfer ==
  \A m \in Msgs :
    can[m] = "killing" /\ curb[m] # NoUrb /\ ust[curb[m]] # "idle"
      => ctx[curb[m]] = m

\* A dynamic urb is not freed while anything still uses it: the message
\* that holds it in hcpriv or in message_send, the USB core, or a
\* message_cancel between usb_get_urb and usb_free_urb.
DynUrbAlive ==
  \A m \in Msgs :
    \/ hcpriv[m] = m
    \/ snd[m] \in {"got", "set"} /\ surb[m] = m
    \/ ust[m] # "idle"
    \/ \E c \in Msgs : can[c] \in {"got", "killing", "unmark"} /\ curb[c] = m
    => ref[m] > 0

\* The host driver's cancel contract: once message_cancel returns, the
\* message is not on the wire and its completion has been reported.
CancelStopsTransfer ==
  \A m \in Msgs : can[m] = "done" =>
    \A u \in Urbs : ust[u] # "idle" => ctx[u] # m

\* The pool recovers: a pool urb that is busy or marked cancelled becomes
\* free again, so sends do not fall back to dynamic urbs for ever.
PoolRecovers ==
  \A u \in Pool : (busy[u] \/ cancelled[u]) ~> (~busy[u] /\ ~cancelled[u])

\* No urb is touched after its last reference is gone: ap_disconnect's
\* usb_free_urb drops a pool urb's allocation reference only once it is
\* killed and out of cport_out_urb[], after which free_urb, message_send
\* and message_cancel neither use it nor put it again.
UrbRefsSound ==
  /\ ~bad
  /\ \A u \in Pool : ref[u] = 0 => ~stored[u] /\ ust[u] = "idle"
=============================================================================
