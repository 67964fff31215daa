----------------------------- MODULE GbIncoming -----------------------------
(***************************************************************************)
(* Incoming requests on one connection (src/operation.c): the receive path *)
(* creates an operation (gb_connection_recv_request), the connection's     *)
(* workqueue runs the protocol handler and sends the response              *)
(* (gb_operation_work -> gb_operation_request_handle ->                    *)
(* gb_operation_response_send), and the ES1 transport (src/svc.h) reports  *)
(* the response sent (cport_out_callback -> greybus_message_sent).         *)
(***************************************************************************)
EXTENDS GbCommon, Sequences, SequencesExt, FiniteSets

CONSTANTS
  InOps,           \* operations created for request frames from the peer
  ReqIds,          \* operation ids the peer uses; 0 marks a unidirectional request
  HandlerResults,  \* results protocol->request_recv may return
  TeardownDuringRecv \* may the connection be disabled while a receive is
                     \* between gb_operation_get_active and queue_work?

ASSUME 0 \in ReqIds /\ ReqIds \subseteq 0..U16_MAX
ASSUME TeardownDuringRecv \in BOOLEAN

VARIABLES
  conn_state,  \* connection->state
  conn_ops,    \* connection->operations, in list order
  istate,      \* "unborn", "dropped" (never got past the receive path), "live"
  opid,        \* operation->id, copied from the request header
  errno,       \* operation->errno
  refs,        \* operation->kref
  active,      \* operation->active
  work,        \* operation->work: "idle", "recv" (gb_connection_recv_request
               \* past get_active, not yet queued), "queued", "sending" (response_send
               \* past its latch), "submitting" (past get_active), "handled", "done"
  resp_st,     \* header->result of the response message
  xfer,        \* response held by the transport: "none", "submitted",
               \* "onwire", "completing" (in cport_out_callback)
  peer_got,    \* responses the peer has received: [for, id, st]
  response,    \* operation->response is allocated
  cstate       \* connection teardown's gb_operation_cancel_incoming of the
               \* operation: "none", "flush", "latch", "kill", "wait", "done"

vars == <<conn_state, conn_ops, istate, opid, errno, refs, active, work,
          resp_st, xfer, peer_got, response, cstate>>

Unidirectional(i) == opid[i] = 0

Freed(i) == istate[i] = "live" /\ refs[i] = 0

Latch(i, result) == errno' = [errno EXCEPT ![i] = LatchValue(@, result)]

\* Mutant: the operation is unlinked one put_active too late.
PutActiveLate(i) ==
  /\ active' = [active EXCEPT ![i] = @ - 1]
  /\ conn_ops' = IF active[i] = 0 THEN Remove(conn_ops, i) ELSE conn_ops

\* gb_operation_put_active.  Its wake_up of gb_operation_cancellation_queue
\* is CancelWaitInactive becoming enabled: cancel_incoming counts itself
\* in waiters before wait_event tests the condition, so no wake-up is lost.
PutActive(i) ==
  /\ active' = [active EXCEPT ![i] = @ - 1]
  /\ conn_ops' = IF active[i] = 1 THEN Remove(conn_ops, i) ELSE conn_ops

-----------------------------------------------------------------------------
(* Receive path, interrupt context.                                        *)

\* gb_connection_recv, request branch: a disabled connection drops the frame;
\* otherwise gb_operation_create_incoming (GFP_ATOMIC, may fail), then
\* gb_operation_get_active, which links the operation unless the
\* connection is disabled (the operation is then put).  operation->errno
\* is still -EBADR and operation->response NULL.
RecvRequest(i, id) ==
  /\ istate[i] = "unborn"
  /\ \/ /\ conn_state = "ENABLED"
        /\ istate' = [istate EXCEPT ![i] = "live"]
        /\ opid' = [opid EXCEPT ![i] = id]
        /\ refs' = [refs EXCEPT ![i] = 1]
        /\ active' = [active EXCEPT ![i] = 1]
        /\ conn_ops' = Append(conn_ops, i)
        /\ work' = [work EXCEPT ![i] = "recv"]
     \/ /\ istate' = [istate EXCEPT ![i] = "dropped"]
        /\ UNCHANGED <<opid, refs, active, conn_ops, work>>
  /\ UNCHANGED <<response, conn_state, errno, resp_st, xfer, peer_got, cstate>>

\* The rest of gb_connection_recv_request, outside connection->lock:
\* gb_operation_result_set(-EINPROGRESS) always returns true (it records
\* -EILSEQ if the result was no longer -EBADR), and the work is queued.
RecvQueue(i) ==
  /\ work[i] = "recv"
  /\ Latch(i, "EINPROGRESS")
  /\ work' = [work EXCEPT ![i] = "queued"]
  /\ UNCHANGED <<response, conn_state, conn_ops, istate, opid, refs, active,
                 resp_st, xfer, peer_got, cstate>>

-----------------------------------------------------------------------------
(* gb_operation_work on the connection's workqueue.                       *)

\* Mutant: no unidirectional check before the response is sent.
WorkHandleAlwaysReply(i, s) ==
  /\ work[i] = "queued"
  /\ \/ /\ work' = [work EXCEPT ![i] = "handled"]
        /\ UNCHANGED <<errno, response>>
     \/ /\ ~LatchWon(errno[i], s)
        /\ response' = [response EXCEPT ![i] = ~Unidirectional(i)]
        /\ work' = [work EXCEPT ![i] = "handled"]
        /\ UNCHANGED errno
     \/ /\ LatchWon(errno[i], s)
        /\ Latch(i, s)
        /\ response' = [response EXCEPT ![i] = ~Unidirectional(i)]
        /\ work' = [work EXCEPT ![i] = "sending"]
  /\ UNCHANGED <<conn_state, conn_ops, istate, opid, refs, active, resp_st,
                 xfer, peer_got, cstate>>

\* gb_operation_request_handle: with no protocol bound it returns at once;
\* otherwise the handler returns s and gb_operation_response_send(op, s)
\* allocates an empty response unless the request is unidirectional (may
\* fail: -ENOMEM), then latches s: if the result was already set it
\* returns -EIO; a unidirectional request ends here.  Either early return
\* leaves operation->errno at -EINPROGRESS.
WorkHandle(i, s) ==
  /\ work[i] = "queued"
  /\ \/ /\ work' = [work EXCEPT ![i] = "handled"]  \* !protocol, or alloc fails
        /\ UNCHANGED <<errno, response>>
     \/ /\ ~LatchWon(errno[i], s)         \* "request result already set"
        /\ response' = [response EXCEPT ![i] = ~Unidirectional(i)]
        /\ work' = [work EXCEPT ![i] = "handled"]
        /\ UNCHANGED errno
     \/ /\ LatchWon(errno[i], s)
        /\ Latch(i, s)
        /\ response' = [response EXCEPT ![i] = ~Unidirectional(i)]
        /\ work' = [work EXCEPT ![i] = IF Unidirectional(i) THEN "handled"
                                                            ELSE "sending"]
  /\ UNCHANGED <<conn_state, conn_ops, istate, opid, refs, active, resp_st,
                 xfer, peer_got, cstate>>

\* The rest of gb_operation_response_send: take a reference and
\* get_active, which fails on a disabled connection (the reference is
\* dropped).
WorkSend(i) ==
  /\ work[i] = "sending"
  /\ IF conn_state = "ENABLED"
       THEN /\ refs' = [refs EXCEPT ![i] = @ + 1]
            /\ active' = [active EXCEPT ![i] = @ + 1]
            /\ work' = [work EXCEPT ![i] = "submitting"]
       ELSE /\ work' = [work EXCEPT ![i] = "handled"]
            /\ UNCHANGED <<response, refs, active>>
  /\ UNCHANGED <<response, conn_state, conn_ops, istate, opid, errno, resp_st, xfer,
                 peer_got, cstate>>

\* Mutant: a failed gb_message_send returns without dropping the reference
\* and the active count it took.
WorkSubmitFailLeak(i) ==
  /\ work[i] = "submitting"
  /\ work' = [work EXCEPT ![i] = "handled"]
  /\ resp_st' = [resp_st EXCEPT ![i] = ErrnoMap(errno[i])]
  /\ \/ xfer' = [xfer EXCEPT ![i] = "submitted"]
     \/ UNCHANGED xfer
  /\ UNCHANGED <<response, conn_state, conn_ops, istate, opid, errno, refs, active,
                 peer_got, cstate>>

\* The status byte is set from the latched result and the response is
\* handed to gb_message_send; a send error undoes the active count and the
\* reference.
WorkSubmit(i) ==
  /\ work[i] = "submitting"
  /\ work' = [work EXCEPT ![i] = "handled"]
  /\ resp_st' = [resp_st EXCEPT ![i] = ErrnoMap(errno[i])]
  /\ \/ /\ xfer' = [xfer EXCEPT ![i] = "submitted"]
        /\ UNCHANGED <<response, refs, active, conn_ops>>
     \/ /\ PutActive(i)
        /\ refs' = [refs EXCEPT ![i] = @ - 1]
        /\ UNCHANGED xfer
  /\ UNCHANGED <<response, conn_state, istate, opid, errno, peer_got, cstate>>

\* After the handler: gb_operation_put_active; gb_operation_put.
WorkPut(i) ==
  /\ work[i] = "handled"
  /\ work' = [work EXCEPT ![i] = "done"]
  /\ PutActive(i)
  /\ refs' = [refs EXCEPT ![i] = @ - 1]
  /\ UNCHANGED <<response, conn_state, istate, opid, errno, resp_st, xfer, peer_got, cstate>>

-----------------------------------------------------------------------------
(* The ES1 transport.                                                      *)

\* Mutant: the response header keeps the zeroed operation id.
ResponseFrameNoId(i) == [for |-> i, id |-> 0, st |-> resp_st[i]]

\* The response frame: gb_operation_response_alloc copies the request's
\* operation id into the zeroed response header; the result field is set
\* when the response is sent.  (for names the request it answers.)
ResponseFrame(i) == [for |-> i, id |-> opid[i], st |-> resp_st[i]]

\* The OUT urb carries the response frame to the peer.
Transmit(i) ==
  /\ xfer[i] = "submitted"
  /\ xfer' = [xfer EXCEPT ![i] = "onwire"]
  /\ peer_got' = peer_got \cup {ResponseFrame(i)}
  /\ UNCHANGED <<response, conn_state, conn_ops, istate, opid, errno, refs, active, work,
                 resp_st, cstate>>

\* Mutant: an error status on the response also drops a reference, as for
\* a failed request.
SendNotifyErrorPut(i) ==
  /\ xfer[i] \in {"submitted", "onwire"}
  /\ xfer' = [xfer EXCEPT ![i] = "completing"]
  /\ PutActive(i)
  /\ refs' = [refs EXCEPT ![i] = IF xfer[i] = "submitted" THEN @ - 2 ELSE @ - 1]
  /\ UNCHANGED <<response, conn_state, istate, opid, errno, work, resp_st, peer_got, cstate>>

\* cport_out_callback, first half: greybus_message_sent for a response drops
\* the active count and the reference taken by gb_operation_response_send.
SendNotify(i) ==
  /\ xfer[i] \in {"submitted", "onwire"}
  /\ xfer' = [xfer EXCEPT ![i] = "completing"]
  /\ PutActive(i)
  /\ refs' = [refs EXCEPT ![i] = @ - 1]
  /\ UNCHANGED <<response, conn_state, istate, opid, errno, work, resp_st, peer_got, cstate>>

\* cport_out_callback, second half: message->hcpriv = NULL under the urb
\* lock, then free_urb.
SendRelease(i) ==
  /\ xfer[i] = "completing"
  /\ xfer' = [xfer EXCEPT ![i] = "none"]
  /\ UNCHANGED <<response, conn_state, conn_ops, istate, opid, errno, refs, active, work,
                 resp_st, peer_got, cstate>>

\* The connection is disabled (connection teardown, outside src/); unless
\* TeardownDuringRecv, not while a receive is between its two steps.
Disable ==
  /\ conn_state = "ENABLED"
  /\ TeardownDuringRecv \/ \A i \in InOps : work[i] # "recv"
  /\ conn_state' = "DISABLED"
  /\ UNCHANGED <<response, conn_ops, istate, opid, errno, refs, active, work, resp_st,
                 xfer, peer_got, cstate>>

-----------------------------------------------------------------------------
(* Connection teardown (outside src/): once the connection is disabled,   *)
(* each operation still on its list is cancelled with -ESHUTDOWN by       *)
(* gb_operation_cancel_incoming, the caller holding a reference.          *)

\* gb_operation_get; a unidirectional operation goes straight to the wait.
CancelIncoming(i) ==
  /\ conn_state = "DISABLED" /\ Contains(conn_ops, i) /\ cstate[i] = "none"
  /\ refs' = [refs EXCEPT ![i] = @ + 1]
  /\ cstate' = [cstate EXCEPT ![i] = IF Unidirectional(i) THEN "wait" ELSE "flush"]
  /\ UNCHANGED <<response, conn_state, conn_ops, istate, opid, errno, active, work,
                 resp_st, xfer, peer_got>>

\* Mutant: the latch is tried without waiting for the handler work.
CancelFlushSkip(i) ==
  /\ cstate[i] = "flush"
  /\ cstate' = [cstate EXCEPT ![i] = "latch"]
  /\ UNCHANGED <<response, conn_state, conn_ops, istate, opid, errno, refs, active, work,
                 resp_st, xfer, peer_got>>

\* flush_work(&operation->work): the handler has submitted the response.
CancelFlush(i) ==
  /\ cstate[i] = "flush"
  /\ work[i] \notin {"queued", "sending", "submitting", "handled"}
  /\ cstate' = [cstate EXCEPT ![i] = "latch"]
  /\ UNCHANGED <<response, conn_state, conn_ops, istate, opid, errno, refs, active, work,
                 resp_st, xfer, peer_got>>

\* gb_operation_result_set(op, -ESHUTDOWN): if the handler already set the
\* result, the response is cancelled.
CancelLatch(i) ==
  /\ cstate[i] = "latch"
  /\ Latch(i, "ESHUTDOWN")
  /\ cstate' = [cstate EXCEPT ![i] = IF LatchWon(errno[i], "ESHUTDOWN") THEN "wait"
                                                                   ELSE "kill"]
  /\ UNCHANGED <<response, conn_state, conn_ops, istate, opid, refs, active, work,
                 resp_st, xfer, peer_got>>

\* gb_message_cancel(operation->response) -> es1 message_cancel; with a NULL
\* response gb_message_cancel dereferences NULL (CancelHasResponse): usb_kill_urb returns
\* once the urb's completion handler (cport_out_callback) has returned.
CancelKillResponse(i) ==
  /\ cstate[i] = "kill"
  /\ xfer[i] = "none"
  /\ cstate' = [cstate EXCEPT ![i] = "wait"]
  /\ UNCHANGED <<response, conn_state, conn_ops, istate, opid, errno, refs, active, work,
                 resp_st, xfer, peer_got>>

\* wait_event(queue, !gb_operation_is_active(op)); then the teardown's
\* gb_operation_put.
CancelWaitInactive(i) ==
  /\ cstate[i] = "wait"
  /\ active[i] = 0
  /\ refs' = [refs EXCEPT ![i] = @ - 1]
  /\ cstate' = [cstate EXCEPT ![i] = "done"]
  /\ UNCHANGED <<response, conn_state, conn_ops, istate, opid, errno, active, work,
                 resp_st, xfer, peer_got>>

CancelStep(i) ==
  \/ CancelFlush(i) \/ CancelLatch(i) \/ CancelKillResponse(i)
  \/ CancelWaitInactive(i)

-----------------------------------------------------------------------------

Init ==
  /\ conn_state = "ENABLED"
  /\ conn_ops = <<>>
  /\ istate = [i \in InOps |-> "unborn"]
  /\ opid = [i \in InOps |-> 0]
  /\ errno = [i \in InOps |-> "EBADR"]
  /\ refs = [i \in InOps |-> 0]
  /\ active = [i \in InOps |-> 0]
  /\ work = [i \in InOps |-> "idle"]
  /\ resp_st = [i \in InOps |-> "GB_OP_SUCCESS"]
  /\ xfer = [i \in InOps |-> "none"]
  /\ peer_got = {}
  /\ response = [i \in InOps |-> FALSE]
  /\ cstate = [i \in InOps |-> "none"]

\* Every request frame has arrived, no handler work is pending and the
\* transport holds no response; the system stops (NoLeak asks whether
\* everything was freed by then).
Terminated ==
  /\ \A i \in InOps : /\ istate[i] # "unborn"
                     /\ work[i] \in {"idle", "done"}
                     /\ xfer[i] = "none"
                     /\ cstate[i] \in {"none", "done"}
  /\ UNCHANGED vars

Next ==
  \/ \E i \in InOps :
       \/ \E id \in ReqIds : RecvRequest(i, id)
       \/ RecvQueue(i)
       \/ \E s \in HandlerResults : WorkHandle(i, s)
       \/ WorkSend(i) \/ WorkSubmit(i) \/ WorkPut(i) \/ Transmit(i) \/ SendNotify(i) \/ SendRelease(i)
       \/ CancelIncoming(i) \/ CancelStep(i)
  \/ Disable
  \/ Terminated

\* The receive interrupt handler runs to its end, and the workqueue and the
\* host controller make progress; the peer need not
\* send anything and teardown need not happen.
Fairness ==
  \A i \in InOps :
    /\ WF_vars(RecvQueue(i))
    /\ WF_vars(\E s \in HandlerResults : WorkHandle(i, s))
    /\ WF_vars(WorkSend(i))
    /\ WF_vars(WorkSubmit(i))
    /\ WF_vars(WorkPut(i))
    /\ WF_vars(Transmit(i))
    /\ WF_vars(SendNotify(i))
    /\ WF_vars(SendRelease(i))
    /\ WF_vars(CancelStep(i))

Spec == Init /\ [][Next]_vars /\ Fairness

-----------------------------------------------------------------------------
(* Properties.                                                             *)

TypeOK ==
  /\ conn_state \in {"ENABLED", "DISABLED"}
  /\ conn_ops \in Seq(InOps)
  /\ istate \in [InOps -> {"unborn", "dropped", "live"}]
  /\ opid \in [InOps -> ReqIds]
  /\ errno \in [InOps -> HandlerResults \cup {"EBADR", "EINPROGRESS", "ESHUTDOWN"}]
  /\ refs \in [InOps -> 0..3]
  /\ active \in [InOps -> 0..2]
  /\ response \in [InOps -> BOOLEAN]
  /\ work \in [InOps -> {"idle", "recv", "queued", "sending", "submitting", "handled", "done"}]
  /\ xfer \in [InOps -> {"none", "submitted", "onwire", "completing"}]
  /\ cstate \in [InOps -> {"none", "flush", "latch", "kill", "wait", "done"}]

\* The peer gets at most one response per request, none for a
\* unidirectional one, each under the request's id and with a status that
\* decodes (gb_operation_status_map) to the handler's result, or to -EIO
\* for a result outside the wire taxonomy.
RepliesMatchRequests ==
  \A r \in peer_got :
    /\ ~Unidirectional(r.for)
    /\ r.id = opid[r.for]
    /\ StatusMap(r.st) = IF errno[r.for] \in Taxonomy THEN errno[r.for] ELSE "EIO"

\* An incoming operation is freed only after it left the connection's list
\* and its handler work finished.
FreedOnlyWhenUnlinked ==
  \A i \in InOps : Freed(i) => ~Contains(conn_ops, i) /\ work[i] = "done"

\* The transport is done with the response message (cport_out_callback has
\* returned) before the operation that owns it is freed.
TransportDoneBeforeFree ==
  \A i \in InOps : Freed(i) => xfer[i] = "none"

\* gb_operation_cancel_incoming is synchronous: when it returns to the
\* teardown, the operation is off the connection's list, its handler work
\* has finished and the transport has returned from the response's
\* cport_out_callback, so the connection can go away.
CancelIncomingIsSynchronous ==
  \A i \in InOps : cstate[i] = "done" =>
    /\ ~Contains(conn_ops, i)
    /\ work[i] = "done"
    /\ xfer[i] = "none"

\* gb_operation_cancel_incoming hands gb_message_cancel a response message
\* whenever its latch loses: the result it lost to is one the handler set
\* in gb_operation_response_send, after allocating the response, so
\* operation->response is not NULL.
CancelHasResponse == \A i \in InOps : cstate[i] = "kill" => response[i]

\* Every incoming operation is eventually freed: no error path of the
\* receive, handler or response-send sequence leaks a reference.
NoLeak == \A i \in InOps : istate[i] = "live" ~> Freed(i)

=============================================================================
