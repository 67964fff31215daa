---------------------------- MODULE GbOperation ----------------------------
(***************************************************************************)
(* The Greybus operation core (src/operation.c) on one connection, driven  *)
(* by synchronous callers (gb_operation_sync_timeout) and served by the    *)
(* ES1 USB host transport (the es1 driver text in src/svc.h), with a peer  *)
(* that answers requests.                                                  *)
(*                                                                         *)
(* Actors: one caller thread per outgoing operation; the completion        *)
(* workqueue; the transport's OUT-urb completion (cport_out_callback);     *)
(* the receive path (cport_in_callback -> gb_connection_recv); the peer.   *)
(* Operations are model values; payloads are abstracted to which request   *)
(* a response answers and whether its size was right.                     *)
(***************************************************************************)
EXTENDS GbCommon, Sequences, SequencesExt, FiniteSets

CONSTANTS
  Ops,               \* outgoing operations, one gb_operation_sync_timeout caller each
  NoOp,              \* model value: "no operation"
  CycleInit,         \* values connection->op_cycle may hold when the model starts
  Expiries,          \* how the sync wait may end early: "ETIMEDOUT", "ECANCELED"
  OrderedCompletion  \* TRUE: a request's OUT-urb completes before the reply is received

ASSUME NoOp \notin Ops
ASSUME Expiries \subseteq {"ETIMEDOUT", "ECANCELED"}
ASSUME OrderedCompletion \in BOOLEAN

VARIABLES
  conn_state,  \* connection->state
  conn_ops,    \* connection->operations, in list order
  op_cycle,    \* connection->op_cycle, an unsigned 32-bit value as [hi, lo] halves
  pc,          \* where each caller is in gb_operation_sync_timeout
  ret,         \* the value each caller's gb_operation_sync_timeout returns
  opid,        \* operation->id
  errno,       \* operation->errno, the latched result
  refs,        \* operation->kref
  active,      \* operation->active
  waiters,     \* operation->waiters
  waitq,       \* threads asleep on gb_operation_cancellation_queue
  completion,  \* operation->completion is done
  work,        \* state of operation->work: "idle", "queued", "called"
  queued,      \* number of times operation->work was queued (history)
  xfer,        \* request message held by the transport: "none", "submitted", "onwire"
  peer_reqs,   \* request frames the peer has received and not answered
  rx,          \* response frames on their way back from the peer
  resp_data    \* payload in operation->response: [for, good] or NoData

vars == <<conn_state, conn_ops, op_cycle, pc, ret, opid, errno, refs, active,
          waiters, waitq, completion, work, queued, xfer, peer_reqs, rx,
          resp_data>>

-----------------------------------------------------------------------------
(* The result latch on this model's variables.                             *)

NoData == [for |-> NoOp, good |-> FALSE]

\* Statuses the peer puts in a response, and whether the size matches.
PeerReplies == {[st |-> "GB_OP_SUCCESS", good |-> TRUE],
                [st |-> "GB_OP_SUCCESS", good |-> FALSE],
                [st |-> "GB_OP_INVALID", good |-> TRUE]}

Latch(o, result) == errno' = [errno EXCEPT ![o] = LatchValue(@, result)]

-----------------------------------------------------------------------------
(* Shared bookkeeping steps.                                               *)

\* gb_operation_get_active, when the connection is enabled.
GetActive(o) ==
  /\ active' = [active EXCEPT ![o] = @ + 1]
  /\ conn_ops' = IF active[o] = 0 THEN Append(conn_ops, o) ELSE conn_ops

\* Mutant: put_active that never wakes the cancellation queue.
PutActiveNoWake(o) ==
  /\ active' = [active EXCEPT ![o] = @ - 1]
  /\ conn_ops' = IF active[o] = 1 THEN Remove(conn_ops, o) ELSE conn_ops
  /\ UNCHANGED waitq

\* gb_operation_put_active: unlink on last put, wake cancellers if any wait.
PutActive(o) ==
  /\ active' = [active EXCEPT ![o] = @ - 1]
  /\ IF active[o] = 1
       THEN /\ conn_ops' = Remove(conn_ops, o)
            /\ waitq' = IF waiters[o] > 0 THEN {} ELSE waitq
       ELSE UNCHANGED <<conn_ops, waitq>>

\* gb_operation_put (kref_put); the operation is freed when it reaches 0.
Put(o) == refs' = [refs EXCEPT ![o] = @ - 1]

\* queue_work: a pending work item is not queued twice.
QueueWork(o) ==
  /\ work' = [work EXCEPT ![o] = "queued"]
  /\ queued' = [queued EXCEPT ![o] = @ + 1]

Freed(o) == pc[o] # "create" /\ refs[o] = 0

-----------------------------------------------------------------------------
(* The synchronous caller: gb_operation_sync_timeout ->                    *)
(* gb_operation_request_send_sync_timeout -> gb_operation_request_send.    *)

\* gb_operation_create: the operation and its messages are allocated, or not.
Create(o) ==
  /\ pc[o] = "create"
  /\ \/ /\ refs' = [refs EXCEPT ![o] = 1]
        /\ pc' = [pc EXCEPT ![o] = "assign"]
        /\ UNCHANGED ret
     \/ /\ pc' = [pc EXCEPT ![o] = "done"]
        /\ ret' = [ret EXCEPT ![o] = "ENOMEM"]
        /\ UNCHANGED refs
  /\ UNCHANGED <<conn_state, conn_ops, op_cycle, opid, errno, active, waiters,
                 waitq, completion, work, queued, xfer, peer_reqs, rx, resp_data>>

\* Id from the connection's cycle counter, then the result goes in flight.
AssignId(o) ==
  LET c == NextCycle(op_cycle) IN
  /\ pc[o] = "assign"
  /\ op_cycle' = c
  /\ opid' = [opid EXCEPT ![o] = CycleToId(c)]
  /\ Latch(o, "EINPROGRESS")
  /\ pc' = [pc EXCEPT ![o] = "activate"]
  /\ UNCHANGED <<conn_state, conn_ops, ret, refs, active, waiters, waitq,
                 completion, work, queued, xfer, peer_reqs, rx, resp_data>>

\* Mutant: the -ENOTCONN path drops a reference it never took.
ActivatePutUntaken(o) ==
  /\ pc[o] = "activate"
  /\ IF conn_state = "ENABLED"
       THEN /\ refs' = [refs EXCEPT ![o] = @ + 1]
            /\ GetActive(o)
            /\ pc' = [pc EXCEPT ![o] = "submit"]
            /\ UNCHANGED ret
       ELSE /\ pc' = [pc EXCEPT ![o] = "destroy"]
            /\ ret' = [ret EXCEPT ![o] = "ENOTCONN"]
            /\ Put(o)
            /\ UNCHANGED <<active, conn_ops>>
  /\ UNCHANGED <<conn_state, op_cycle, opid, errno, waiters, waitq, completion,
                 work, queued, xfer, peer_reqs, rx, resp_data>>

\* Extra reference, then gb_operation_get_active; -ENOTCONN drops the ref.
Activate(o) ==
  /\ pc[o] = "activate"
  /\ IF conn_state = "ENABLED"
       THEN /\ refs' = [refs EXCEPT ![o] = @ + 1]
            /\ GetActive(o)
            /\ pc' = [pc EXCEPT ![o] = "submit"]
            /\ UNCHANGED ret
       ELSE /\ pc' = [pc EXCEPT ![o] = "destroy"]
            /\ ret' = [ret EXCEPT ![o] = "ENOTCONN"]
            /\ UNCHANGED <<refs, active, conn_ops>>
  /\ UNCHANGED <<conn_state, op_cycle, opid, errno, waiters, waitq, completion,
                 work, queued, xfer, peer_reqs, rx, resp_data>>

\* Mutant: the send error path jumps to err_put, skipping put_active.
SubmitSkipPutActive(o) ==
  /\ pc[o] = "submit"
  /\ \/ /\ xfer' = [xfer EXCEPT ![o] = "submitted"]
        /\ pc' = [pc EXCEPT ![o] = "wait"]
        /\ UNCHANGED <<ret, refs>>
     \/ /\ Put(o)
        /\ pc' = [pc EXCEPT ![o] = "destroy"]
        /\ ret' = [ret EXCEPT ![o] = "ENODEV"]
        /\ UNCHANGED xfer
  /\ UNCHANGED <<conn_state, conn_ops, active, waitq, op_cycle, opid, errno,
                 waiters, completion, work, queued, peer_reqs, rx, resp_data>>

\* gb_message_send -> es1 message_send: queued on an urb, or an error that
\* undoes the activation and the extra reference.
Submit(o) ==
  /\ pc[o] = "submit"
  /\ \/ /\ xfer' = [xfer EXCEPT ![o] = "submitted"]
        /\ pc' = [pc EXCEPT ![o] = "wait"]
        /\ UNCHANGED <<ret, active, conn_ops, waitq, refs>>
     \/ /\ PutActive(o)
        /\ Put(o)
        /\ pc' = [pc EXCEPT ![o] = "destroy"]
        /\ ret' = [ret EXCEPT ![o] = "ENODEV"]
        /\ UNCHANGED xfer
  /\ UNCHANGED <<conn_state, op_cycle, opid, errno, waiters, completion, work,
                 queued, peer_reqs, rx, resp_data>>

\* wait_for_completion_interruptible_timeout returns > 0.
WaitComplete(o) ==
  /\ pc[o] = "wait"
  /\ completion[o]
  /\ pc' = [pc EXCEPT ![o] = "result"]
  /\ UNCHANGED <<conn_state, conn_ops, op_cycle, ret, opid, errno, refs, active,
                 waiters, waitq, completion, work, queued, xfer, peer_reqs, rx,
                 resp_data>>

\* The wait times out or is interrupted: gb_operation_cancel(op, why) starts
\* by trying to latch why.
WaitExpire(o, why) ==
  /\ pc[o] = "wait"
  /\ ~completion[o]
  /\ Latch(o, why)
  /\ pc' = [pc EXCEPT ![o] = IF LatchWon(errno[o], why) THEN "kill"
                                                        ELSE "cancel_wait"]
  /\ UNCHANGED <<conn_state, conn_ops, op_cycle, ret, opid, refs, active,
                 waiters, waitq, completion, work, queued, xfer, peer_reqs, rx,
                 resp_data>>

\* The canceller won: gb_message_cancel -> es1 message_cancel kills the urb;
\* its callback reports an error the latch ignores.  Then queue the work.
CancelKill(o) ==
  /\ pc[o] = "kill"
  /\ xfer' = [xfer EXCEPT ![o] = "none"]
  /\ QueueWork(o)
  /\ pc' = [pc EXCEPT ![o] = "cancel_wait"]
  /\ UNCHANGED <<conn_state, conn_ops, op_cycle, ret, opid, errno, refs, active,
                 waiters, waitq, completion, peer_reqs, rx, resp_data>>

\* atomic_inc(&operation->waiters).
CancelWaitBegin(o) ==
  /\ pc[o] = "cancel_wait"
  /\ waiters' = [waiters EXCEPT ![o] = @ + 1]
  /\ pc' = [pc EXCEPT ![o] = "cancel_check"]
  /\ UNCHANGED <<conn_state, conn_ops, op_cycle, ret, opid, errno, refs, active,
                 waitq, completion, work, queued, xfer, peer_reqs, rx, resp_data>>

\* Mutant: the canceller does not wait for the operation to go inactive.
CancelCheckNoWait(o) ==
  /\ \/ pc[o] = "cancel_check"
     \/ pc[o] = "cancel_sleep" /\ o \notin waitq
  /\ waitq' = waitq \ {o}
  /\ waiters' = [waiters EXCEPT ![o] = @ - 1]
  /\ pc' = [pc EXCEPT ![o] = "cancelled"]
  /\ UNCHANGED <<conn_state, conn_ops, op_cycle, ret, opid, errno, refs, active,
                 completion, work, queued, xfer, peer_reqs, rx, resp_data>>

\* One round of wait_event(queue, !gb_operation_is_active(op)): get on the
\* queue, test; return (and atomic_dec waiters) or sleep until woken.
CancelCheck(o) ==
  /\ \/ pc[o] = "cancel_check"
     \/ pc[o] = "cancel_sleep" /\ o \notin waitq
  /\ IF active[o] = 0
       THEN /\ waitq' = waitq \ {o}
            /\ waiters' = [waiters EXCEPT ![o] = @ - 1]
            /\ pc' = [pc EXCEPT ![o] = "cancelled"]
       ELSE /\ waitq' = waitq \cup {o}
            /\ pc' = [pc EXCEPT ![o] = "cancel_sleep"]
            /\ UNCHANGED waiters
  /\ UNCHANGED <<conn_state, conn_ops, op_cycle, ret, opid, errno, refs, active,
                 completion, work, queued, xfer, peer_reqs, rx, resp_data>>

\* gb_operation_result is returned; the response is copied out on success;
\* gb_operation_destroy drops the caller's reference.
Finish(o) ==
  /\ pc[o] \in {"result", "cancelled"}
  /\ ret' = [ret EXCEPT ![o] = errno[o]]
  /\ Put(o)
  /\ pc' = [pc EXCEPT ![o] = "done"]
  /\ UNCHANGED <<conn_state, conn_ops, op_cycle, opid, errno, active, waiters,
                 waitq, completion, work, queued, xfer, peer_reqs, rx, resp_data>>

\* The send failed: gb_operation_sync_timeout destroys the operation.
Destroy(o) ==
  /\ pc[o] = "destroy"
  /\ Put(o)
  /\ pc' = [pc EXCEPT ![o] = "done"]
  /\ UNCHANGED <<conn_state, conn_ops, op_cycle, ret, opid, errno, active,
                 waiters, waitq, completion, work, queued, xfer, peer_reqs, rx,
                 resp_data>>

-----------------------------------------------------------------------------
(* The completion workqueue: gb_operation_work for an outgoing operation.  *)

\* operation->callback = gb_operation_sync_callback: complete().
WorkCallback(o) ==
  /\ work[o] = "queued"
  /\ work' = [work EXCEPT ![o] = "called"]
  /\ completion' = [completion EXCEPT ![o] = TRUE]
  /\ UNCHANGED <<conn_state, conn_ops, op_cycle, pc, ret, opid, errno, refs,
                 active, waiters, waitq, queued, xfer, peer_reqs, rx, resp_data>>

\* gb_operation_put_active; gb_operation_put.
WorkPut(o) ==
  /\ work[o] = "called"
  /\ work' = [work EXCEPT ![o] = "idle"]
  /\ PutActive(o)
  /\ Put(o)
  /\ UNCHANGED <<conn_state, op_cycle, pc, ret, opid, errno, waiters,
                 completion, queued, xfer, peer_reqs, rx, resp_data>>

-----------------------------------------------------------------------------
(* The ES1 transport and the peer.                                         *)

\* The OUT urb carries the request frame, with its id, to the peer.
Transmit(o) ==
  /\ xfer[o] = "submitted"
  /\ xfer' = [xfer EXCEPT ![o] = "onwire"]
  /\ peer_reqs' = peer_reqs \cup {[id |-> opid[o], for |-> o]}
  /\ UNCHANGED <<conn_state, conn_ops, op_cycle, pc, ret, opid, errno, refs,
                 active, waiters, waitq, completion, work, queued, rx, resp_data>>

\* cport_out_callback -> greybus_message_sent for a request: an error status
\* is latched and, if it wins, completes the operation.
SendComplete(o, st) ==
  /\ xfer[o] # "none"
  /\ st = "0" => xfer[o] = "onwire"
  /\ xfer' = [xfer EXCEPT ![o] = "none"]
  /\ IF st # "0" /\ LatchWon(errno[o], st)
       THEN /\ Latch(o, st)
            /\ QueueWork(o)
       ELSE UNCHANGED <<errno, work, queued>>
  /\ UNCHANGED <<conn_state, conn_ops, op_cycle, pc, ret, opid, refs, active,
                 waiters, waitq, completion, peer_reqs, rx, resp_data>>

\* The peer answers a request it received.  Under OrderedCompletion the
\* host has already seen that request's OUT-urb complete.
PeerRespond(r, s) ==
  /\ r \in peer_reqs
  /\ OrderedCompletion => xfer[r.for] = "none"
  /\ peer_reqs' = peer_reqs \ {r}
  /\ rx' = rx \cup {[id |-> r.id, st |-> s.st, good |-> s.good, for |-> r.for]}
  /\ UNCHANGED <<conn_state, conn_ops, op_cycle, pc, ret, opid, errno, refs,
                 active, waiters, waitq, completion, work, queued, xfer,
                 resp_data>>

-----------------------------------------------------------------------------
(* The receive path: gb_connection_recv -> gb_connection_recv_response.    *)

\* gb_operation_find_outgoing: outgoing operations on the list with this id;
\* the first one is returned.
Matching(id) == SelectSeq(conn_ops, LAMBDA x : x \in Ops /\ opid[x] = id)

\* Mutant: the response size is not checked.
RespErrnoNoSize(f) == StatusMap(f.st)

\* The errno a response frame is completed with: its mapped status, or
\* -EMSGSIZE when a success response is not exactly the expected size.
RespErrno(f) ==
  LET e == StatusMap(f.st) IN IF e = "0" /\ ~f.good THEN "EMSGSIZE" ELSE e

\* Mutant: the work is queued whether or not the latch was won.
RecvResponseNoLatch(f) ==
  /\ f \in rx
  /\ rx' = rx \ {f}
  /\ IF conn_state = "ENABLED" /\ Matching(f.id) # <<>>
       THEN LET o == Head(Matching(f.id))
                e == RespErrno(f)
            IN /\ Latch(o, e)
               /\ resp_data' = [resp_data EXCEPT ![o] =
                     IF LatchWon(errno[o], e) /\ e = "0"
                       THEN [for |-> f.for, good |-> f.good] ELSE @]
               /\ QueueWork(o)
       ELSE UNCHANGED <<errno, resp_data, work, queued>>
  /\ UNCHANGED <<conn_state, conn_ops, op_cycle, pc, ret, opid, refs, active,
                 waiters, waitq, completion, xfer, peer_reqs>>

\* Frames on a disabled connection, and frames no operation matches, are
\* dropped; otherwise the result is latched and, if it wins, the header (and
\* on success the payload) is copied and the work queued.
RecvResponse(f) ==
  /\ f \in rx
  /\ rx' = rx \ {f}
  /\ IF conn_state = "ENABLED" /\ Matching(f.id) # <<>>
       THEN LET o == Head(Matching(f.id))
                e == RespErrno(f)
            IN IF LatchWon(errno[o], e)
                 THEN /\ Latch(o, e)
                      /\ resp_data' = [resp_data EXCEPT ![o] =
                            IF e = "0" THEN [for |-> f.for, good |-> f.good]
                                       ELSE @]
                      /\ QueueWork(o)
                 ELSE UNCHANGED <<errno, resp_data, work, queued>>
       ELSE UNCHANGED <<errno, resp_data, work, queued>>
  /\ UNCHANGED <<conn_state, conn_ops, op_cycle, pc, ret, opid, refs, active,
                 waiters, waitq, completion, xfer, peer_reqs>>

\* The connection is disabled (connection teardown, outside src/).
Disable ==
  /\ conn_state = "ENABLED"
  /\ conn_state' = "DISABLED"
  /\ UNCHANGED <<conn_ops, op_cycle, pc, ret, opid, errno, refs, active,
                 waiters, waitq, completion, work, queued, xfer, peer_reqs, rx,
                 resp_data>>

-----------------------------------------------------------------------------
(* Specification.                                                          *)

Init ==
  /\ conn_state = "ENABLED"
  /\ conn_ops = <<>>
  /\ op_cycle \in CycleInit
  /\ pc = [o \in Ops |-> "create"]
  /\ ret = [o \in Ops |-> "none"]
  /\ opid = [o \in Ops |-> 0]
  /\ errno = [o \in Ops |-> "EBADR"]
  /\ refs = [o \in Ops |-> 0]
  /\ active = [o \in Ops |-> 0]
  /\ waiters = [o \in Ops |-> 0]
  /\ waitq = {}
  /\ completion = [o \in Ops |-> FALSE]
  /\ work = [o \in Ops |-> "idle"]
  /\ queued = [o \in Ops |-> 0]
  /\ xfer = [o \in Ops |-> "none"]
  /\ peer_reqs = {}
  /\ rx = {}
  /\ resp_data = [o \in Ops |-> NoData]

\* The caller's own steps, all of which its thread eventually takes.
CallerStep(o) ==
  \/ Create(o) \/ AssignId(o) \/ Activate(o) \/ Submit(o) \/ WaitComplete(o)
  \/ CancelKill(o) \/ CancelWaitBegin(o) \/ CancelCheck(o) \/ Finish(o)
  \/ Destroy(o)

\* Every caller has returned or sleeps on the cancellation queue; nothing
\* else need happen (whether a sleeper is woken is CallersReturn's question).
Terminated ==
  /\ \A o \in Ops : pc[o] \in {"done", "cancel_sleep"}
  /\ UNCHANGED vars

Next ==
  \/ \E o \in Ops :
       \/ CallerStep(o)
       \/ \E why \in Expiries : WaitExpire(o, why)
       \/ WorkCallback(o) \/ WorkPut(o)
       \/ Transmit(o)
       \/ \E st \in {"0", "EPROTO"} : SendComplete(o, st)
  \/ \E r \in peer_reqs, s \in PeerReplies : PeerRespond(r, s)
  \/ \E f \in rx : RecvResponse(f)
  \/ Disable
  \/ Terminated

\* Threads, the workqueue, the host controller and the IN-urb path make
\* progress; a timeout fires if one is set.  The peer, signals and
\* connection teardown need not happen.
Fairness ==
  /\ \A o \in Ops :
       /\ WF_vars(CallerStep(o))
       /\ "ETIMEDOUT" \in Expiries => WF_vars(WaitExpire(o, "ETIMEDOUT"))
       /\ WF_vars(WorkCallback(o)) /\ WF_vars(WorkPut(o))
       /\ WF_vars(Transmit(o))
       /\ WF_vars(\E st \in {"0", "EPROTO"} : SendComplete(o, st))
  /\ WF_vars(\E f \in rx : RecvResponse(f))

Spec == Init /\ [][Next]_vars /\ Fairness

-----------------------------------------------------------------------------
(* Properties.                                                             *)

Errnos == {"EBADR", "EINPROGRESS", "0", "EILSEQ", "EMSGSIZE", "EINVAL",
           "ETIMEDOUT", "ECANCELED", "EPROTO"}

TypeOK ==
  /\ conn_state \in {"ENABLED", "DISABLED"}
  /\ conn_ops \in Seq(Ops)
  /\ op_cycle \in [hi : 0..Half - 1, lo : 0..Half - 1]
  /\ pc \in [Ops -> {"create", "assign", "activate", "submit", "wait", "kill",
                     "cancel_wait", "cancel_check", "cancel_sleep", "cancelled",
                     "result", "destroy", "done"}]
  /\ ret \in [Ops -> Errnos \cup {"none", "ENOMEM", "ENOTCONN", "ENODEV"}]
  /\ opid \in [Ops -> 0..U16_MAX]
  /\ errno \in [Ops -> Errnos]
  /\ refs \in [Ops -> 0..2]
  /\ active \in [Ops -> 0..1]
  /\ waiters \in [Ops -> 0..1]
  /\ waitq \subseteq Ops
  /\ completion \in [Ops -> BOOLEAN]
  /\ work \in [Ops -> {"idle", "queued", "called"}]
  /\ queued \in [Ops -> Nat]
  /\ xfer \in [Ops -> {"none", "submitted", "onwire"}]
  /\ resp_data \in [Ops -> [for : Ops \cup {NoOp}, good : BOOLEAN]]

\* Exactly one completion per operation: whichever of the response
\* (gb_connection_recv_response), a send error (greybus_message_sent) and a
\* cancellation (gb_operation_cancel) reaches the latch first queues the
\* work, and the others never queue it again.
CompletionQueuedOnce == \A o \in Ops : queued[o] <= 1

\* gb_operation_cancel is synchronous: when it returns to
\* gb_operation_request_send_sync_timeout the operation is no longer active
\* (off the connection list) and the transport no longer holds its request.
CancelIsSynchronous ==
  \A o \in Ops : pc[o] = "cancelled" =>
    /\ active[o] = 0
    /\ ~Contains(conn_ops, o)
    /\ xfer[o] = "none"

\* gb_operation_sync_timeout returns 0 only when the response buffer holds a
\* correctly sized response to its own request.
SuccessHasOwnResponse ==
  \A o \in Ops : pc[o] = "done" /\ ret[o] = "0" =>
    resp_data[o] = [for |-> o, good |-> TRUE]

\* An operation is freed (last gb_operation_put) only when nothing can reach
\* it any more: its caller has returned, it is off the connection list, no
\* work item is pending on it, and the transport holds none of its messages.
FreedOnlyWhenUnreachable ==
  \A o \in Ops : Freed(o) =>
    /\ pc[o] = "done"
    /\ ~Contains(conn_ops, o)
    /\ work[o] = "idle"
    /\ xfer[o] = "none"

\* The data model's invariant: operation ids are unique among the outgoing
\* operations currently active on a connection.
UniqueActiveIds ==
  \A i, j \in 1..Len(conn_ops) :
    i # j => opid[conn_ops[i]] # opid[conn_ops[j]]

\* Every synchronous caller returns: cancellers blocked in wait_event are
\* woken by gb_operation_put_active once the operation goes inactive.
CallersReturn == \A o \in Ops : <>(pc[o] = "done")


-----------------------------------------------------------------------------
(* Refinement: gb_operation_sync_timeout implements GbOperationAbstract.   *)
(* A call's abstract result is what its caller will return: the error the *)
(* caller set on a local failure (ret), otherwise the latched final       *)
(* operation->errno; it has returned once pc is "done".                   *)

Results == (Errnos \ {"EBADR", "EINPROGRESS"}) \cup {"ENOMEM", "ENOTCONN", "ENODEV"}

AbsResult ==
  [o \in Ops |-> IF ret[o] # "none" THEN ret[o]
                 ELSE IF errno[o] \in Results THEN errno[o]
                 ELSE "none"]

Abs == INSTANCE GbOperationAbstract
         WITH Calls <- Ops, result <- AbsResult,
              returned <- [o \in Ops |-> pc[o] = "done"]

\* Every synchronous call decides one final result that no later response,
\* send error or cancellation changes (gb_operation_result_set), returns
\* exactly that result from gb_operation_sync_timeout, and always returns.
ImplementsAbstract == Abs!Spec
=============================================================================
