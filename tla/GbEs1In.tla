------------------------------- MODULE GbEs1In -------------------------------
(***************************************************************************)
(* The ES1 host driver's IN path (src/svc.h): ap_probe allocates and      *)
(* submits NUM_CPORT_IN_URB bulk IN urbs; cport_in_callback checks each   *)
(* completion (check_urb_status), hands the data to greybus_data_rcvd and *)
(* resubmits the urb, or drops it; ap_disconnect kills and frees them.    *)
(* Message contents (short message, CPort id) only decide what is logged *)
(* and are abstracted away: every successful completion is resubmitted.  *)
(*                                                                         *)
(* Composed with it, the APB1 log switch: ap_probe creates the debugfs     *)
(* file apb1_log_enable, whose writes call usb_log_enable/usb_log_disable  *)
(* on the global apb1_log_task, and ap_disconnect starts with             *)
(* usb_log_disable.  The log thread apb1_log_poll copies what the device  *)
(* logs into the kfifo apb1_log_fifo; processes reading the debugfs file  *)
(* apb1_log take it out with apb1_log_read.  A log byte is its position   *)
(* in the device's log (1, 2, ...); a fifo slot not yet written holds 0.  *)
(* ap_probe starts with greybus_create_hd and ap_disconnect ends with      *)
(* greybus_remove_hd, which frees the host device and es1 with it; both    *)
(* need the greybus core (GbCore) loaded.                                  *)
(***************************************************************************)
EXTENDS Integers, Sequences, GbCore

CONSTANTS
  NumIn,            \* NUM_CPORT_IN_URB
  InStatuses,       \* urb->status values a live device's completions may carry
  BufferCanFail,    \* may ap_probe's kmalloc of an IN buffer fail?
  ProbeSubmitCanFail, \* may ap_probe's usb_submit_urb fail?
  Writers,          \* processes writing to the debugfs file apb1_log_enable
  MaxLogThreads,    \* bound on the log threads kthread_run creates; beyond it, it fails
  WritesRaceUnbind, \* may writes overlap ap_disconnect or follow it?
  LogBytes,         \* bound on the bytes the device logs
  FifoSize,         \* APB1_LOG_SIZE, the kfifo's size (a power of two)
  MsgSize,          \* APB1_LOG_MSG_SIZE, the most one REQUEST_LOG returns
  Readers,          \* processes reading the debugfs file apb1_log
  ReadCounts        \* the counts they pass to read()

ASSUME FifoSize \in {1, 2, 4} /\ MsgSize \in 1..FifoSize

InUrbs == 0..(NumIn - 1)
LogThreads == 1..MaxLogThreads
Callers == Writers \cup {"disc"}     \* "disc": ap_disconnect's usb_log_disable
NULL == 0                            \* apb1_log_task: NULL, an ERR_PTR, or a thread
ERR == -1
Slots == 0..(FifoSize - 1)
MinOf(a, b) == IF a < b THEN a ELSE b

VARIABLES
  phase,   \* "create" (greybus_create_hd), "endpoints", "probe", "running", "logoff"
           \* (usb_log_disable), "disconnect", "remove" (greybus_remove_hd), "gone"
  pi,      \* ap_probe's loop index
  di,      \* ap_disconnect's loop index over the IN urbs
  dkill,   \* ap_disconnect is inside usb_kill_urb(cport_in_urb[di])
  ust,     \* each IN urb: "none", "local" (allocated, not stored), "idle", "flight", "callback"
  freed,   \* usb_free_urb has been called on the urb
  status,  \* urb->status of the completion being handled
  retval,  \* ap_probe's retval: "ENOMEM" (its initial value), "0", "ESUBMIT"
  ret,     \* what ap_probe returned: "pending", or a retval
  task,    \* apb1_log_task
  thr,     \* each log thread: "none" (not created), "running", "stopped"
  dentry,  \* apb1_log_dentry: "null" or "file"
  efile,   \* the debugfs file apb1_log_enable exists (with es1 as private data)
  lpc,     \* where each caller is inside usb_log_enable/usb_log_disable
  kt,      \* the thread a caller's kthread_stop is waiting for
  stop,    \* the threads kthread_stop has asked to stop (kthread_should_stop)
  oops,    \* kthread_stop was applied to a thread that is not running
  dev,     \* the bytes of its log the device has handed out
  fin,     \* apb1_log_fifo.in
  fout,    \* apb1_log_fifo.out
  slot,    \* the fifo's buffer
  plen,    \* each log thread: the bytes its kfifo_in copied, not yet published
  rpc,     \* each reader: "closed", "open", or "copy" (inside kfifo_out)
  rpos,    \* each reader: the file position *ppos
  rbuf,    \* each reader: apb1_log_read's tmp_buf (what kfifo_out copied)
  got      \* every byte the readers have received, in order

esvars == <<phase, pi, di, dkill, ust, freed, status, retval, ret>>
fifovars == <<dev, fin, fout, slot, plen, rpc, rpos, rbuf, got>>
logvars == <<task, thr, dentry, efile, lpc, kt, stop, oops, fifovars>>
vars == <<esvars, logvars, corevars>>

\* check_urb_status: 0; the statuses taken to mean the device is gone
\* (-EOVERFLOW falls through to them); any other is -EAGAIN.
GoneStatuses == {"EOVERFLOW", "ECONNRESET", "ENOENT", "ESHUTDOWN", "EILSEQ", "EPROTO"}
CheckUrbStatus(s) ==
  IF s = "ok" \/ s \in GoneStatuses THEN s ELSE "EAGAIN"

\* A log thread that has been created and has not returned.
Alive(t) == thr[t] \in {"poll", "get", "in"}

\* The urb ap_disconnect is killing refuses resubmission (urb->reject).
Killing(k) == phase = "disconnect" /\ dkill /\ di = k

\* ap_disconnect begins with usb_log_disable.
ToDisconnect == /\ phase' = "logoff"
                /\ lpc' = [lpc EXCEPT !["disc"] = "dis_check"]
                /\ UNCHANGED <<pi, di, dkill, task, thr, dentry, efile, kt, stop, oops, fifovars>>

\* goto error: ap_disconnect, then return retval (its current value).
ProbeError(rv) == ToDisconnect /\ retval' = rv /\ ret' = rv

-----------------------------------------------------------------------------
\* greybus_create_hd with es1_driver's callbacks, sizes and CPORT_COUNT:
\* kzalloc or the initial SVC connection may fail (the latter drops the
\* only reference: free_hd), and ap_probe returns -ENOMEM unbound.
ProbeCreateHd ==
  /\ phase = "create" /\ cpc = "loaded"
  /\ \/ phase' = "endpoints" /\ UNCHANGED ret
     \/ phase' = "gone" /\ ret' = "ENOMEM"
  /\ UNCHANGED <<pi, di, dkill, ust, freed, status, retval, logvars>>

\* ap_probe looks for a bulk IN and a bulk OUT endpoint among the
\* interface's endpoints; without both it goes to error (retval is still
\* -ENOMEM).
ProbeEndpoints ==
  /\ phase = "endpoints"
  /\ \E found \in SUBSET {"bulk_in", "bulk_out"} :
       IF found = {"bulk_in", "bulk_out"}
         THEN phase' = "probe" /\ UNCHANGED <<retval, ret, logvars>>
         ELSE ProbeError(retval)
  /\ UNCHANGED <<pi, di, dkill, ust, freed, status>>

(* ap_probe: for each IN urb, usb_alloc_urb, kmalloc the buffer, store    *)
(* both, usb_submit_urb; any failure goes to error: ap_disconnect.        *)

ProbeAlloc ==
  /\ phase = "probe" /\ pi < NumIn /\ ust[pi] = "none"
  /\ \/ /\ ust' = [ust EXCEPT ![pi] = "local"]
        /\ UNCHANGED <<phase, pi, di, dkill, retval, ret, logvars>>
     \/ /\ ProbeError(retval) /\ UNCHANGED ust
  /\ UNCHANGED <<freed, status>>

ProbeBuffer ==
  /\ phase = "probe" /\ pi < NumIn /\ ust[pi] = "local"
  /\ \/ /\ ust' = [ust EXCEPT ![pi] = "idle"]
        /\ UNCHANGED <<phase, pi, di, dkill, retval, ret, logvars>>
     \/ /\ BufferCanFail
        /\ ProbeError(retval) /\ UNCHANGED ust
  /\ UNCHANGED <<freed, status>>

ProbeSubmit ==
  /\ phase = "probe" /\ pi < NumIn /\ ust[pi] = "idle"
  /\ \/ /\ ust' = [ust EXCEPT ![pi] = "flight"]
        /\ pi' = pi + 1
        /\ retval' = "0"
        /\ UNCHANGED <<phase, di, dkill, ret, logvars>>
     \/ /\ ProbeSubmitCanFail
        /\ ProbeError("ESUBMIT") /\ UNCHANGED ust
  /\ UNCHANGED <<freed, status>>

\* The OUT pool is allocated (usb_alloc_urb may fail: error) and probe
\* returns 0.
ProbeOutPool ==
  /\ phase = "probe" /\ pi = NumIn
  /\ \/ /\ phase' = "running" /\ ret' = "0"
        /\ efile' = TRUE
        /\ UNCHANGED <<pi, di, dkill, retval, task, thr, dentry, lpc, kt, stop, oops, fifovars>>
     \/ ProbeError(retval)
  /\ UNCHANGED <<ust, freed, status>>

-----------------------------------------------------------------------------
(* The USB core and cport_in_callback.                                     *)

\* A submitted urb completes: with a live device's status, or -ENOENT when
\* usb_kill_urb unlinks it.
Complete(k, s) ==
  /\ ust[k] = "flight"
  /\ IF Killing(k) THEN s = "ENOENT" ELSE s \in InStatuses
  /\ ust' = [ust EXCEPT ![k] = "callback"]
  /\ status' = [status EXCEPT ![k] = s]
  /\ UNCHANGED <<phase, pi, di, dkill, freed, retval, ret, logvars>>

\* cport_in_callback: a status other than -EAGAIN or -EPROTO returns
\* without resubmitting; otherwise the data is delivered (or logged) and
\* usb_submit_urb(GFP_ATOMIC) puts the urb back.  The submission fails
\* while the urb is being killed, and may fail at any time (no memory, the
\* device gone); the error is only logged and the urb stays idle.
InCallback(k) ==
  LET st == CheckUrbStatus(status[k]) IN
  /\ ust[k] = "callback"
  /\ \/ /\ st \in {"ok", "EAGAIN", "EPROTO"} /\ ~Killing(k)
        /\ ust' = [ust EXCEPT ![k] = "flight"]
     \/ ust' = [ust EXCEPT ![k] = "idle"]
  /\ UNCHANGED <<phase, pi, di, dkill, freed, status, retval, ret, logvars>>

\* The device is unplugged or the driver unbound: ap_disconnect starts
\* (unless writes may race it, only between two writes).
Unplug ==
  /\ phase = "running"
  /\ WritesRaceUnbind \/ \A w \in Writers : lpc[w] = "idle"
  /\ ToDisconnect
  /\ UNCHANGED <<ust, freed, status, retval, ret>>

-----------------------------------------------------------------------------
(* ap_disconnect's IN loop: stop at the first NULL urb; usb_kill_urb,     *)
(* usb_free_urb, kfree the buffer.                                          *)

\* Mutant: the urb is freed without being killed.
DisconnectKillSkip ==
  /\ phase = "disconnect" /\ di < NumIn /\ ~dkill
  /\ IF ust[di] \in {"none", "local"}
       THEN phase' = "remove" /\ UNCHANGED <<di, dkill, freed>>
       ELSE /\ freed' = [freed EXCEPT ![di] = TRUE]
            /\ di' = di + 1
            /\ UNCHANGED <<phase, dkill>>
  /\ UNCHANGED <<pi, ust, status, retval, ret, logvars>>

DisconnectKill ==
  /\ phase = "disconnect" /\ di < NumIn /\ ~dkill
  /\ IF ust[di] \in {"none", "local"}
       THEN phase' = "remove" /\ UNCHANGED dkill
       ELSE dkill' = TRUE /\ UNCHANGED phase
  /\ UNCHANGED <<pi, di, ust, freed, status, retval, ret, logvars>>

\* usb_kill_urb returns once the urb is idle and its callback has returned.
DisconnectFree ==
  /\ phase = "disconnect" /\ dkill /\ ust[di] = "idle"
  /\ freed' = [freed EXCEPT ![di] = TRUE]
  /\ di' = di + 1
  /\ dkill' = FALSE
  /\ UNCHANGED <<phase, pi, ust, status, retval, ret, logvars>>

\* The loop has visited every IN urb; greybus_remove_hd follows.
DisconnectEnd ==
  /\ phase = "disconnect" /\ di = NumIn
  /\ phase' = "remove"
  /\ UNCHANGED <<pi, di, dkill, ust, freed, status, retval, ret, logvars>>

\* usb_set_intfdata(NULL); greybus_remove_hd: the interfaces, the endo and
\* the initial SVC connection go, and kref_put_mutex drops the only
\* reference: free_hd frees the host device, es1 included.
RemoveHd ==
  /\ phase = "remove"
  /\ phase' = "gone"
  /\ UNCHANGED <<pi, di, dkill, ust, freed, status, retval, ret, logvars>>

-----------------------------------------------------------------------------
(* The APB1 log switch.  Each caller (a writer of apb1_log_enable, or      *)
(* ap_disconnect) runs usb_log_enable or usb_log_disable without a lock:  *)
(* the test of apb1_log_task and the writes after it are separate steps.  *)

\* apb1_log_enable_write: "1" calls usb_log_enable, "0" usb_log_disable (a
\* string kstrtoint rejects returns before either and changes nothing).
LogWrite(w, en) ==
  /\ efile /\ lpc[w] = "idle"
  /\ WritesRaceUnbind \/ phase = "running"
  /\ lpc' = [lpc EXCEPT ![w] = IF en THEN "en_check" ELSE "dis_check"]
  /\ UNCHANGED <<esvars, task, thr, dentry, efile, kt, stop, oops, fifovars>>

\* Mutant: usb_log_enable without its IS_ERR_OR_NULL(apb1_log_task) test.
EnableCheckSkip(c) ==
  /\ lpc[c] = "en_check"
  /\ lpc' = [lpc EXCEPT ![c] = "en_run"]
  /\ UNCHANGED <<esvars, task, thr, dentry, efile, kt, stop, oops, fifovars>>

\* usb_log_enable returns at once if a log task is already set.
EnableCheck(c) ==
  /\ lpc[c] = "en_check"
  /\ lpc' = [lpc EXCEPT ![c] = IF task \in {NULL, ERR} THEN "en_run" ELSE "idle"]
  /\ UNCHANGED <<esvars, task, thr, dentry, efile, kt, stop, oops, fifovars>>

\* apb1_log_task = kthread_run(apb1_log_poll, es1, ...): a new running
\* thread, or an ERR_PTR, after which usb_log_enable returns.
EnableRun(c) ==
  /\ lpc[c] = "en_run"
  /\ \/ \E t \in LogThreads :
          /\ thr[t] = "none" /\ \A u \in LogThreads : thr[u] = "none" => t <= u
          /\ thr' = [thr EXCEPT ![t] = "poll"]
          /\ task' = t
          /\ lpc' = [lpc EXCEPT ![c] = "en_dentry"]
     \/ /\ task' = ERR
        /\ lpc' = [lpc EXCEPT ![c] = "idle"]
        /\ UNCHANGED thr
  /\ UNCHANGED <<esvars, dentry, efile, kt, stop, oops, fifovars>>

\* apb1_log_dentry = debugfs_create_file("apb1_log", ...).
EnableDentry(c) ==
  /\ lpc[c] = "en_dentry"
  /\ dentry' = "file"
  /\ lpc' = [lpc EXCEPT ![c] = "idle"]
  /\ UNCHANGED <<esvars, task, thr, efile, kt, stop, oops, fifovars>>

\* usb_log_disable returns at once unless a log task is set.
DisableCheck(c) ==
  /\ lpc[c] = "dis_check"
  /\ lpc' = [lpc EXCEPT ![c] = IF task \in {NULL, ERR} THEN "idle" ELSE "dis_remove"]
  /\ UNCHANGED <<esvars, task, thr, dentry, efile, kt, stop, oops, fifovars>>

\* debugfs_remove(apb1_log_dentry); apb1_log_dentry = NULL.
DisableRemove(c) ==
  /\ lpc[c] = "dis_remove"
  /\ dentry' = "null"
  /\ lpc' = [lpc EXCEPT ![c] = "dis_stop"]
  /\ UNCHANGED <<esvars, task, thr, efile, kt, stop, oops, fifovars>>

\* kthread_stop(apb1_log_task), on whatever the global holds now: it marks
\* the thread to stop and waits for it.  Stopping NULL, an ERR_PTR or a
\* thread that has already returned is an oops.
DisableStop(c) ==
  /\ lpc[c] = "dis_stop"
  /\ IF task \in LogThreads /\ Alive(task)
       THEN /\ stop' = stop \cup {task} /\ kt' = [kt EXCEPT ![c] = task]
            /\ lpc' = [lpc EXCEPT ![c] = "dis_wait"]
            /\ UNCHANGED oops
       ELSE /\ oops' = TRUE /\ lpc' = [lpc EXCEPT ![c] = "dis_null"]
            /\ UNCHANGED <<stop, kt>>
  /\ UNCHANGED <<esvars, task, thr, dentry, efile, fifovars>>

\* kthread_stop returns once apb1_log_poll has seen kthread_should_stop.
DisableWait(c) ==
  /\ lpc[c] = "dis_wait" /\ thr[kt[c]] = "stopped"
  /\ lpc' = [lpc EXCEPT ![c] = "dis_null"]
  /\ UNCHANGED <<esvars, task, thr, dentry, efile, kt, stop, oops, fifovars>>

\* apb1_log_task = NULL.
DisableNull(c) ==
  /\ lpc[c] = "dis_null"
  /\ task' = NULL
  /\ lpc' = [lpc EXCEPT ![c] = "idle"]
  /\ UNCHANGED <<esvars, thr, dentry, efile, kt, stop, oops, fifovars>>

\* usb_log_disable has returned: ap_disconnect goes on to its urb loops.
LogOffDone ==
  /\ phase = "logoff" /\ lpc["disc"] = "idle"
  /\ phase' = "disconnect"
  /\ UNCHANGED <<pi, di, dkill, ust, freed, status, retval, ret, logvars>>

LogStep(c) ==
  \/ EnableCheck(c) \/ EnableRun(c) \/ EnableDentry(c)
  \/ DisableCheck(c) \/ DisableRemove(c) \/ DisableStop(c) \/ DisableWait(c)
  \/ DisableNull(c)

-----------------------------------------------------------------------------
(* The APB1 log data path.  apb1_log_poll is the only writer of the kfifo  *)
(* and a reader of apb1_log the only reader: kfifo_in and kfifo_out copy   *)
(* the bytes first and publish the new in or out index after.             *)

\* apb1_log_poll, after its kmalloc(APB1_LOG_MSG_SIZE) (taken to succeed):
\* while (!kthread_should_stop()) { msleep(1000); apb1_log_get(); }, and
\* kfree(buf); return 0 once it should stop.
PollTop(t) ==
  /\ thr[t] = "poll"
  /\ thr' = [thr EXCEPT ![t] = IF t \in stop THEN "stopped" ELSE "get"]
  /\ UNCHANGED <<esvars, task, dentry, efile, lpc, kt, stop, oops, fifovars>>

KfifoUnused == FifoSize - (fin - fout)

\* Mutant: kfifo_in copies all n bytes, whether or not they fit.
KfifoCopyInNoClamp(t, n) ==
  /\ slot' = [i \in Slots |-> IF (i - fin) % FifoSize < n
                              THEN dev + 1 + ((i - fin) % FifoSize) ELSE slot[i]]
  /\ plen' = [plen EXCEPT ![t] = n]

\* kfifo_in(&apb1_log_fifo, buf, n) copies what fits in the unused space
\* after in (the rest is dropped), before it publishes in.
KfifoCopyIn(t, n) ==
  LET len == MinOf(n, KfifoUnused) IN
  /\ slot' = [i \in Slots |-> IF (i - fin) % FifoSize < len
                              THEN dev + 1 + ((i - fin) % FifoSize) ELSE slot[i]]
  /\ plen' = [plen EXCEPT ![t] = len]

\* apb1_log_get: usb_control_msg(REQUEST_LOG) returns up to APB1_LOG_MSG_SIZE
\* bytes of the device's log, which go to kfifo_in; it loops while it gets
\* some, and returns on 0 or an error.
LogGet(t) ==
  /\ thr[t] = "get"
  /\ \E n \in 0..MinOf(MsgSize, LogBytes - dev) :
       IF n = 0
         THEN thr' = [thr EXCEPT ![t] = "poll"] /\ UNCHANGED <<dev, slot, plen>>
         ELSE /\ KfifoCopyIn(t, n)
              /\ dev' = dev + n
              /\ thr' = [thr EXCEPT ![t] = "in"]
  /\ UNCHANGED <<esvars, task, dentry, efile, lpc, kt, stop, oops,
                 fin, fout, rpc, rpos, rbuf, got>>

\* kfifo_in ends with fifo->in += len.
KfifoIn(t) ==
  /\ thr[t] = "in"
  /\ fin' = fin + plen[t]
  /\ thr' = [thr EXCEPT ![t] = "get"]
  /\ UNCHANGED <<esvars, task, dentry, efile, lpc, kt, stop, oops,
                 dev, fout, slot, plen, rpc, rpos, rbuf, got>>

PollStep(t) == PollTop(t) \/ LogGet(t) \/ KfifoIn(t)

\* A process opens apb1_log (*ppos = 0) while its dentry exists, and
\* closes it.
LogOpen(r) ==
  /\ rpc[r] = "closed" /\ dentry = "file"
  /\ rpc' = [rpc EXCEPT ![r] = "open"] /\ rpos' = [rpos EXCEPT ![r] = 0]
  /\ UNCHANGED <<esvars, task, thr, dentry, efile, lpc, kt, stop, oops,
                 dev, fin, fout, slot, plen, rbuf, got>>

LogClose(r) ==
  /\ rpc[r] = "open"
  /\ rpc' = [rpc EXCEPT ![r] = "closed"]
  /\ UNCHANGED <<esvars, task, thr, dentry, efile, lpc, kt, stop, oops,
                 dev, fin, fout, slot, plen, rpos, rbuf, got>>

\* apb1_log_read: count is cut to APB1_LOG_SIZE (a failing kmalloc of
\* tmp_buf returns -ENOMEM and changes nothing); kfifo_out copies up to
\* count of the bytes between out and in.
LogRead(r, count) ==
  LET l == MinOf(MinOf(count, FifoSize), fin - fout) IN
  /\ rpc[r] = "open"
  /\ rbuf' = [rbuf EXCEPT ![r] = [j \in 1..l |-> slot[(fout + j - 1) % FifoSize]]]
  /\ rpc' = [rpc EXCEPT ![r] = "copy"]
  /\ UNCHANGED <<esvars, task, thr, dentry, efile, lpc, kt, stop, oops,
                 dev, fin, fout, slot, plen, rpos, got>>

\* kfifo_out ends with fifo->out += len; simple_read_from_buffer hands
\* the reader tmp_buf from offset *ppos on and advances *ppos by that much.
LogReadOut(r) ==
  LET copied == Len(rbuf[r])
      give   == IF rpos[r] < copied THEN SubSeq(rbuf[r], rpos[r] + 1, copied) ELSE <<>>
  IN
  /\ rpc[r] = "copy"
  /\ fout' = fout + copied
  /\ got' = got \o give
  /\ rpos' = [rpos EXCEPT ![r] = @ + Len(give)]
  /\ rpc' = [rpc EXCEPT ![r] = "open"]
  /\ UNCHANGED <<esvars, task, thr, dentry, efile, lpc, kt, stop, oops,
                 dev, fin, slot, plen, rbuf>>

ReadStep(r) == LogOpen(r) \/ LogClose(r) \/ LogReadOut(r)
                \/ \E count \in ReadCounts : LogRead(r, count)

-----------------------------------------------------------------------------
Init ==
  /\ phase = "create" /\ pi = 0 /\ di = 0 /\ dkill = FALSE
  /\ ust = [k \in InUrbs |-> "none"]
  /\ freed = [k \in InUrbs |-> FALSE]
  /\ status = [k \in InUrbs |-> "ok"]
  /\ retval = "ENOMEM" /\ ret = "pending"
  /\ task = NULL /\ thr = [t \in LogThreads |-> "none"]
  /\ dentry = "null" /\ efile = FALSE
  /\ lpc = [c \in Callers |-> "idle"] /\ oops = FALSE
  /\ kt = [c \in Callers |-> NULL] /\ stop = {}
  /\ dev = 0 /\ fin = 0 /\ fout = 0 /\ slot = [i \in Slots |-> 0]
  /\ plen = [t \in LogThreads |-> 0]
  /\ rpc = [r \in Readers |-> "closed"] /\ rpos = [r \in Readers |-> 0]
  /\ rbuf = [r \in Readers |-> <<>>] /\ got = <<>>
  /\ CoreInit

ProbeStep == ProbeCreateHd \/ ProbeEndpoints \/ ProbeAlloc \/ ProbeBuffer \/ ProbeSubmit \/ ProbeOutPool
DisconnectStep == LogOffDone \/ DisconnectKill \/ DisconnectFree \/ DisconnectEnd \/ RemoveHd

\* The driver is unbound and every urb it owned is released.
\* A step of the host driver, which leaves the core module alone, and a
\* step of the core module's init or exit, which leaves the driver alone.
Es(A) == A /\ UNCHANGED corevars
Core(A) == A /\ UNCHANGED <<esvars, logvars>>

\* The greybus module cannot be removed while the es1 module, which uses
\* it, is bound to a device: gb_exit only after ap_disconnect.
CoreStep == CoreRun \/ (CoreExitBegin /\ phase = "gone")

\* The driver is unbound (or could never bind), every urb it owned is
\* released, no log call is under way, and gb_init/gb_exit have returned.
Terminated == /\ phase = "gone" \/ cpc = "failed"
              /\ \A k \in InUrbs : ust[k] # "callback"
              /\ \A c \in Callers : lpc[c] = "idle"
              /\ \A r \in Readers : rpc[r] # "copy"
              /\ cpc \in {"loaded", "failed", "unloaded"}
              /\ UNCHANGED vars

Next ==
  \/ Core(CoreStep)
  \/ Es(\/ ProbeStep \/ DisconnectStep \/ Unplug
        \/ \E k \in InUrbs : InCallback(k) \/ \E s \in InStatuses \cup {"ENOENT"} : Complete(k, s)
        \/ \E w \in Writers, en \in BOOLEAN : LogWrite(w, en)
        \/ \E c \in Callers : LogStep(c)
        \/ \E t \in LogThreads : PollStep(t)
        \/ \E r \in Readers : ReadStep(r))
  \/ Terminated

\* gb_init and gb_exit run to their return; probe and disconnect run to
\* the end; a callback that has started finishes; an urb being killed is
\* completed by the USB core; a caller inside usb_log_enable or
\* usb_log_disable runs to its return; a log thread keeps running (it
\* sleeps only for a second) and a read in kfifo_out finishes.  Unplugging,
\* rmmod and reading the log are not forced.
Spec == Init /\ [][Next]_vars /\ WF_vars(Core(CoreRun))
          /\ WF_vars(Es(ProbeStep)) /\ WF_vars(Es(DisconnectStep))
          /\ \A k \in InUrbs : WF_vars(Es(InCallback(k)))
                              /\ WF_vars(Es(Killing(k) /\ Complete(k, "ENOENT")))
          /\ \A c \in Callers : WF_vars(Es(LogStep(c)))
          /\ \A t \in LogThreads : WF_vars(Es(PollStep(t)))
          /\ \A r \in Readers : WF_vars(Es(LogReadOut(r)))

-----------------------------------------------------------------------------
TypeOK ==
  /\ phase \in {"create", "endpoints", "probe", "running", "logoff", "disconnect", "remove", "gone"}
  /\ pi \in 0..NumIn /\ di \in 0..NumIn /\ dkill \in BOOLEAN
  /\ ust \in [InUrbs -> {"none", "local", "idle", "flight", "callback"}]
  /\ freed \in [InUrbs -> BOOLEAN]
  /\ status \in [InUrbs -> InStatuses \cup {"ok", "ENOENT"}]
  /\ retval \in {"ENOMEM", "0", "ESUBMIT"} /\ ret \in {"pending", "ENOMEM", "0", "ESUBMIT"}
  /\ task \in {NULL, ERR} \cup LogThreads
  /\ thr \in [LogThreads -> {"none", "poll", "get", "in", "stopped"}]
  /\ kt \in [Callers -> {NULL} \cup LogThreads] /\ stop \subseteq LogThreads
  /\ dentry \in {"null", "file"} /\ efile \in BOOLEAN /\ oops \in BOOLEAN
  /\ lpc \in [Callers -> {"idle", "en_check", "en_run", "en_dentry",
                           "dis_check", "dis_remove", "dis_stop", "dis_wait", "dis_null"}]
  /\ dev \in 0..LogBytes /\ fin \in 0..dev /\ fout \in 0..fin
  /\ slot \in [Slots -> 0..LogBytes] /\ plen \in [LogThreads -> 0..MsgSize]
  /\ rpc \in [Readers -> {"closed", "open", "copy"}] /\ rpos \in [Readers -> 0..LogBytes]
  /\ rbuf \in [Readers -> Seq(0..LogBytes)] /\ got \in Seq(0..LogBytes)
  /\ CoreTypeOK

\* ap_disconnect never frees an IN urb that the USB core may still
\* complete or whose cport_in_callback is still running.
NoFreeInFlight ==
  \A k \in InUrbs : freed[k] => ust[k] \notin {"flight", "callback"}

\* usb_log_enable and usb_log_disable keep apb1_log_task and the log
\* threads in step: kthread_stop only ever stops the running log thread,
\* a running thread is the one apb1_log_task names (so a later disable
\* stops it) and does not outlive ap_disconnect, whose es1 it polls; and
\* the "apb1_log" file exists only while its thread runs.
LogThreadSound ==
  /\ ~oops
  /\ \A t \in LogThreads : Alive(t) => task = t /\ phase # "gone"
  /\ dentry = "file" => task \in LogThreads /\ Alive(task)

\* A reader of apb1_log receives only bytes the device logged (never a
\* slot kfifo_in has not filled yet), in the order the device logged them
\* and none twice, although apb1_log_poll's kfifo_in and apb1_log_read's
\* kfifo_out run at the same time on apb1_log_fifo without a lock, and
\* log threads come and go with usb_log_enable/usb_log_disable.
LogReadInOrder ==
  \A i \in 1..Len(got) : got[i] >= 1 /\ (i > 1 => got[i - 1] < got[i])
=============================================================================
