# TLA+ models of the Greybus operation layer

These modules model four parts of the code, and TLC checks them:

- the Greybus operation core in `src/operation.c`;
- the ES1 USB host driver in `src/svc.h` (its OUT-urb pool, IN urbs, probe and disconnect, and the APB1 log switch);
- the greybus core module's init/exit and the host device's creation and removal in `src/core.c:1-351`;
- the GPIO protocol driver in `src/core.c`.

`spec.md` describes the system. Every definition here is translated from the
source, and `PROJECT.json` maps each one to the lines it models.

## The system

| Part | Source | State | Operations |
|---|---|---|---|
| Operation core, outgoing | `operation.c` | `op_cycle`, per-operation `id`, `errno` (the result latch), `kref`, `active`, `waiters`, `completion`, `work`; the connection's `operations` list | create, request_send, request_send_sync_timeout, cancel, sync_timeout, work, find_outgoing, recv_response, message_sent |
| Operation core, incoming | `operation.c` | the same per-operation fields, plus the response message | recv_request, work → request_handle → response_send, message_sent (response branch), cancel_incoming |
| Result latch | `operation.c:115-159` | `errno`: EBADR → EINPROGRESS → final | gb_operation_result_set |
| Status mapping | `operation.c:364-426` | none (pure) | status_map, errno_map |
| ES1 transport | `svc.h` | OUT-urb pool (`busy`, `cancelled`), `message->hcpriv`, IN urbs | message_send, message_cancel, cport_out_callback, cport_in_callback, probe/disconnect |
| Core module / host device | `core.c:1-351` | the subsystems gb_init brought up; the host device (one kref) | gb_init with its error labels, gb_exit, create_hd, remove_hd/free_hd |
| GPIO protocol | `core.c:352-1072` | cached per-line state, irq mask/type pending flags | line ops over gb_operation_sync, irq bus lock/sync unlock, request_recv |
| APB1 log | `svc.h:544-672` | `apb1_log_task`, `apb1_log_dentry`, the poll threads, the `apb1_log_enable` file | usb_log_enable, usb_log_disable, apb1_log_enable_write |

### How the parts interact

Several actors run concurrently:

- **Callers** run `gb_operation_sync_timeout` in their own threads.
- **The completion workqueue** runs `gb_operation_work` for outgoing operations. Each connection's own workqueue runs it for incoming ones.
- **The transport's OUT-urb completion** (`cport_out_callback`) runs in interrupt context and calls `greybus_message_sent`.
- **The receive path** (`cport_in_callback` → `gb_connection_recv`) also runs in interrupt context. It looks up the operation a response belongs to, or creates one for a request.
- **Connection teardown** (code not in this repository) disables the connection.
- **ES1 setup and teardown:** the USB core calls `ap_probe` and `ap_disconnect`. Meanwhile sends, cancels and completions run, and processes write to the debugfs file `apb1_log_enable`, which switches the APB1 log thread through the global `apb1_log_task` without a lock.

The shared state is guarded as follows:

- The connection lock guards the operations list and the `active` counts.
- A global lock guards the result latch.
- Cancellers sleep on one global wait queue, which `gb_operation_put_active` wakes.

### What is hard here

- **Exactly-once completion.** The response, a send error and a cancellation race to latch a result. Only the winner may copy the response and queue the work.
- **Synchronous cancel.** `gb_operation_cancel` waits on a shared wait queue until the operation is inactive. This is a classic lost-wakeup hazard.
- **Lifetime.**
  - The references and the active count have to balance on every error path of send and response send.
  - The transport uses a message after `greybus_message_sent` and after the response was received.
- **Id arithmetic.** `(u16)(cycle % U16_MAX + 1)` over a 32-bit counter.
- **Unreliable delivery.** Malformed frames, and requests whose operation cannot be allocated, are dropped with no reply.

## Modules

- **`GbCommon`** holds the pure definitions:
  - the `op_cycle` → id arithmetic (`NextCycle`, `CycleToId`);
  - the latch as a value function (`LatchValue`, `LatchWon`);
  - `StatusMap` and `ErrnoMap`.

  TLC integers are 32-bit signed, so the unsigned 32-bit `op_cycle` is a record of two 16-bit halves. Because 2^16 ≡ 1 (mod 65535), the id is `((hi + lo) % 65535) + 1`, which is exact for every cycle value.
- **`GbOperation`** models outgoing operations on one connection.
  - There is one caller per operation, and its program counter `pc` follows `gb_operation_sync_timeout` step by step:
    - `Create` covers the allocation.
    - `AssignId`, `Activate` and `Submit` split `gb_operation_request_send` at its three error exits.
    - `WaitComplete` and `WaitExpire` model the wait. `WaitExpire` includes the latch attempt that `gb_operation_cancel` starts with.
    - `CancelKill` is `message_cancel` plus `queue_work`.
    - `CancelWaitBegin` and `CancelCheck` model `waiters++` and each round of `wait_event`.
    - `Finish` and `Destroy` return the result and drop the caller's reference.
  - Workqueue steps: `WorkCallback` (the sync callback's `complete`), then `WorkPut`.
  - Transport steps: `Transmit` (the frame reaches the peer) and `SendComplete(o, st)` (`greybus_message_sent` for a request).
  - Peer: `PeerRespond` answers with success, success of the wrong size, or an error.
  - Receive path: `RecvResponse` covers the disabled-connection drop, `gb_operation_find_outgoing` (`Matching`: the first outgoing operation on the list with that id), the size check, the latch, the copy and `queue_work`.
  - Environment: `Disable`.
  - The constant `OrderedCompletion` says whether a request's OUT urb always completes before its reply is received.
- **`GbIncoming`** models incoming requests on one connection.
  - `gb_connection_recv_request` is two steps, because it takes `connection->lock` only inside `gb_operation_get_active`:
    - `RecvRequest` creates the operation and makes it active and linked, or drops the frame (creation failed, or the connection is disabled). The result is still -EBADR and there is no response message (`response`).
    - `RecvQueue` latches -EINPROGRESS and queues the work.
    - The constant `TeardownDuringRecv` says whether `Disable` may fall between the two.
  - `gb_operation_response_send` is split at the points where teardown can interleave:
    - `WorkHandle(i, s)` is `gb_operation_request_handle`: it returns at once with no protocol bound; otherwise the handler returns `s`, the response is allocated (this may fail) and `s` is latched (a lost latch returns -EIO). Both early returns leave the result at -EINPROGRESS.
    - `WorkSend` is `gb_operation_get` plus `gb_operation_get_active`.
    - `WorkSubmit` is `gb_message_send`, including its error exit.
  - `WorkPut` is the tail of `gb_operation_work`.
  - `Transmit` carries the response to the peer. The frame (`ResponseFrame`) carries the request's id, which `gb_operation_response_alloc` copies into the zeroed response header.
  - `cport_out_callback` is split at the one point where another thread can interleave:
    - `SendNotify` is `greybus_message_sent`: put_active and put.
    - `SendRelease` is the following `message->hcpriv = NULL` and `free_urb`.
  - Connection teardown calls `gb_operation_cancel_incoming` (`cstate`). Teardown itself is not in this repository; the model is that after `Disable` it takes a reference to each listed operation, cancels it and puts it. The cancel is split into steps:
    - `CancelIncoming`;
    - `CancelFlush` (`flush_work`);
    - `CancelLatch` (latch -ESHUTDOWN);
    - `CancelKillResponse` (`gb_message_cancel(operation->response)`, reached when the latch loses);
    - `CancelWaitInactive`.
- **`GbOperationAbstract`** is what a synchronous call promises: one final result, decided once and returned, and every call returns. `GbOperation` implements it through `INSTANCE GbOperationAbstract WITH`. The refinement mapping is:
  - `AbsResult`: the returned result, else the latched final errno;
  - `returned`: `pc = "done"`.
- **`GbGpio`** models the GPIO protocol driver (`core.c:352-1072`) for one line, composed with the synchronous operation API as an outcome: `ok`, `rejected` (nothing applied), or `timeout_applied` (the module applied it but the caller saw -ETIMEDOUT).
  - State: the driver's cache `line` and the module's state `dev`.
  - Consumer operations (`ConsumerStep`): request, free, direction in/out, get/set value, get direction, and `GpioSetDebounce` (`gb_gpio_set_debounce`: -EINVAL unless the time fits the u16 of the request (`DebounceFits`), then the operation, and the cached time on success).
  - The irq chip:
    - `IrqBusLock`;
    - `Mask`, `Unmask` and `IrqCall` (enable, disable, set_type) set the cache and the pending flags under the bus lock;
    - `SyncType`, `SyncMaskSend` and `SyncMaskClear` are `gb_gpio_irq_bus_sync_unlock`: the type flush, then the mask flush, which sleeps in its operation before clearing `masked_pending`.
  - Events: `RequestRecv` and `EventDone` are `gb_gpio_request_recv` running `handle_level_irq` (mask_ack, then unmask unless disabled) without the bus lock.
  - The constant `EventsDuringFlush` says whether an event may be handled while a flush is sleeping.
- **`GbEs1`** models the ES1 OUT-urb pool (`svc.h:230-405, 520-541`).
  - `NextFreeUrb`: the pool scan under `cport_out_urb_lock`, or the dynamic `usb_alloc_urb` (which may fail).
  - `message_send` is split at its lock section: `SetHcpriv`, then `SubmitUrb`. On failure `SubmitUrb` clears `hcpriv` and calls `free_urb`.
  - `cport_out_callback`: `OutNotify` (`greybus_message_sent`), then `OutRelease` (`hcpriv = NULL`, `free_urb`).
  - `message_cancel`:
    - `CancelBegin`: read `hcpriv`, `usb_get_urb`, mark the pool urb cancelled, all under the lock;
    - `KillStart` and `CancelKill`: `usb_kill_urb`, during which the urb refuses submission;
    - `CancelFinish`: unmark, `usb_free_urb`.
  - A message's dynamic urb is named after the message. `ref` counts each urb's references: `usb_alloc_urb`'s, `usb_get_urb`'s and the USB core's while the urb is submitted. `Put` drops them, and `bad` records a put or use after the last one.
  - `ap_disconnect`'s OUT loop (`DiscStart`, `DiscCheck`, `DiscKill`, `DiscFree`) kills each pool urb, `usb_free_urb`s it, and clears its slot (`stored`) and busy flag without the lock. The constant `SendsDuringDisconnect` says whether a `message_send` may be under way, or start, meanwhile.
- **`GbEs1In`** models the IN path and device setup and teardown:
  - `ap_probe`'s endpoint discovery (`ProbeEndpoints`: without both a bulk IN and a bulk OUT endpoint it goes to `error` with `retval` still -ENOMEM);
  - `ap_probe`'s IN loop (`ProbeAlloc`, `ProbeBuffer`, `ProbeSubmit`), with every failure jumping to `error` (`ProbeError`);
  - the OUT-pool allocation (`ProbeOutPool`);
  - `cport_in_callback` with `check_urb_status` (`Complete`, `InCallback`);
  - `Unplug`;
  - `ap_disconnect`: `usb_log_disable` (phase `logoff`), the IN loop (`DisconnectKill`, `DisconnectFree`, `DisconnectEnd`) and `greybus_remove_hd` (`RemoveHd`; `free_hd` frees es1 with the host device);
  - `ProbeCreateHd`: `greybus_create_hd` at the start of `ap_probe`. It succeeds, or kzalloc or the initial SVC connection fails (the latter drops the only kref through `free_hd`), and then `ap_probe` returns -ENOMEM;
  - the APB1 log switch:
    - `LogWrite(w, en)` is `apb1_log_enable_write`;
    - `usb_log_enable` is split at each access to the globals: `EnableCheck`, `EnableRun` (`kthread_run`: a new thread, or an ERR_PTR), `EnableDentry`;
    - so is `usb_log_disable`: `DisableCheck`, `DisableRemove`, `DisableStop` (`kthread_stop` of whatever `apb1_log_task` holds then: it marks that thread to stop, `stop`, and remembers it, `kt`), `DisableWait` (it returns once the thread has returned), `DisableNull`;
    - callers are the writers `Writers` and `ap_disconnect` (`"disc"`), each with its own program counter in `lpc`;
    - the constant `WritesRaceUnbind` says whether writes may overlap or follow `ap_disconnect`. The file is created at the end of a successful probe (`efile`) and never removed.
  - the APB1 log data path:
    - a log byte is its position in the device's log; `dev` counts the bytes the device has handed out, at most `LogBytes`;
    - `apb1_log_fifo` is `slot` (`FifoSize` slots, indexed modulo the size) with the indices `fin` and `fout`;
    - each log thread runs `apb1_log_poll`: `PollTop` tests `kthread_should_stop` (and returns, `stopped`) or sleeps and calls `apb1_log_get`;
    - `LogGet` is one `usb_control_msg(REQUEST_LOG)`, returning 0 or up to `MsgSize` bytes. The bytes go through `kfifo_in`, which copies what fits in the unused space (`KfifoCopyIn`; the rest is dropped) and then publishes `in` (`KfifoIn`);
    - each reader in `Readers` opens `apb1_log` while it exists (`LogOpen`, `*ppos = 0`), reads (`LogRead`: the count cut to `APB1_LOG_SIZE`, then `kfifo_out`'s copy) and finishes the read (`LogReadOut`: `out += len`, then `simple_read_from_buffer` from offset `*ppos`), and closes it (`LogClose`);
    - `got` is the history of the bytes the readers received.
  - `retval` and `ret` follow the probe's return value.
  - It EXTENDS `GbCore`. `Es(A)` and `Core(A)` keep each side's variables unchanged. `ap_probe` needs the core loaded, and `gb_exit` starts only after the driver is gone, because the es1 module uses the greybus module's symbols.
- **`GbCore`** models the greybus core module (`core.c:14-24, 275-351`):
  - `CoreBoot` is `greybus_disabled` (the `nogreybus` parameter);
  - `CoreInitStage` calls each of the seven stage inits in order, and a failure jumps to `ErrorLabel(k)`;
  - `CoreTeardown` is one exit call of the error labels' fall-through chain, or of `gb_exit` (`CoreExitBegin`);
  - `cbad` records an exit for a stage that is not up.
- **`MCGbOperation`**, **`MCGbIncoming`**, **`MCGbGpio`**, **`MCGbEs1`** and **`MCGbEs1In`** fix the constants for TLC.

## Runs

| Run | cfg | Expect | What it shows |
|---|---|---|---|
| outgoing | `GbOperation.cfg` | pass | Two callers, each able to time out, race their responses, send errors and a connection disable. Properties: `CompletionQueuedOnce`, `CancelIsSynchronous`, `SuccessHasOwnResponse`, `FreedOnlyWhenUnreachable`, `CallersReturn`, and `ImplementsAbstract` (the two calls implement `GbOperationAbstract`). |
| id_wrap | `GbOperationIdWrap.cfg` | violation | `UniqueActiveIds` fails. With `op_cycle = 2^32 - 2`, the next two sends both get id 1 (2^32 - 1 ≡ 0 mod 65535, and 0 % 65535 = 0), and both are active at once. |
| unordered_completion | `GbOperationUnordered.cfg` | violation | `FreedOnlyWhenUnreachable` fails. If a reply is received before the request's OUT urb completes, the caller frees the operation while the transport still holds the request. `cport_out_callback` then reads `message->operation`. |
| incoming | `GbIncoming.cfg` | pass | Properties: `RepliesMatchRequests` (no reply to a unidirectional request; the reply carries the request's id; its status decodes to the handler's result, or to -EIO outside the taxonomy), `FreedOnlyWhenUnlinked`, `CancelIncomingIsSynchronous` (when the cancel returns, the operation is off the list, its work is finished and no response transfer is pending), `NoLeak`. The connection is disabled only outside a receive (`TeardownDuringRecv = FALSE`); the receive window is `incoming_null_cancel`. |
| incoming_null_cancel | `GbIncomingNullCancel.cfg` | violation | `CancelHasResponse` fails in six steps. `RecvRequest` links an operation, teardown disables the connection and cancels it: `flush_work` finds no work, the -ESHUTDOWN latch loses to -EBADR, and `gb_message_cancel` is handed the NULL response (`operation.c:969`), which it dereferences. |
| response_uaf | `GbIncomingResponseUAF.cfg` | violation | `TransportDoneBeforeFree` fails. The handler work drops its reference first. The response's `greybus_message_sent` then drops the last one, and `cport_out_callback` writes `message->hcpriv` in freed memory. |
| gpio | `GbGpio.cfg` | pass | Consumer operations succeed, are refused, or time out after the module applied them. Properties: `IrqStateSynced` (with the bus lock free and nothing pending, the cached mask and type are the module's), `MaskReachesModule` (a pending mask change reaches the module once the flush starts). |
| gpio_flush_race | `GbGpioFlushRace.cfg` | violation | `IrqStateSynced` fails. An irq event's mask/unmask sets `masked_pending` while `sync_unlock` sleeps in the mask operation. `sync_unlock` then clears the flag, and the change never reaches the module (`core.c:693`). |
| es1_out | `GbEs1.cfg` | pass | Two messages share one pool urb, so one of them takes the dynamic fallback or gets -ENOMEM. Properties: `KillHitsOwnTransfer` (cancel's kill never aborts another message's transfer), `DynUrbAlive` (a dynamic urb is never freed while in use), `CancelStopsTransfer` (after `message_cancel` the message is off the wire), `PoolRecovers` (liveness). `ap_disconnect`'s OUT loop starts only when no send is under way. |
| es1_disconnect_uaf | `GbEs1DisconnectUaf.cfg` | violation | `UrbRefsSound` (no urb is used or put after its last reference) fails in eight steps. A send holds the busy pool urb; `ap_disconnect`'s OUT loop kills it (at once, since it is not yet submitted), frees it and clears its slot without the lock; the send then submits the freed urb (`svc.h:352`). |
| es1_in | `GbEs1In.cfg` | pass | Completions carry data or -EOVERFLOW (dropped), and a resubmission may fail. Properties: `NoFreeInFlight` (`ap_disconnect` frees no urb in flight or in its callback), `LogThreadSound` (with one writer that writes only while the driver is bound: `kthread_stop` only ever stops the running log thread, a running thread is the one `apb1_log_task` names and does not outlive es1, and the `apb1_log` file exists only while its thread runs), `CoreUnwindSound` (gb_init's error labels and gb_exit call each exit only for a stage that is up, and leave none up), `LogReadInOrder` (while the log thread's `kfifo_in` and a reader's `kfifo_out` run concurrently, the reader gets only logged bytes, in order, none twice). |
| es1_log_unbind | `GbEs1InLogUnbind.cfg` | violation | `LogThreadSound` fails. A write of `1` overlaps `ap_disconnect`: `usb_log_enable` starts a thread, `ap_disconnect`'s `usb_log_disable` removes the (not yet created) file and stops the thread, and the writer then creates the `apb1_log` file for a thread that no longer runs. The enable file is never removed (`svc.h:765`), so a later write starts `apb1_log_poll` on the freed es1. |

Every property of a passing run has a mutant in `PROJECT.json`: a plausible bug in the mapped code that TLC catches under that run's cfg.

### Bounds

- **Two operations.** This is the smallest number that exposes two-actor races: the shared wait queue, the list order in `find_outgoing`, and the id collision. Each operation is used once.
- **`op_cycle` in the passing run** starts at 65533, so the ids are 65535 and then 1. This exercises the 16-bit wrap without the collision.
- **`op_cycle` in `id_wrap`** starts two below 2^32.
- **Expiries in the passing run:** only the timeout (fair). An interrupted wait (`-ECANCELED`) takes exactly the same steps with a different errno and no fairness, so it adds no behaviour to the safety properties. The violation runs admit both.
- **The refinement check** runs in the outgoing run, with two callers and the timeout only: with the interrupt as well it takes about six minutes.
- **Peer replies:** one success, one success of the wrong size, and one error status. These are the three branches of `gb_connection_recv_response`.
- **Handler results:** success, an error in the wire taxonomy (-EINVAL), and one outside it (-ENOTSUPP, sent as GB_OP_UNKNOWN_ERROR).
- **Request ids:** 0 (unidirectional) and one non-zero id.
- **GPIO:**
  - One line (`LineMax = 0`). Events arrive for it and for an out-of-range hwirq.
  - One supported and one unsupported irq type.
  - Consumer outcomes in the gpio run are `ok`, `rejected` and `timeout_applied`. An operation that times out after the module applied it leaves the cached direction or debounce time stale (`core.c:536`), as the code chooses; that is listed as a hazard.
  - The flush operations succeed. A failed flush is only logged and breaks the cache by design; it is listed as a hazard.
- **ES1 OUT:** two messages and a pool of one urb (`NUM_CPORT_OUT_URB` is 8). This is the smallest pool in which a message must take the dynamic fallback, and in which a cancelled pool urb could be handed to the other message.
- **ES1 disconnect during sends:** `SendsDuringDisconnect = TRUE` only in `es1_disconnect_uaf`. With it, `PoolRecovers` fails too, since the freed pool urb never comes back.
- **APB1 log:** one writer and at most two log threads (`MaxLogThreads`; beyond that, `kthread_run` is taken to fail). Two threads are enough to enable, disable and enable again. One writer racing `ap_disconnect` is enough for the race; two writers racing each other give the same interleavings with `"disc"` replaced by a writer.
- **APB1 log data:** a device log of three bytes, a kfifo of two and up to two bytes per REQUEST_LOG (`APB1_LOG_SIZE` is 16K and `APB1_LOG_MSG_SIZE` 64). This lets the fifo fill, drop the tail of a chunk and wrap around. One reader, reading two bytes at a time, re-opening at will. With two readers TLC finds a byte read twice (`got = <<1, 1>>`): `apb1_log_read` takes no lock around `kfifo_out`. Separately, a reader's second read of one open file loses bytes, because `*ppos` is applied to a fresh buffer. Both are listed as hazards; neither has a run of its own.
- **GPIO debounce:** times 0, 1000 and 70000 (one too large for u16).
- **Core module:** all seven stages, and a failure of any stage that can fail.
- **ES1 IN:** two IN urbs (`NUM_CPORT_IN_URB` is 4). This is enough for a probe failure after one successful submit, and for a kill of one urb while the other is completing. A live device's statuses are data (resubmitted) and -EOVERFLOW (dropped as if the device were gone); -EPROTO and unknown statuses take the same resubmission as data.

### Fairness

The following are weakly fair, because the kernel runs them once they are enabled:

- the caller's own steps;
- the workqueue items;
- the transport's urb completions;
- the receive path, including the second half of `gb_connection_recv_request`;
- when timeouts are enabled, the timeout expiry (a finite timeout always fires);
- teardown's cancel steps, once started;
- the GPIO `sync_unlock` flush;
- ES1's `message_send`, `message_cancel`, probe and disconnect once entered (including the OUT loop),
- a caller inside `usb_log_enable` or `usb_log_disable`, a log thread (it only sleeps a second), a reader's `kfifo_out` once begun, and `gb_init`/`gb_exit` once started, `cport_in_callback`, and the completion of an urb being killed (`usb_kill_urb` unlinks it).

The following are not fair, so the model allows them never to happen:

- the peer, which may never answer;
- signals;
- connection teardown, USB unplug, and `rmmod` of the greybus module;
- writes to `apb1_log_enable`, and opening or reading `apb1_log`;
- GPIO consumers and irq events;
- a USB device's completion of a bulk IN urb, which waits for the device to send.

`Terminated` is a stuttering step, enabled only when no actor has anything to do: every caller has returned or sleeps on the cancellation queue, and, for incoming requests, no work or transfer is pending. Whether that quiet state is correct is what `CallersReturn` and `NoLeak` check.

## Not modelled

- **Connection teardown**, which is not in this repository. `GbIncoming` models its call of `gb_operation_cancel_incoming` as described above.
- **The `message_send` -EINVAL exit.** The core passes valid cport ids.
- **A `message_cancel` that races `message_send`.** It cannot happen with the callers in this repository.
- **`ap_probe`'s return value after a late failure** (`svc.h:739`). `retval` keeps the 0 of the first successful submit, so a later allocation failure tears the device down and returns 0. The model keeps the return value (`ret`) but no run checks it. The IN urb leaked by a failing kmalloc stays in the `local` state. Both are listed as hazards.
- **Receiving stopping for good.** Each -EOVERFLOW or -EILSEQ completion, and each failed resubmission, drops an IN urb for good; `es1_in` includes both, but no property says receiving continues, since the code chooses to drop them. Both are listed as hazards.
- **`greybus_create_hd`'s argument validation.** es1 passes constant arguments, and the bounds are in headers outside `src/`.
- **The bus `match`/`uevent`/`probe`/`remove` callbacks and driver registration.** These are id-table lookups with no state of their own, and nothing in `src/` calls them.
- **`greybus_endo_setup`.** Nothing in `src/` calls it.
- **`apb1_log_poll`'s kmalloc failure.** The thread would return -ENOMEM while `apb1_log_task` still names it, and a later `kthread_stop` would act on a thread that has exited. The model takes the kmalloc to succeed; this is listed as a hazard.
- **A device that never stops logging.** `kthread_stop` would wait for ever, because `apb1_log_get` loops while data comes. The model bounds the log (`LogBytes`). A liveness property that every log call returns was too slow to check on the `es1_in` state space.
- **`apb1_log_enable_read`.** It only formats the state.
- **`gb_debugfs_cleanup`'s removal of the debugfs tree at `rmmod`.** That code is not in this repository.
- **Cport packing.** It is a byte copy guarded by a `BUILD_BUG_ON`.
