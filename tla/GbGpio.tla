------------------------------- MODULE GbGpio -------------------------------
(***************************************************************************)
(* The Greybus GPIO protocol driver (the gpio text in src/core.c) over one *)
(* connection.  The driver caches each line's state in ggc->lines and     *)
(* changes the module's state only through synchronous operations         *)
(* (gb_operation_sync), which end "ok", "rejected" (an error reply or a   *)
(* failed send: nothing applied), or "timeout_applied" (-ETIMEDOUT after  *)
(* the module already applied the request).                               *)
(*                                                                         *)
(* Actors: a gpiolib consumer; the irq core changing a line's irq state   *)
(* under the slow-bus lock (irq_bus_lock ... irq_bus_sync_unlock); the    *)
(* connection workqueue running gb_gpio_request_recv for irq events,     *)
(* whose level-flow handler masks and unmasks the line.  The module's     *)
(* own state (dev) is the environment.                                     *)
(***************************************************************************)
EXTENDS Naturals

CONSTANTS
  LineMax,            \* ggc->line_max, from the line-count operation
  EventLines,         \* `which' values the module may send in irq events
  IrqTypes,           \* IRQ_TYPE_* values irq_set_irq_type may pass ("none" too)
  UnsupportedTypes,   \* those gb_gpio_irq_set_type refuses
  ConsumerOutcomes,   \* outcomes of the consumer's operations
  IrqOutcomes,        \* outcomes of the flush operations of sync_unlock
  EventsDuringFlush,  \* may the handling of an irq event overlap a held bus lock?
  Debounces           \* debounce times (usec) gpiolib may ask for

Lines == 0..LineMax
U16Max == 65535
Outcomes == {"ok", "rejected", "timeout_applied"}

ASSUME ConsumerOutcomes \subseteq Outcomes /\ IrqOutcomes \subseteq Outcomes
ASSUME EventsDuringFlush \in BOOLEAN
ASSUME "none" \in IrqTypes \ UnsupportedTypes

VARIABLES
  line,      \* ggc->lines[]: the driver's cache of each line
  dev,       \* the module's actual line state
  synced,    \* history: the cache was last set from a successful exchange
  disabled,  \* irqd_irq_disabled of each line's irq (irq core)
  lock,      \* ggc->irq_lock: "free" or "held"
  cfg_irq,   \* d->hwirq of the irq the irq core thread is changing
  cfg_pc,    \* the irq core thread: "idle", "locked", "flush", "flush_mask", "mask_sent"
  ev         \* the event handler: [pc |-> "idle" | "handling", which]

vars == <<line, dev, synced, disabled, lock, cfg_irq, cfg_pc, ev>>

Applied(r) == r \in {"ok", "timeout_applied"}

-----------------------------------------------------------------------------
(* The gpiolib consumer (gb_gpio_request ... gb_gpio_set).                 *)

\* gb_gpio_request -> gb_gpio_activate_operation; the cache is set on success.
GpioRequest(l, r) ==
  /\ dev' = [dev EXCEPT ![l].active = IF Applied(r) THEN TRUE ELSE @]
  /\ line' = [line EXCEPT ![l].active = IF r = "ok" THEN TRUE ELSE @]
  /\ UNCHANGED <<synced, disabled, lock, cfg_irq, cfg_pc, ev>>

\* gb_gpio_free -> gb_gpio_deactivate_operation.
GpioFree(l, r) ==
  /\ dev' = [dev EXCEPT ![l].active = IF Applied(r) THEN FALSE ELSE @]
  /\ line' = [line EXCEPT ![l].active = IF r = "ok" THEN FALSE ELSE @]
  /\ UNCHANGED <<synced, disabled, lock, cfg_irq, cfg_pc, ev>>

\* gb_gpio_direction_input -> gb_gpio_direction_in_operation.
DirectionInput(l, r) ==
  /\ dev' = [dev EXCEPT ![l].direction = IF Applied(r) THEN 1 ELSE @]
  /\ line' = [line EXCEPT ![l].direction = IF r = "ok" THEN 1 ELSE @]
  /\ UNCHANGED <<synced, disabled, lock, cfg_irq, cfg_pc, ev>>

\* gb_gpio_direction_output -> gb_gpio_direction_out_operation: the module
\* drives v; the cache records only the direction.
DirectionOutput(l, v, r) ==
  /\ dev' = [dev EXCEPT ![l] = IF Applied(r) THEN [@ EXCEPT !.direction = 0,
                                                            !.value = v]
                                             ELSE @]
  /\ line' = [line EXCEPT ![l].direction = IF r = "ok" THEN 0 ELSE @]
  /\ UNCHANGED <<synced, disabled, lock, cfg_irq, cfg_pc, ev>>

\* The byte a module answers a get-direction (or get-value) request with:
\* any non-zero byte means 1.
Reply(b) == IF b = 1 THEN {1, 2} ELSE {0}

\* Mutant: the reply byte is stored without normalisation.
GetDirectionRaw(l, b, r) ==
  /\ b \in Reply(dev[l].direction)
  /\ line' = [line EXCEPT ![l].direction = IF r = "ok" THEN b ELSE @]
  /\ UNCHANGED <<dev, synced, disabled, lock, cfg_irq, cfg_pc, ev>>

\* gb_gpio_get_direction -> gb_gpio_get_direction_operation: the module
\* answers byte b; the cache keeps (b ? 1 : 0).
GetDirection(l, b, r) ==
  /\ b \in Reply(dev[l].direction)
  /\ line' = [line EXCEPT ![l].direction = IF r = "ok" THEN IF b # 0 THEN 1 ELSE 0
                                                       ELSE @]
  /\ UNCHANGED <<dev, synced, disabled, lock, cfg_irq, cfg_pc, ev>>

\* gb_gpio_get -> gb_gpio_get_value_operation.
GpioGet(l, b, r) ==
  /\ b \in Reply(dev[l].value)
  /\ line' = [line EXCEPT ![l].value = IF r = "ok" THEN IF b # 0 THEN 1 ELSE 0
                                                   ELSE @]
  /\ UNCHANGED <<dev, synced, disabled, lock, cfg_irq, cfg_pc, ev>>

\* gb_gpio_set_debounce: the time must fit the u16 of the request.
DebounceFits(d) == d <= U16Max

\* gb_gpio_set_debounce: a time that does not fit is refused with -EINVAL;
\* otherwise gb_gpio_set_debounce_operation, which caches the
\* time once the operation returned 0.
GpioSetDebounce(l, d, r) ==
  /\ IF ~DebounceFits(d)
       THEN UNCHANGED <<line, dev>>
       ELSE /\ dev' = [dev EXCEPT ![l].debounce_usec = IF Applied(r) THEN d ELSE @]
            /\ line' = [line EXCEPT ![l].debounce_usec = IF r = "ok" THEN d ELSE @]
  /\ UNCHANGED <<synced, disabled, lock, cfg_irq, cfg_pc, ev>>

\* gb_gpio_set -> gb_gpio_set_value_operation: refused, with no operation,
\* when the cached direction is input.
GpioSet(l, v, r) ==
  /\ IF line[l].direction = 1
       THEN UNCHANGED <<line, dev>>
       ELSE /\ dev' = [dev EXCEPT ![l].value = IF Applied(r) THEN v ELSE @]
            /\ line' = [line EXCEPT ![l].value = IF r = "ok" THEN v ELSE @]
  /\ UNCHANGED <<synced, disabled, lock, cfg_irq, cfg_pc, ev>>

ConsumerStep ==
  \E l \in Lines, r \in ConsumerOutcomes :
    \/ GpioRequest(l, r) \/ GpioFree(l, r) \/ DirectionInput(l, r)
    \/ \E v \in {0, 1} : DirectionOutput(l, v, r) \/ GpioSet(l, v, r)
    \/ \E b \in 0..2 : GetDirection(l, b, r) \/ GpioGet(l, b, r)
    \/ \E d \in Debounces : GpioSetDebounce(l, d, r)

-----------------------------------------------------------------------------
(* The irq core changing line l's irq state: chip_bus_lock, one irq_chip  *)
(* callback, chip_bus_sync_unlock.  The callbacks only record the change  *)
(* and set a pending flag; sync_unlock sends it, sleeping in each send.   *)

\* gb_gpio_irq_bus_lock: mutex_lock(&ggc->irq_lock).
IrqBusLock(l) ==
  /\ cfg_pc = "idle" /\ lock = "free"
  /\ EventsDuringFlush \/ ev.pc = "idle"
  /\ lock' = "held" /\ cfg_irq' = l /\ cfg_pc' = "locked"
  /\ UNCHANGED <<line, dev, synced, disabled, ev>>

\* gb_gpio_irq_mask / gb_gpio_irq_unmask: record the wanted mask state.
Mask(ln) == [ln EXCEPT !.masked = TRUE, !.masked_pending = TRUE]
Unmask(ln) == [ln EXCEPT !.masked = FALSE, !.masked_pending = TRUE]

\* Under the lock: disable_irq (irq_disable -> irq_mask), enable_irq
\* (irq_enable -> irq_unmask), the oneshot thread's final unmask of an
\* enabled line, or irq_set_irq_type -> gb_gpio_irq_set_type, which
\* refuses an unsupported type with -EINVAL and otherwise marks it pending.
IrqCall ==
  /\ cfg_pc = "locked"
  /\ \/ /\ disabled' = [disabled EXCEPT ![cfg_irq] = TRUE]
        /\ line' = [line EXCEPT ![cfg_irq] = Mask(@)]
     \/ /\ disabled' = [disabled EXCEPT ![cfg_irq] = FALSE]
        /\ line' = [line EXCEPT ![cfg_irq] = Unmask(@)]
     \/ /\ ~disabled[cfg_irq]
        /\ line' = [line EXCEPT ![cfg_irq] = Unmask(@)]
        /\ UNCHANGED disabled
     \/ \E t \in IrqTypes :
          /\ line' = IF t \in UnsupportedTypes THEN line
                     ELSE [line EXCEPT ![cfg_irq].irq_type = t,
                                       ![cfg_irq].irq_type_pending = TRUE]
          /\ UNCHANGED disabled
  /\ cfg_pc' = "flush"
  /\ UNCHANGED <<dev, synced, lock, cfg_irq, ev>>

\* Mutant: the pending type is cleared without being sent.
SyncTypeClearOnly(r) ==
  /\ cfg_pc = "flush"
  /\ line' = [line EXCEPT ![cfg_irq].irq_type_pending = FALSE]
  /\ synced' = [synced EXCEPT ![cfg_irq].irq_type =
                   IF line[cfg_irq].irq_type_pending THEN TRUE ELSE @]
  /\ cfg_pc' = "flush_mask"
  /\ UNCHANGED <<dev, disabled, lock, cfg_irq, ev>>

\* gb_gpio_irq_bus_sync_unlock, first half: a pending type is sent by
\* _gb_gpio_irq_set_type, whose failure is only logged, then cleared.
SyncType(r) ==
  /\ cfg_pc = "flush"
  /\ IF line[cfg_irq].irq_type_pending
       THEN /\ dev' = [dev EXCEPT ![cfg_irq].irq_type =
                         IF Applied(r) THEN line[cfg_irq].irq_type ELSE @]
            /\ line' = [line EXCEPT ![cfg_irq].irq_type_pending = FALSE]
            /\ synced' = [synced EXCEPT ![cfg_irq].irq_type = TRUE]
       ELSE UNCHANGED <<line, dev, synced>>
  /\ cfg_pc' = "flush_mask"
  /\ UNCHANGED <<disabled, lock, cfg_irq, ev>>

\* Mutant: a pending mask change is dropped, still pending, when no
\* type was pending before it.
SyncMaskSendElse(r) ==
  /\ cfg_pc = "flush_mask"
  /\ lock' = "free" /\ cfg_pc' = "idle"
  /\ UNCHANGED <<line, dev, synced, disabled, cfg_irq, ev>>

\* Second half: if a mask change is pending, read line->masked and send
\* _gb_gpio_irq_mask or _gb_gpio_irq_unmask (a failure is only logged);
\* otherwise unlock.
SyncMaskSend(r) ==
  /\ cfg_pc = "flush_mask"
  /\ IF line[cfg_irq].masked_pending
       THEN /\ dev' = [dev EXCEPT ![cfg_irq].masked =
                         IF Applied(r) THEN line[cfg_irq].masked ELSE @]
            /\ synced' = [synced EXCEPT ![cfg_irq].masked = TRUE]
            /\ cfg_pc' = "mask_sent"
            /\ UNCHANGED lock
       ELSE /\ lock' = "free" /\ cfg_pc' = "idle"
            /\ UNCHANGED <<dev, synced>>
  /\ UNCHANGED <<line, disabled, cfg_irq, ev>>

\* After the send returns: masked_pending = false; mutex_unlock.
SyncMaskClear ==
  /\ cfg_pc = "mask_sent"
  /\ line' = [line EXCEPT ![cfg_irq].masked_pending = FALSE]
  /\ lock' = "free" /\ cfg_pc' = "idle"
  /\ UNCHANGED <<dev, synced, disabled, cfg_irq, ev>>

-----------------------------------------------------------------------------
(* An irq event from the module: gb_gpio_request_recv on the connection's *)
(* workqueue, then handle_level_irq (ggc->irq_handler), which masks the   *)
(* line and, unless the irq is disabled or its handler is a oneshot      *)
(* thread, unmasks it.  Neither callback takes ggc->irq_lock.            *)

\* gb_gpio_request_recv: `which > line_max' is refused with -EINVAL;
\* otherwise mask_ack_irq -> gb_gpio_irq_mask.
RequestRecv(w) ==
  /\ ev.pc = "idle"
  /\ EventsDuringFlush \/ lock = "free"
  /\ IF w > LineMax
       THEN UNCHANGED <<line, ev>>
       ELSE /\ line' = [line EXCEPT ![w] = Mask(@)]
            /\ ev' = [pc |-> "handling", which |-> w]
  /\ UNCHANGED <<dev, synced, disabled, lock, cfg_irq, cfg_pc>>

\* End of handle_level_irq: cond_unmask_irq -> gb_gpio_irq_unmask when the
\* irq is enabled and not oneshot (Oneshot: the thread unmasks later).
EventDone ==
  /\ ev.pc = "handling"
  /\ EventsDuringFlush \/ lock = "free"
  /\ \/ /\ ~disabled[ev.which]
        /\ line' = [line EXCEPT ![ev.which] = Unmask(@)]
     \/ UNCHANGED line
  /\ ev' = [ev EXCEPT !.pc = "idle"]
  /\ UNCHANGED <<dev, synced, disabled, lock, cfg_irq, cfg_pc>>

-----------------------------------------------------------------------------
(* gb_gpio_controller_setup: kcalloc(line_max + 1) zeroes the cache; the  *)
(* module's lines are in whatever state it keeps; the irq descriptors     *)
(* start disabled.                                                        *)
LineInit == [active |-> FALSE, direction |-> 0, value |-> 0, debounce_usec |-> 0,
             irq_type |-> "none", irq_type_pending |-> FALSE,
             masked |-> FALSE, masked_pending |-> FALSE]

DevLines == [active : BOOLEAN, direction : {0, 1}, value : {0, 1},
             debounce_usec : {d \in Debounces : DebounceFits(d)},
             irq_type : IrqTypes \ UnsupportedTypes, masked : BOOLEAN]

Init ==
  /\ line = [l \in Lines |-> LineInit]
  /\ dev \in [Lines -> DevLines]
  /\ synced = [l \in Lines |-> [irq_type |-> FALSE, masked |-> FALSE]]
  /\ disabled = [l \in Lines |-> TRUE]
  /\ lock = "free" /\ cfg_irq = 0 /\ cfg_pc = "idle"
  /\ ev = [pc |-> "idle", which |-> 0]

IrqStep ==
  \/ IrqCall \/ SyncMaskClear
  \/ \E r \in IrqOutcomes : SyncType(r) \/ SyncMaskSend(r)

Next ==
  \/ ConsumerStep
  \/ \E l \in Lines : IrqBusLock(l)
  \/ IrqStep
  \/ \E w \in EventLines : RequestRecv(w)
  \/ EventDone

\* The flush sleeps only in synchronous operations, which end (with a
\* timeout at worst), so the thread holding the bus lock is fair.  The
\* consumer, the irq core taking the lock and the module's events are not.
Spec == Init /\ [][Next]_vars /\ WF_vars(IrqStep)

-----------------------------------------------------------------------------
TypeOK ==
  /\ line \in [Lines -> [active : BOOLEAN, direction : {0, 1}, value : {0, 1},
                         debounce_usec : 0..U16Max,
                         irq_type : IrqTypes \ UnsupportedTypes,
                         irq_type_pending : BOOLEAN, masked : BOOLEAN,
                         masked_pending : BOOLEAN]]
  /\ dev \in [Lines -> DevLines]
  /\ lock \in {"free", "held"} /\ cfg_irq \in Lines
  /\ cfg_pc \in {"idle", "locked", "flush", "flush_mask", "mask_sent"}
  /\ (cfg_pc = "idle") = (lock = "free")

\* The pending flags of struct gb_gpio_line promise that, with the bus
\* lock free, a line with nothing pending has its cached mask state and
\* irq type on the module (for what has been sent at least once).
IrqStateSynced ==
  lock = "free" =>
    \A l \in Lines :
      /\ synced[l].masked /\ ~line[l].masked_pending
           => line[l].masked = dev[l].masked
      /\ synced[l].irq_type /\ ~line[l].irq_type_pending
           => line[l].irq_type = dev[l].irq_type

\* A mask change recorded under the bus lock reaches the module when
\* irq_bus_sync_unlock ends: the thread comes back to idle with the
\* module's mask equal to the cached one.
MaskReachesModule ==
  \A l \in Lines :
    (lock = "held" /\ cfg_irq = l /\ cfg_pc = "flush" /\ line[l].masked_pending)
      ~> (cfg_pc = "idle" /\ dev[l].masked = line[l].masked)
=============================================================================
