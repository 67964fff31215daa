-------------------------------- MODULE GbCore --------------------------------
(***************************************************************************)
(* The greybus core module's life (src/core.c): gb_init brings up its      *)
(* subsystems in order and, when one fails, jumps to the error label that  *)
(* tears down those already up, falling through the labels; gb_exit tears *)
(* all of them down.  The subsystems' own init/exit functions are outside  *)
(* src/ and are abstracted to "up" or "down" with an init that may fail.   *)
(* The host device calls (greybus_create_hd, greybus_remove_hd) are made  *)
(* by the host driver and are composed into its module (GbEs1In).          *)
(***************************************************************************)
EXTENDS Naturals

\* gb_init's order: gb_debugfs_init (void, cannot fail), bus_register,
\* gb_operation_init, gb_endo_init, gb_control_protocol_init,
\* gb_svc_protocol_init, gb_firmware_protocol_init.
Stages == <<"debugfs", "bus", "operation", "endo", "control", "svc", "firmware">>
NumStages == 7
CanFail == 2..NumStages

VARIABLES
  cpc,     \* "boot", "init", "unwind" (gb_init's error labels), "loaded",
           \* "failed", "exit" (gb_exit), "unloaded"
  cstage,  \* init: the stage gb_init calls next; unwind/exit: the stage torn down next
  up,      \* the stages that are up
  cbad     \* an exit function was called for a stage that is not up

corevars == <<cpc, cstage, up, cbad>>

\* The label a failure of stage k jumps to tears down stage k - 1 first
\* (bus_register fails: error_bus; gb_operation_init: error_operation ...).
\* Mutant: each failure jumps one label too early.
ErrorLabelOneOff(k) == k

ErrorLabel(k) == k - 1

CoreInit == cpc = "boot" /\ cstage = 1 /\ up = {} /\ cbad = FALSE

\* gb_init: greybus_disabled() (the nogreybus parameter) returns -ENODEV
\* before anything is set up.
CoreBoot ==
  /\ cpc = "boot"
  /\ cpc' \in {"init", "failed"}
  /\ UNCHANGED <<cstage, up, cbad>>

\* gb_init calls the next stage's init: it succeeds, or it fails and
\* gb_init goes to that stage's error label.
CoreInitStage ==
  /\ cpc = "init" /\ cstage <= NumStages
  /\ \/ /\ up' = up \cup {cstage}
        /\ cstage' = cstage + 1
        /\ UNCHANGED cpc
     \/ /\ cstage \in CanFail
        /\ cpc' = "unwind"
        /\ cstage' = ErrorLabel(cstage)
        /\ UNCHANGED up
  /\ UNCHANGED cbad

\* Every stage is up: gb_init returns 0.
CoreInitDone ==
  /\ cpc = "init" /\ cstage = NumStages + 1
  /\ cpc' = "loaded"
  /\ UNCHANGED <<cstage, up, cbad>>

\* module_exit: gb_exit starts with gb_firmware_protocol_exit.
CoreExitBegin ==
  /\ cpc = "loaded"
  /\ cpc' = "exit" /\ cstage' = NumStages
  /\ UNCHANGED <<up, cbad>>

\* One exit call, of the error labels' fall-through chain or of gb_exit,
\* in reverse order; after gb_debugfs_cleanup gb_init returns its error
\* or gb_exit returns.
CoreTeardown ==
  /\ cpc \in {"unwind", "exit"}
  /\ IF cstage = 0
       THEN /\ cpc' = IF cpc = "unwind" THEN "failed" ELSE "unloaded"
            /\ UNCHANGED <<cstage, up, cbad>>
       ELSE /\ cbad' = (cbad \/ cstage \notin up)
            /\ up' = up \ {cstage}
            /\ cstage' = cstage - 1
            /\ UNCHANGED cpc

\* Steps of gb_init and gb_exit once they run.
CoreRun == CoreBoot \/ CoreInitStage \/ CoreInitDone \/ CoreTeardown

CoreTypeOK ==
  /\ cpc \in {"boot", "init", "unwind", "loaded", "failed", "exit", "unloaded"}
  /\ cstage \in 0..(NumStages + 1) /\ up \subseteq 1..NumStages /\ cbad \in BOOLEAN

\* gb_init's error labels and gb_exit call an exit function only for a
\* stage that is up, and leave none up: once gb_init has returned an error
\* or gb_exit has returned, every stage is down, and while the module is
\* loaded every stage is up.
CoreUnwindSound ==
  /\ ~cbad
  /\ cpc \in {"failed", "unloaded"} => up = {}
  /\ cpc = "loaded" => up = 1..NumStages
=============================================================================
