---------------------------- MODULE OtaWatchdog ----------------------------
(***************************************************************************)
(* src/espbase/boot/ota_rollback_watchdog.cpp: a new image is on trial     *)
(* until every startup gate has been passed; a timer restarts the device   *)
(* when that takes too long, and the boot loader then rolls back.          *)
(*                                                                         *)
(* The callers are the application's main task (start), one task per gate, *)
(* and the esp_timer task.  The boot loader is external: it puts a new     *)
(* image on trial, and boots the other slot when a trial was not passed.   *)
(***************************************************************************)
EXTENDS Integers, FiniteSets

CONSTANTS Slot, Gate

ASSUME OtaAssumption ==
  /\ IsFiniteSet(Slot) /\ Cardinality(Slot) = 2
  /\ IsFiniteSet(Gate) /\ Gate # {}

VARIABLES
  image,     \* flash: the state of each slot's image
  selected,  \* flash: the slot to boot
  running,   \* the slot this boot runs
  ota        \* what this boot has done:
             \*   startup_checks, s_watchdog_timer  the statics
             \*   timer      the esp_timer behind the handle
             \*   starter    where start_ota_rollback_watchdog is
             \*   gate       where the task that passes each gate is
             \*   watchdog   where the timer's callback is

otaFlash == <<image, selected, running>>
otaVars == <<otaFlash, ota>>

ImageState == {"invalid", "new", "pending", "valid", "aborted"}

OtaTypeOK ==
  /\ image \in [Slot -> ImageState]
  /\ {selected, running} \subseteq Slot
  /\ ota \in [startup_checks : -Cardinality(Gate)..Cardinality(Gate),
              s_watchdog_timer : BOOLEAN,
              timer : {"none", "created", "armed"},
              starter : {"todo", "state", "create", "arm", "done", "abort"},
              gate : [Gate -> {"ahead", "check", "mark", "stop", "delete", "passed"}],
              watchdog : {"idle", "check", "restart"}]

Other(s) == CHOOSE o \in Slot : o # s
OnTrial == image[running] = "pending"

\* The statics at the start of a boot.
OtaFresh == [startup_checks |-> 0, s_watchdog_timer |-> FALSE, timer |-> "none",
             starter |-> "todo", gate |-> [g \in Gate |-> "ahead"], watchdog |-> "idle"]

-----------------------------------------------------------------------------
(* The boot loader: what it makes of the image states it finds, and of the *)
(* slot it finds selected.                                                 *)

BootLoader(found, chosen) ==
  LET rollback == found[chosen] = "pending"
      slot     == IF rollback THEN Other(chosen) ELSE chosen
  IN /\ image' = CASE rollback              -> [found EXCEPT ![chosen] = "aborted"]
                   [] found[chosen] = "new" -> [found EXCEPT ![chosen] = "pending"]
                   [] OTHER                 -> found
     /\ selected' = slot
     /\ running' = slot

OtaBoot == BootLoader(image, selected) /\ ota' = OtaFresh

\* The application writes an update to the other slot, selects it and restarts;
\* esp_ota_begin refuses while the running image is on trial.
OtaUpdate ==
  /\ ~OnTrial
  /\ BootLoader([image EXCEPT ![Other(running)] = "new"], Other(running))
  /\ ota' = OtaFresh

-----------------------------------------------------------------------------
(* start_ota_rollback_watchdog(checks, timeout_ms), checks being the gates *)

Starter(at, next) == ota.starter = at /\ ota' = [ota EXCEPT !.starter = next]

StartCount ==
  /\ ota.starter = "todo"
  /\ ota' = [ota EXCEPT !.starter = "state", !.startup_checks = Cardinality(Gate)]
  /\ UNCHANGED otaFlash

\* Faulty variant: only an image that is already valid is watched.
StartCheckInverted ==
  /\ Starter("state", IF OnTrial THEN "done" ELSE "create")
  /\ UNCHANGED otaFlash

StartCheck ==
  /\ Starter("state", IF OnTrial THEN "create" ELSE "done")
  /\ UNCHANGED otaFlash

StartCreate ==
  /\ ota.starter = "create"
  /\ ota' = [ota EXCEPT !.starter = "arm", !.s_watchdog_timer = TRUE, !.timer = "created"]
  /\ UNCHANGED otaFlash

\* The last gate may have deleted the timer: starting no timer is an error, and
\* ESP_ERROR_CHECK aborts.
StartArm ==
  /\ \/ /\ ota.s_watchdog_timer /\ ota.starter = "arm"
        /\ ota' = [ota EXCEPT !.starter = "done", !.timer = "armed"]
     \/ ~ota.s_watchdog_timer /\ Starter("arm", "abort")
  /\ UNCHANGED otaFlash

-----------------------------------------------------------------------------
(* startup_gate_passed and mark_ota_valid *)

\* Faulty variant: the count is one too low.
PassGateEarly(g) ==
  /\ ota.starter # "todo"
  /\ ota.gate[g] = "ahead"
  /\ ota' = [ota EXCEPT !.startup_checks = @ - 1,
                        !.gate[g] = IF ota.startup_checks <= 2 THEN "check" ELSE "passed"]
  /\ UNCHANGED otaFlash

\* Each gate is passed once, after the count has been set: the callers' contract.
PassGate(g) ==
  /\ ota.starter # "todo"
  /\ ota.gate[g] = "ahead"
  /\ ota' = [ota EXCEPT !.startup_checks = @ - 1,
                        !.gate[g] = IF ota.startup_checks = 1 THEN "check" ELSE "passed"]
  /\ UNCHANGED otaFlash

MarkCheck(g) ==
  /\ ota.gate[g] = "check"
  /\ ota' = [ota EXCEPT !.gate[g] = IF OnTrial THEN "mark" ELSE "passed"]
  /\ UNCHANGED otaFlash

MarkValid(g) ==
  /\ ota.gate[g] = "mark"
  /\ ota' = [ota EXCEPT !.gate[g] = "stop"]
  /\ image' = [image EXCEPT ![running] = "valid"]
  /\ UNCHANGED <<selected, running>>

StopTimer(g) ==
  /\ ota.gate[g] = "stop"
  /\ ota' = IF ota.s_watchdog_timer
            THEN [ota EXCEPT !.gate[g] = "delete", !.timer = "created"]
            ELSE [ota EXCEPT !.gate[g] = "passed"]
  /\ UNCHANGED otaFlash

\* esp_timer_delete refuses a timer that has been armed in between.
DeleteTimer(g) ==
  /\ ota.gate[g] = "delete"
  /\ ota' = [ota EXCEPT !.gate[g] = "passed", !.s_watchdog_timer = FALSE,
                        !.timer = IF @ = "armed" THEN @ ELSE "none"]
  /\ UNCHANGED otaFlash

-----------------------------------------------------------------------------
(* The watchdog *)

TimerFires ==
  /\ ota.timer = "armed"
  /\ ota.watchdog = "idle"
  /\ ota' = [ota EXCEPT !.timer = "created", !.watchdog = "check"]
  /\ UNCHANGED otaFlash

\* After the check comes esp_restart, a reset of the whole device.
WatchdogCheck ==
  /\ ota.watchdog = "check"
  /\ ota' = [ota EXCEPT !.watchdog = IF OnTrial THEN "restart" ELSE "idle"]
  /\ UNCHANGED otaFlash

OtaStart == StartCount \/ StartCheck \/ StartCreate \/ StartArm
OtaMark(g) == MarkCheck(g) \/ MarkValid(g) \/ StopTimer(g) \/ DeleteTimer(g)
OtaTimer == TimerFires \/ WatchdogCheck
OtaStep == OtaStart \/ OtaTimer \/ \E g \in Gate : PassGate(g) \/ OtaMark(g)

-----------------------------------------------------------------------------
(* Properties *)

\* An image on trial is marked valid only when, in this very boot, every gate has
\* been passed, whichever task passed the last one.
ValidatedMeansPassed ==
  [][\A s \in Slot : image[s] = "pending" /\ image'[s] = "valid"
                      => s = running /\ \A g \in Gate : ota.gate[g] # "ahead"]_otaVars

\* A trial comes to an end: by its gates, by the watchdog, or by another reset.
TrialEnds == OnTrial ~> ~OnTrial
=============================================================================
