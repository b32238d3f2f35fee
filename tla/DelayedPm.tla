----------------------------- MODULE DelayedPm -----------------------------
(***************************************************************************)
(* src/espbase/boot/delayed_pm_enable.cpp: light sleep is enabled some     *)
(* seconds after the boot, unless the boot button is pressed.              *)
(*                                                                         *)
(* Main task (delayed_pm_enable), the button's interrupt, the esp_timer    *)
(* task (delayed_pm_callback) and FreeRTOS's timer daemon, which runs what *)
(* the other two pend, work on one state word without a lock.              *)
(***************************************************************************)
EXTENDS Naturals, Sequences, SequencesExt

CONSTANT PmConfig   \* the configurations applications use

PmConfigs == [disable_sleep_on_gpio0_press : BOOLEAN,
              allow_override_after_boot_window : BOOLEAN]
ASSUME PmAssumption == PmConfig \subseteq PmConfigs /\ PmConfig # {}

VARIABLES
  config,  \* the application's
  pm       \* what this boot has done:
           \*   s_state
           \*   enabler        where delayed_pm_enable is
           \*   interrupt      the button's interrupt: off, on, or in boot_button_isr
           \*   was_active     that function's local
           \*   window         where the timer and its callback are
           \*   pended         the calls pended to the daemon
           \*   light_sleep    esp_pm_configure has enabled light sleep
           \*   override_lock  the lock that prevents it is held
           \*   pressed_in     history: the state in which the button was pressed
           \*   raced          history: boot_button_isr overlapped the callback's update

pmVars == <<config, pm>>

BootWindow == {"BOOT_WINDOW_NO_OVERRIDE", "BOOT_WINDOW_ALLOW_OVERRIDE"}
PmState == BootWindow \cup {"PM_ACTIVE_ALLOW_OVERRIDE", "PM_ACTIVE_NO_OVERRIDE", "PM_OVERRIDDEN"}
NotPressed == "not pressed"

PmTypeOK ==
  /\ config \in PmConfig
  /\ pm.pended \in Seq({"apply_pm_override", "delete_timer_deferred"})
  /\ pm \in [s_state : PmState, was_active : PmState, pressed_in : PmState \cup {NotPressed},
             enabler : {"todo", "timer", "done"}, interrupt : {"off", "on", "inside"},
             window : {"none", "armed", "check", "configure", "store", "pend", "over", "deleted"},
             light_sleep : BOOLEAN, override_lock : BOOLEAN, raced : BOOLEAN, pended : {pm.pended}]

\* The statics at the start of a boot.
PmFresh == [s_state |-> "BOOT_WINDOW_NO_OVERRIDE", was_active |-> "BOOT_WINDOW_NO_OVERRIDE",
            pressed_in |-> NotPressed, enabler |-> "todo", interrupt |-> "off",
            window |-> "none", light_sleep |-> FALSE, override_lock |-> FALSE, raced |-> FALSE,
            pended |-> <<>>]

PmInit == config \in PmConfig /\ pm = PmFresh
PmBoot == pm' = PmFresh /\ UNCHANGED config

-----------------------------------------------------------------------------
(* delayed_pm_enable *)

\* The state is stored before the interrupt is installed.
EnableButton ==
  /\ pm.enabler = "todo"
  /\ pm' = IF config.disable_sleep_on_gpio0_press
           THEN [pm EXCEPT !.enabler = "timer", !.interrupt = "on",
                           !.s_state = IF config.allow_override_after_boot_window
                                       THEN "BOOT_WINDOW_ALLOW_OVERRIDE" ELSE @]
           ELSE [pm EXCEPT !.enabler = "timer"]
  /\ UNCHANGED config

StartWindow ==
  /\ pm.enabler = "timer"
  /\ pm' = [pm EXCEPT !.enabler = "done", !.window = "armed"]
  /\ UNCHANGED config

-----------------------------------------------------------------------------
(* boot_button_isr.  It runs on one core while the callback may run on the *)
(* other.                                                                  *)

Updating == pm.window \in {"configure", "store"}

PressButton ==
  /\ pm.interrupt = "on"
  /\ pm' = [pm EXCEPT !.interrupt = "inside", !.was_active = pm.s_state,
                      !.pressed_in = pm.s_state, !.raced = Updating]
  /\ UNCHANGED config

\* Faulty variant: the states after the boot window are mistaken for each other.
OverridesOther == pm.was_active = "PM_ACTIVE_NO_OVERRIDE"

Overrides == pm.was_active = "PM_ACTIVE_ALLOW_OVERRIDE"

StoreOverridden ==
  /\ pm.interrupt = "inside"
  /\ pm' = [pm EXCEPT !.interrupt = "off", !.s_state = "PM_OVERRIDDEN",
                      !.pended = IF Overrides THEN Append(@, "apply_pm_override") ELSE @]
  /\ UNCHANGED config

-----------------------------------------------------------------------------
(* delayed_pm_callback *)

WindowCloses ==
  /\ pm.window = "armed"
  /\ pm' = [pm EXCEPT !.window = "check"]
  /\ UNCHANGED config

CheckState ==
  /\ pm.window = "check"
  /\ pm' = [pm EXCEPT !.window = IF pm.s_state \in BootWindow THEN "configure" ELSE "pend",
                      !.raced = @ \/ pm.interrupt = "inside"]
  /\ UNCHANGED config

Configure ==
  /\ pm.window = "configure"
  /\ pm' = [pm EXCEPT !.window = "store", !.light_sleep = TRUE]
  /\ UNCHANGED config

\* The state is read again, and what is read there may be the press.
StoreActive ==
  /\ pm.window = "store"
  /\ pm' = [pm EXCEPT !.window = "pend",
                      !.s_state = IF @ = "BOOT_WINDOW_NO_OVERRIDE"
                                  THEN "PM_ACTIVE_NO_OVERRIDE" ELSE "PM_ACTIVE_ALLOW_OVERRIDE"]
  /\ UNCHANGED config

PendDelete ==
  /\ pm.window = "pend"
  /\ pm' = [pm EXCEPT !.window = "over", !.pended = Append(@, "delete_timer_deferred")]
  /\ UNCHANGED config

\* The timer daemon runs apply_pm_override or delete_timer_deferred.
RunPended ==
  /\ pm.pended # <<>>
  /\ pm' = IF Head(pm.pended) = "apply_pm_override"
           THEN [pm EXCEPT !.pended = Tail(@), !.override_lock = TRUE]
           ELSE [pm EXCEPT !.pended = Tail(@), !.window = "deleted"]
  /\ UNCHANGED config

PmStep == \/ EnableButton \/ StartWindow
          \/ PressButton \/ StoreOverridden
          \/ WindowCloses \/ CheckState \/ Configure \/ StoreActive \/ PendDelete
          \/ RunPended

-----------------------------------------------------------------------------
(* Properties *)

\* A press that counts, in the boot window or where the override is allowed after
\* it, keeps the device from light sleep once everything it set off has run.  The
\* exception is a press that overlaps delayed_pm_callback between its check of the
\* state and its store, which overwrites it.
PressHonoured ==
  /\ pm.pressed_in \in BootWindow \cup {"PM_ACTIVE_ALLOW_OVERRIDE"}
  /\ pm.interrupt = "off"
  /\ ~pm.raced
  /\ ~Contains(pm.pended, "apply_pm_override")
  => ~pm.light_sleep \/ pm.override_lock
=============================================================================
