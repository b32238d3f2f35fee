-------------------------------- MODULE Boot --------------------------------
(***************************************************************************)
(* The life of a device over many boots: the boot utilities together with  *)
(* the resets they cause and survive.  What the application does with them *)
(* is external: it uses some of the utilities, the crash-loop check first, *)
(* it crashes, updates itself, goes to deep sleep, and loses power.        *)
(***************************************************************************)
EXTENDS OtaWatchdog, CrashLoop, DelayedPm, NvsStore, ShutdownRegistry

CONSTANTS
  Application,   \* the sets of utilities applications use
  Factory,       \* the slot the device is delivered with
  MaxPanics,     \* bounds: how often the application crashes,
  MaxUpdates,    \* updates itself,
  MaxPowerCycles \* and loses power

Utility == {"ota", "crash", "pm", "nvs", "registry"}

ASSUME BootAssumption ==
  /\ Application \subseteq SUBSET Utility
  /\ Factory \in Slot
  /\ {MaxPanics, MaxUpdates, MaxPowerCycles} \subseteq Nat

VARIABLES
  uses,     \* the utilities this application uses
  budget,   \* what is left of the bounds
  streak    \* history: the crashes since the last boot that was not one's result,
            \* those of them by a validated image, and the erases they led to

vars == <<otaVars, crashVars, pmVars, nvsVars, registry, uses, budget, streak>>

NoStreak == [crashes |-> 0, validated |-> 0, erases |-> 0]

\* The schema version an image asks for: an update brings the next one.
Target == IF running = Factory THEN 1 ELSE MaxVersion

Init == /\ uses \in Application
        /\ image = [s \in Slot |-> IF s = Factory THEN "valid" ELSE "invalid"]
        /\ selected = Factory
        /\ running = Factory
        /\ ota = OtaFresh
        /\ \E n \in Noise : rtc = [magic_word |-> FALSE, consecutive_crashes |-> n]
        /\ reason = "poweron"
        /\ check = "todo"
        /\ PmInit
        /\ "pm" \in uses \/ config = CHOOSE c \in PmConfig : TRUE
        /\ NvsInit
        /\ "nvs" \in uses \/ damaged = FALSE
        /\ registry = RegFresh
        /\ budget = [panics |-> MaxPanics, updates |-> MaxUpdates, cycles |-> MaxPowerCycles]
        /\ streak = NoStreak

TypeOK == /\ OtaTypeOK /\ CrashTypeOK /\ PmTypeOK /\ NvsTypeOK /\ RegTypeOK
          /\ uses \in Application
          /\ budget \in [panics : 0..MaxPanics, updates : 0..MaxUpdates,
                         cycles : 0..MaxPowerCycles]
          /\ streak \in [crashes : Nat, validated : Nat, erases : Nat]

-----------------------------------------------------------------------------
(* Resets *)

Spend(what) == budget[what] > 0 /\ budget' = [budget EXCEPT ![what] = @ - 1]
Volatile == PmBoot /\ NvsBoot /\ registry' = RegFresh /\ UNCHANGED uses

\* Code that runs crashes: the application, or start_ota_rollback_watchdog's abort.
\* A crash before check_crash_loop has counted the last one would hide that from it.
Panic ==
  /\ ~Halted
  /\ "crash" \in uses => check # "todo"
  /\ \/ Spend("panics")
     \/ ota.starter = "abort" /\ UNCHANGED budget
  /\ streak' = [streak EXCEPT !.crashes = @ + 1,
                              !.validated = IF image[running] = "valid" THEN @ + 1 ELSE @]
  /\ CrashBoot("panic") /\ OtaBoot /\ Volatile

PowerCycle ==
  /\ Spend("cycles")
  /\ streak' = NoStreak
  /\ PowerLost /\ OtaBoot /\ Volatile

\* The watchdog's esp_restart, the threshold callback's, and the wake-up from deep
\* sleep once shutdown_all has returned.
Restart ==
  /\ \/ ota.watchdog = "restart" /\ CrashBoot("software")
     \/ check = "callback" /\ "restarts" \in Callback /\ CrashBoot("software")
     \/ registry.shutdown = "done" /\ CrashBoot("deepsleep")
  /\ streak' = NoStreak
  /\ OtaBoot /\ Volatile /\ UNCHANGED budget

-----------------------------------------------------------------------------
(* The utilities in one boot *)

Running == ~Halted /\ ("crash" \in uses => check = "done")

\* The crash-loop check; its first threshold erases the store.
CrashCheck ==
  /\ "crash" \in uses
  /\ \/ (CountReset \/ SecondThreshold \/ CallbackReturns) /\ UNCHANGED <<nvsVars, streak>>
     \/ /\ FirstThreshold
        /\ IF ShouldErase THEN EraseFlash /\ streak' = [streak EXCEPT !.erases = @ + 1]
                          ELSE UNCHANGED <<flash, damaged, streak>>
        /\ UNCHANGED store
  /\ UNCHANGED <<otaVars, pmVars, registry, uses, budget>>

Update ==
  /\ Running /\ "ota" \in uses
  /\ Spend("updates")
  /\ OtaUpdate
  /\ streak' = NoStreak
  /\ CrashBoot("software") /\ Volatile

Ota == /\ Running /\ "ota" \in uses /\ OtaStep
       /\ UNCHANGED <<crashVars, pmVars, nvsVars, registry, uses, budget, streak>>

Pm == /\ Running /\ "pm" \in uses /\ PmStep
      /\ UNCHANGED <<otaVars, crashVars, nvsVars, registry, uses, budget, streak>>

Nvs == /\ Running /\ "nvs" \in uses /\ NvsStep(Target)
       /\ UNCHANGED <<otaVars, crashVars, pmVars, registry, uses, budget, streak>>

Registry == /\ Running /\ "registry" \in uses /\ RegStep
            /\ UNCHANGED <<otaVars, crashVars, pmVars, nvsVars, uses, budget, streak>>

Next == Panic \/ PowerCycle \/ Restart \/ Update \/ CrashCheck \/ Ota \/ Pm \/ Nvs \/ Registry

Spec == Init /\ [][Next]_vars

\* Code that runs goes on and an armed timer goes off; gates need not be passed.
Steady(A) == Running /\ "ota" \in uses /\ A
             /\ UNCHANGED <<crashVars, pmVars, nvsVars, registry, uses, budget, streak>>
FairSpec == Spec /\ WF_vars(Restart) /\ WF_vars(CrashCheck)
                 /\ WF_vars(Panic /\ ota.starter = "abort")
                 /\ WF_vars(Steady(OtaStart)) /\ WF_vars(Steady(OtaTimer))

-----------------------------------------------------------------------------
(* Properties *)

\* check_crash_loop erases the store at most once in a row of crashes, and never
\* because of an image on trial alone: its first crash rolls it back.
EraseJustified ==
  /\ streak.erases <= 1
  /\ streak.erases = 1 => streak.validated >= 2

\* Behind the check no code runs after five crashes in a row, also when the
\* callback of the fifth crashes; and the counter starts anew with any other boot.
NoRunAfterFive ==
  "crash" \in uses /\ check = "done" => streak.crashes < 5 /\ rtc.consecutive_crashes = streak.crashes

\* The recorded schema version never runs ahead of the data, over resets and
\* erases, and a boot whose migration has succeeded serves its image.
MigrationSound == SchemaSound(Target)
=============================================================================
