----------------------------- MODULE Boot_proofs -----------------------------
(***************************************************************************)
(* Proofs about Boot, for every application and number of resets: all the  *)
(* safety properties of the boot utilities.                                *)
(*                                                                         *)
(* Each utility has an inductive invariant of its own, which its steps and *)
(* every reset keep:                                                       *)
(*   OtaInv     the count is the number of gates ahead, and the running    *)
(*              image is valid or on trial with a valid one behind it;     *)
(*   StreakInv  the counter in RTC memory follows the crashes in a row, of *)
(*              which an image on trial has caused at most the first;      *)
(*   RegInv     what shutdown_all has called so far;                       *)
(*   PmInv      who has written what when the button's press is seen;      *)
(*   NvsInv     the writes under way (NvsStore_proofs).                    *)
(* They meet in Inv: the crash-loop check relies on the OTA watchdog to    *)
(* roll an image on trial back, and may erase the flash because it runs    *)
(* before the store is opened.                                             *)
(***************************************************************************)
EXTENDS Boot, NvsStore_proofs, FiniteSetTheorems

-----------------------------------------------------------------------------
(* The OTA watchdog *)

\* The gates that have not been passed in this boot.
Ahead == {g \in Gate : ota.gate[g] = "ahead"}

OtaInv ==
  /\ OtaTypeOK
  /\ selected = running
  /\ image[running] \in {"valid", "pending"}
  /\ OnTrial => image[Other(running)] = "valid"
  /\ ota.starter = "todo" => Ahead = Gate
  /\ ota.starter # "todo" => ota.startup_checks = Cardinality(Ahead)
  /\ \A g \in Gate : ota.gate[g] \notin {"ahead", "passed"} => Ahead = {}

\* There are two slots: each has another one.
LEMMA OtherSlot == \A s \in Slot : Other(s) \in Slot /\ Other(s) # s
<1> SUFFICES ASSUME NEW s \in Slot
             PROVE  Other(s) \in Slot /\ Other(s) # s
  OBVIOUS
<1>1. Cardinality(Slot \ {s}) = 1 /\ IsFiniteSet(Slot \ {s})
  BY OtaAssumption, FS_RemoveElement
<1>2. Slot \ {s} # {}
  BY <1>1, FS_EmptySet
<1> QED
  BY <1>2 DEF Other

\* A set of gates has a size, and the set of all of them the greatest.
LEMMA GateCount ==
  \A S \in SUBSET Gate :
    /\ IsFiniteSet(S)
    /\ Cardinality(Gate) \in Nat
    /\ Cardinality(S) \in 0..Cardinality(Gate)
    /\ Cardinality(S) = 0 <=> S = {}
  BY OtaAssumption, FS_Subset, FS_CardinalityType, FS_EmptySet

\* Whatever the boot loader finds, the image it runs is valid: it has rolled back an
\* image that was on trial.
LEMMA OtaBootInv == OtaInv /\ OtaBoot => OtaInv' /\ ~OnTrial'
<1> SUFFICES ASSUME OtaInv, OtaBoot
             PROVE  OtaInv' /\ ~OnTrial'
  OBVIOUS
<1>1. image' \in [Slot -> ImageState] /\ selected' \in Slot /\ running' = selected'
  BY OtherSlot DEF OtaInv, OtaTypeOK, OtaBoot, BootLoader, ImageState
<1>2. image'[running'] = "valid"
  BY OtherSlot DEF OtaInv, OtaTypeOK, OtaBoot, BootLoader, OnTrial
<1>3. ota' = OtaFresh
  BY DEF OtaBoot
<1>4. OtaTypeOK'
  BY <1>1, <1>3, GateCount DEF OtaTypeOK, OtaFresh
<1> QED
  BY <1>1, <1>2, <1>3, <1>4 DEF OtaInv, OnTrial, OtaFresh, Ahead

\* An update puts the other slot on trial, with the valid image to roll back to.
LEMMA OtaUpdateInv == OtaInv /\ OtaUpdate => OtaInv'
<1> SUFFICES ASSUME OtaInv, OtaUpdate
             PROVE  OtaInv'
  OBVIOUS
<1>1. running \in Slot /\ image[running] = "valid" /\ image \in [Slot -> ImageState]
  BY DEF OtaInv, OtaTypeOK, OtaUpdate, OnTrial
<1> DEFINE found == [image EXCEPT ![Other(running)] = "new"]
<1>2. /\ image' = [found EXCEPT ![Other(running)] = "pending"]
      /\ selected' = Other(running) /\ running' = Other(running)
  BY <1>1, OtherSlot DEF OtaUpdate, BootLoader
<1>3. Other(running) \in Slot /\ Other(running) # running /\ Other(Other(running)) = running
  <2>1. \A s \in Slot : s = running \/ s = Other(running)
    <3> SUFFICES ASSUME NEW s \in Slot, s # running, s # Other(running)
                 PROVE  FALSE
      OBVIOUS
    <3>1. Cardinality(Slot \ {running}) = 1 /\ IsFiniteSet(Slot \ {running})
      BY <1>1, OtaAssumption, FS_RemoveElement
    <3>2. Cardinality((Slot \ {running}) \ {s}) = 0 /\ IsFiniteSet((Slot \ {running}) \ {s})
      BY <3>1, FS_RemoveElement
    <3>3. (Slot \ {running}) \ {s} = {}
      BY <3>2, FS_EmptySet
    <3> QED
      BY <3>3, <1>1, OtherSlot
  <2> QED
    BY <1>1, <2>1, OtherSlot
<1>4. image' \in [Slot -> ImageState]
  BY <1>1, <1>2, <1>3 DEF ImageState
<1>5. image'[running'] = "pending" /\ image'[Other(running')] = "valid"
  BY <1>1, <1>2, <1>3
<1>6. ota' = OtaFresh
  BY DEF OtaUpdate
<1>7. OtaTypeOK'
  BY <1>2, <1>3, <1>4, <1>6, GateCount DEF OtaTypeOK, OtaFresh
<1> QED
  BY <1>2, <1>3, <1>5, <1>6, <1>7 DEF OtaInv, OnTrial, OtaFresh, Ahead

\* A step of the watchdog, the start or a gate.  The one that needs the count is
\* PassGate: a gate goes on to mark_ota_valid when no other is ahead.
LEMMA OtaStepInv == OtaInv /\ OtaStep => OtaInv'
<1> SUFFICES ASSUME OtaInv, OtaStep
             PROVE  OtaInv'
  OBVIOUS
<1> DEFINE N == Cardinality(Gate)
<1>a. N \in Nat /\ Cardinality(Ahead) \in 0..N /\ Ahead \subseteq Gate
  BY GateCount DEF Ahead
<1>b. /\ ota.startup_checks \in -N..N
      /\ ota = [startup_checks |-> ota.startup_checks, s_watchdog_timer |-> ota.s_watchdog_timer,
                timer |-> ota.timer, starter |-> ota.starter, gate |-> ota.gate,
                watchdog |-> ota.watchdog]
  BY DEF OtaInv, OtaTypeOK
<1> HIDE DEF N
<1> USE <1>a, <1>b DEF OtaInv, OnTrial
<1>0. OtaTypeOK' \/ \E g \in Gate : PassGate(g)
  <2> USE DEF OtaTypeOK, otaFlash, N
  <2>1. CASE StartCount
    <3>1. ota' = [ota EXCEPT !.starter = "state", !.startup_checks = N]
      BY <2>1 DEF StartCount
    <3>2. N \in -N..N
      OBVIOUS
    <3> QED
      BY <2>1, <3>1, <3>2 DEF StartCount
  <2>2. CASE StartCheck
    BY <2>2 DEF StartCheck, Starter
  <2>3. CASE StartCreate
    BY <2>3 DEF StartCreate
  <2>4. CASE StartArm
    BY <2>4 DEF StartArm, Starter
  <2>5. CASE TimerFires
    BY <2>5 DEF TimerFires
  <2>6. CASE WatchdogCheck
    BY <2>6 DEF WatchdogCheck
  <2>7. ASSUME NEW g \in Gate, MarkCheck(g)
        PROVE  OtaTypeOK'
    BY <2>7 DEF MarkCheck
  <2>8. ASSUME NEW g \in Gate, MarkValid(g)
        PROVE  OtaTypeOK'
    BY <2>8 DEF MarkValid, ImageState
  <2>9. ASSUME NEW g \in Gate, StopTimer(g)
        PROVE  OtaTypeOK'
    BY <2>9 DEF StopTimer
  <2>10. ASSUME NEW g \in Gate, DeleteTimer(g)
         PROVE  OtaTypeOK'
    BY <2>10 DEF DeleteTimer
  <2> QED
    BY <2>1, <2>2, <2>3, <2>4, <2>5, <2>6, <2>7, <2>8, <2>9, <2>10
       DEF OtaStep, OtaStart, OtaMark, OtaTimer
<1>7. ASSUME NEW g \in Gate, PassGate(g)
      PROVE  OtaInv'
  <2>1. g \in Ahead /\ ota.startup_checks = Cardinality(Ahead)
    BY <1>7 DEF PassGate, Ahead
  <2>2. Ahead' = Ahead \ {g}
    BY <1>7 DEF PassGate, Ahead, OtaTypeOK
  <2>3. Cardinality(Ahead \ {g}) = Cardinality(Ahead) - 1 /\ Cardinality(Ahead) \in 1..N
    BY <2>1, GateCount, FS_RemoveElement
  <2>4. ota'.startup_checks = Cardinality(Ahead) - 1
    BY <1>7, <2>1 DEF PassGate
  <2>5. OtaTypeOK'
    <3>1. Cardinality(Ahead) - 1 \in -N..N
      BY <2>3
    <3> DEFINE n == Cardinality(Ahead) - 1
               to == IF ota.startup_checks = 1 THEN "check" ELSE "passed"
    <3>2. ota' = [ota EXCEPT !.startup_checks = n, !.gate[g] = to]
      BY <1>7, <2>1 DEF PassGate
    <3>3. n \in -N..N
      BY <3>1
    <3>4. to \in {"check", "passed"}
      OBVIOUS
    <3> HIDE DEF n, to
    <3> DEFINE gate == [ota.gate EXCEPT ![g] = to]
    <3>5. gate \in [Gate -> {"ahead", "check", "mark", "stop", "delete", "passed"}]
      BY <3>4 DEF OtaTypeOK
    <3>6. ota' = [ota EXCEPT !.startup_checks = n, !.gate = gate]
      BY <3>2
    <3> HIDE DEF gate
    <3> QED
      BY <1>7, <3>3, <3>5, <3>6 DEF PassGate, OtaTypeOK, otaFlash, N
  <2>6. \A h \in Gate : ota'.gate[h] \notin {"ahead", "passed"} => Ahead' = {}
    <3> SUFFICES ASSUME NEW h \in Gate, ota'.gate[h] \notin {"ahead", "passed"}
                 PROVE  Ahead' = {}
      OBVIOUS
    <3>1. CASE h = g
      <4>1. ota.startup_checks = 1
        BY <1>7, <3>1 DEF PassGate, OtaTypeOK
      <4> QED
        BY <4>1, <2>1, <2>2, <2>3, GateCount
    <3>2. CASE h # g
      BY <1>7, <2>1, <3>2 DEF PassGate, OtaTypeOK
    <3> QED
      BY <3>1, <3>2
  <2>7. ota'.starter # "todo" /\ UNCHANGED otaFlash
    BY <1>7 DEF PassGate
  <2> QED
    BY <2>2, <2>3, <2>4, <2>5, <2>6, <2>7 DEF otaFlash
<1>8. CASE OtaStart \/ OtaTimer
  <2>1. UNCHANGED otaFlash /\ Ahead' = Ahead /\ UNCHANGED ota.gate
    BY <1>8 DEF OtaStart, OtaTimer, StartCount, StartCheck, StartCreate, StartArm, Starter,
                TimerFires, WatchdogCheck, Ahead
  <2>2. ota'.starter # "todo" => ota'.startup_checks = Cardinality(Ahead)
    BY <1>8 DEF OtaStart, OtaTimer, StartCount, StartCheck, StartCreate, StartArm, Starter,
                TimerFires, WatchdogCheck, N
  <2>3. ota'.starter = "todo" => ota.starter = "todo"
    BY <1>8 DEF OtaStart, OtaTimer, StartCount, StartCheck, StartCreate, StartArm, Starter,
                TimerFires, WatchdogCheck
  <2>4. OtaTypeOK'
    <3> SUFFICES ASSUME NEW g \in Gate, PassGate(g)
                 PROVE  FALSE
      BY <1>0
    <3> QED
      BY <2>1 DEF PassGate, OtaTypeOK
  <2> QED
    BY <2>1, <2>2, <2>3, <2>4 DEF otaFlash
<1>9. ASSUME NEW g \in Gate, OtaMark(g)
      PROVE  OtaInv'
  <2>1. Ahead = {}
    BY <1>9 DEF OtaMark, MarkCheck, MarkValid, StopTimer, DeleteTimer
  <2>2. Ahead' = Ahead
    <3>1. ota.gate[g] # "ahead"
      BY <1>9 DEF OtaMark, MarkCheck, MarkValid, StopTimer, DeleteTimer
    <3> DEFINE Others == ota'.gate[g] # "ahead" /\ \A h \in Gate \ {g} : ota'.gate[h] = ota.gate[h]
    <3>a. MarkCheck(g) => Others
      BY DEF MarkCheck, OtaTypeOK
    <3>b. MarkValid(g) => Others
      BY DEF MarkValid, OtaTypeOK
    <3>c. StopTimer(g) => Others
      BY DEF StopTimer, OtaTypeOK
    <3>d. DeleteTimer(g) => Others
      BY DEF DeleteTimer, OtaTypeOK
    <3>2. Others
      BY <1>9, <3>a, <3>b, <3>c, <3>d DEF OtaMark
    <3> QED
      BY <3>1, <3>2 DEF Ahead
  <2>3. UNCHANGED <<ota.startup_checks, ota.starter, selected, running>>
    BY <1>9 DEF OtaMark, MarkCheck, MarkValid, StopTimer, DeleteTimer, otaFlash
  <2>4. OtaTypeOK'
    BY <1>0, <1>9, <2>1, <2>2 DEF PassGate, Ahead
  <2>5. image' = image \/ image' = [image EXCEPT ![running] = "valid"]
    BY <1>9 DEF OtaMark, MarkCheck, MarkValid, StopTimer, DeleteTimer, otaFlash
  <2> QED
    BY <2>1, <2>2, <2>3, <2>4, <2>5 DEF OtaTypeOK
<1> QED
  BY <1>7, <1>8, <1>9 DEF OtaStep

\* Of an OTA step only mark_ota_valid changes an image, the running one, from trial
\* to valid, and then no gate is ahead.
LEMMA OtaStepValidates ==
  ASSUME OtaInv, OtaStep
  PROVE  /\ UNCHANGED <<selected, running>>
         /\ UNCHANGED image \/ (image' = [image EXCEPT ![running] = "valid"] /\ Ahead = {})
<1>1. CASE OtaStart \/ OtaTimer \/ \E g \in Gate : PassGate(g)
  BY <1>1 DEF OtaStart, OtaTimer, StartCount, StartCheck, StartCreate, StartArm, Starter,
              TimerFires, WatchdogCheck, PassGate, otaFlash
<1>2. ASSUME NEW g \in Gate, OtaMark(g)
      PROVE  /\ UNCHANGED <<selected, running>>
             /\ UNCHANGED image \/ (image' = [image EXCEPT ![running] = "valid"] /\ Ahead = {})
  BY <1>2 DEF OtaMark, MarkCheck, MarkValid, StopTimer, DeleteTimer, otaFlash, OtaInv
<1> QED
  BY <1>1, <1>2 DEF OtaStep

\* The boot loader makes no image valid.
LEMMA BootLoaderValidatesNone ==
  ASSUME OtaInv, OtaBoot \/ OtaUpdate, NEW s \in Slot, image[s] = "pending"
  PROVE  image'[s] # "valid"
  BY OtherSlot DEF OtaInv, OtaTypeOK, OtaBoot, OtaUpdate, BootLoader, OnTrial

-----------------------------------------------------------------------------
(* The crash-loop check *)

\* The crashes in a row, against what the counter says of them at each point of
\* check_crash_loop; all but one of them were a validated image's.
Counted ==
  /\ check = "todo" /\ Crashed => rtc.magic_word /\ rtc.consecutive_crashes + 1 = streak.crashes
  /\ check = "todo" /\ ~Crashed => streak.crashes = 0
  /\ check # "todo" => rtc.magic_word /\ rtc.consecutive_crashes = streak.crashes
  /\ check = "done" => streak.crashes < 5

StreakInv ==
  /\ CrashTypeOK
  /\ streak \in [crashes : Nat, validated : Nat, erases : Nat]
  /\ streak.validated + 1 >= streak.crashes
  /\ OnTrial => streak.crashes = 0
  /\ streak.erases <= 1
  /\ streak.erases = 1 => streak.crashes >= 3
  /\ streak.crashes = 3 /\ check \in {"todo", "counted"} => streak.erases = 0
  /\ IF "crash" \in uses THEN Counted ELSE check = "todo" /\ streak.erases = 0

\* A boot that is not a crash's begins a new row.
LEMMA NoStreakInv ==
  ASSUME StreakInv, streak' = NoStreak, UNCHANGED uses,
         PowerLost \/ \E r \in Reason \ {"panic"} : CrashBoot(r)
  PROVE  StreakInv'
<1>1. CrashTypeOK' /\ ~Crashed' /\ check' = "todo"
  <2>1. CASE PowerLost
    BY <2>1, CrashAssumption DEF PowerLost, NewReason, CrashTypeOK, Reason, Crashed
  <2>2. ASSUME NEW r \in Reason \ {"panic"}, CrashBoot(r)
        PROVE  CrashTypeOK' /\ ~Crashed' /\ check' = "todo"
    BY <2>2 DEF StreakInv, CrashBoot, NewReason, CrashTypeOK, Crashed
  <2> QED
    BY <2>1, <2>2
<1> QED
  BY <1>1 DEF StreakInv, NoStreak, Counted

\* A crash of an image on trial is the first of its row and rolls it back.
LEMMA PanicStreak == OtaInv /\ StreakInv /\ Panic => StreakInv'
<1> SUFFICES ASSUME OtaInv, StreakInv, Panic
             PROVE  StreakInv'
  OBVIOUS
<1> DEFINE v == IF image[running] = "valid" THEN streak.validated + 1 ELSE streak.validated
<1>1. /\ streak' = [streak EXCEPT !.crashes = streak.crashes + 1, !.validated = v]
      /\ "crash" \in uses => check # "todo"
      /\ check' = "todo" /\ Crashed' /\ UNCHANGED <<rtc, uses>>
      /\ CrashTypeOK'
  BY DEF Panic, CrashBoot, NewReason, Volatile, Crashed, StreakInv, CrashTypeOK, Reason
<1>2. v \in Nat /\ v + 1 >= streak.crashes + 1
  BY DEF StreakInv, OtaInv, OnTrial
<1>3. ~OnTrial'
  BY OtaBootInv DEF Panic
<1> HIDE DEF v
<1>a. streak \in [crashes : Nat, validated : Nat, erases : Nat]
  BY DEF StreakInv
<1>b. streak' = [crashes |-> streak.crashes + 1, validated |-> v, erases |-> streak.erases]
  BY <1>1, <1>a
<1>4. /\ streak' \in [crashes : Nat, validated : Nat, erases : Nat]
      /\ streak'.crashes = streak.crashes + 1 /\ streak'.validated = v
      /\ streak'.erases = streak.erases
  BY <1>2, <1>a, <1>b
<1>5. IF "crash" \in uses THEN Counted' ELSE streak'.erases = 0
  BY <1>1, <1>4 DEF StreakInv, Counted
<1>6. streak.crashes \in Nat /\ streak.erases \in Nat
  BY DEF StreakInv
<1>7. /\ streak'.validated + 1 >= streak'.crashes
      /\ streak'.erases <= 1
      /\ streak'.erases = 1 => streak'.crashes >= 3
      /\ streak'.crashes = 3 => streak'.erases = 0
  BY <1>2, <1>4, <1>6 DEF StreakInv
<1> QED
  BY <1>1, <1>3, <1>4, <1>5, <1>7 DEF StreakInv

\* The check counts this boot's crash once, and erases only at the third.
LEMMA CrashCheckStreak == StreakInv /\ CrashCheck => StreakInv'
<1> SUFFICES ASSUME StreakInv, CrashCheck
             PROVE  StreakInv'
  OBVIOUS
<1>0. "crash" \in uses /\ UNCHANGED uses /\ Counted /\ OnTrial' = OnTrial
  BY DEF CrashCheck, StreakInv, OnTrial, otaVars, otaFlash
<1>1. CASE CountReset
  <2>1. UNCHANGED streak
    BY <1>1 DEF CrashCheck, FirstThreshold, CountReset
  <2>2. rtc'.magic_word = TRUE /\ rtc'.consecutive_crashes = streak.crashes
    BY <1>0, <1>1 DEF CountReset, Recovered, Counted, StreakInv
  <2> QED
    BY <1>0, <1>1, <2>1, <2>2 DEF CountReset, StreakInv, Counted, CrashTypeOK
<1>2. CASE SecondThreshold \/ CallbackReturns
  <2>1. UNCHANGED <<streak, rtc, reason>>
    BY <1>2 DEF CrashCheck, FirstThreshold, SecondThreshold, CallbackReturns
  <2> QED
    BY <1>0, <1>2, <2>1 DEF SecondThreshold, CallbackReturns, ShouldHalt, StreakInv, Counted,
                            CrashTypeOK
<1>3. CASE FirstThreshold
  <2>1. check = "counted" /\ check' = "threshold" /\ UNCHANGED <<rtc, reason>>
    BY <1>3 DEF FirstThreshold
  <2>2. CASE ShouldErase /\ streak' = [streak EXCEPT !.erases = @ + 1]
    BY <1>0, <2>1, <2>2 DEF ShouldErase, StreakInv, Counted, CrashTypeOK
  <2>3. CASE UNCHANGED streak
    BY <1>0, <2>1, <2>3 DEF StreakInv, Counted, CrashTypeOK
  <2> QED
    BY <1>3, <2>1, <2>2, <2>3 DEF CrashCheck, CountReset, SecondThreshold, CallbackReturns
<1> QED
  BY <1>1, <1>2, <1>3 DEF CrashCheck

\* The counter follows the crashes over every step.
LEMMA StreakStep == OtaInv /\ StreakInv /\ [Next]_vars => StreakInv'
<1> SUFFICES ASSUME OtaInv, StreakInv, [Next]_vars
             PROVE  StreakInv'
  OBVIOUS
<1>1. CASE PowerCycle \/ Restart \/ Update
  BY <1>1, NoStreakInv DEF PowerCycle, Restart, Update, Volatile, Reason
<1>2. CASE Ota
  <2>1. UNCHANGED <<crashVars, uses, streak>> /\ (OnTrial' => OnTrial)
    BY <1>2, OtaStepValidates DEF Ota, OnTrial, OtaInv, OtaTypeOK
  <2> QED
    BY <2>1 DEF StreakInv, crashVars, Counted, Crashed, CrashTypeOK
<1>3. CASE Pm \/ Nvs \/ Registry \/ UNCHANGED vars
  <2>1. UNCHANGED <<crashVars, uses, streak, image, running>>
    BY <1>3 DEF Pm, Nvs, Registry, vars, otaVars, otaFlash
  <2> QED
    BY <2>1 DEF StreakInv, crashVars, Counted, Crashed, CrashTypeOK, OnTrial
<1> QED
  BY <1>1, <1>2, <1>3, PanicStreak, CrashCheckStreak DEF Next

-----------------------------------------------------------------------------
(* The shutdown registry *)

\* The fields of the registry.
Registered == [functions_ : Seq(ShutdownFn), asked : Seq(ShutdownFn), called : Seq(ShutdownFn),
               shutdown : {"no", "calling", "done"}, next : 0..MAX_FUNCTIONS]

\* How many of the functions asked for have found a place.
Placed == IF Len(registry.asked) < MAX_FUNCTIONS THEN Len(registry.asked) ELSE MAX_FUNCTIONS

\* shutdown_all has called the functions from the last placed down to the one after next.
RegInv ==
  /\ registry \in Registered
  /\ registry.shutdown # "done" =>
       /\ Len(registry.functions_) = Placed
       /\ \A i \in 1..Placed : registry.functions_[i] = registry.asked[i]
       /\ registry.next = Placed - Len(registry.called) \/ registry.shutdown = "no"
  /\ registry.shutdown = "no" => registry.called = <<>>
  /\ registry.shutdown = "done" => Len(registry.called) = Placed /\ registry.functions_ = <<>>
  /\ Len(registry.called) <= Placed
  /\ \A i \in 1..Len(registry.called) : registry.called[i] = registry.asked[Placed - i + 1]

\* A fresh registry.
LEMMA RegFreshInv ==
  /\ registry = RegFresh => RegInv
  /\ registry' = RegFresh => RegInv'
<1>1. registry = RegFresh => RegInv
  BY RegistryAssumption, EmptySeq DEF RegInv, RegFresh, Registered, Placed
<1>2. registry' = RegFresh => RegInv'
  BY RegistryAssumption, EmptySeq DEF RegInv, RegFresh, Registered, Placed
<1> QED
  BY <1>1, <1>2

\* A function registered finds a place, behind those that have one, or all are taken.
LEMMA RegisterFnInv == \A fn \in ShutdownFn : RegInv /\ RegisterFn(fn) => RegInv'
<1> SUFFICES ASSUME NEW fn \in ShutdownFn, RegInv, RegisterFn(fn)
             PROVE  RegInv'
  OBVIOUS
<1> DEFINE fs == registry.functions_
           as == registry.asked
<1>1. /\ fs \in Seq(ShutdownFn) /\ as \in Seq(ShutdownFn) /\ registry.called = <<>>
      /\ Len(fs) = Placed /\ \A i \in 1..Len(fs) : fs[i] = as[i]
      /\ registry.shutdown = "no"
  BY DEF RegInv, Registered, RegisterFn
<1>2. Len(as) \in Nat /\ Len(fs) \in Nat /\ MAX_FUNCTIONS \in Nat
  BY <1>1, RegistryAssumption
<1>3. /\ Append(fs, fn) \in Seq(ShutdownFn) /\ Append(as, fn) \in Seq(ShutdownFn)
      /\ Len(Append(fs, fn)) = Len(fs) + 1 /\ Len(Append(as, fn)) = Len(as) + 1
      /\ \A i \in 1..Len(fs) : Append(fs, fn)[i] = fs[i]
      /\ \A i \in 1..Len(as) : Append(as, fn)[i] = as[i]
      /\ Append(fs, fn)[Len(fs) + 1] = fn /\ Append(as, fn)[Len(as) + 1] = fn
  BY <1>1, AppendProperties
<1> DEFINE newfs == IF IsRegistered(fn) \/ Len(fs) = MAX_FUNCTIONS THEN fs ELSE Append(fs, fn)
           newas == IF Contains(as, fn) THEN as ELSE Append(as, fn)
<1>4. registry' = [registry EXCEPT !.functions_ = newfs, !.asked = newas]
  BY DEF RegisterFn
<1>5. newfs \in Seq(ShutdownFn) /\ newas \in Seq(ShutdownFn)
  BY <1>1, <1>3
<1>6. /\ Len(newfs) = IF Len(newas) < MAX_FUNCTIONS THEN Len(newas) ELSE MAX_FUNCTIONS
      /\ \A i \in 1..Len(newfs) : newfs[i] = newas[i]
  <2>1. CASE Len(fs) = MAX_FUNCTIONS
    BY <1>1, <1>2, <1>3, <2>1 DEF Placed
  <2>2. CASE Len(fs) # MAX_FUNCTIONS
    <3>1. Len(as) = Len(fs) /\ Len(fs) < MAX_FUNCTIONS
      BY <1>1, <1>2, <2>2 DEF Placed
    <3>2. IsRegistered(fn) <=> Contains(as, fn)
      BY <1>1, <3>1 DEF IsRegistered, Contains
    <3> QED
      BY <1>1, <1>2, <1>3, <2>2, <3>1, <3>2
  <2> QED
    BY <2>1, <2>2
<1> HIDE DEF newfs, newas, fs, as
<1>7. /\ registry' \in Registered /\ registry'.functions_ = newfs /\ registry'.asked = newas
      /\ registry'.shutdown = "no" /\ registry'.called = <<>>
  BY <1>1, <1>4, <1>5 DEF RegInv, Registered
<1>8. Len(registry'.called) = 0 /\ Placed' = Len(newfs) /\ Len(newfs) \in Nat
  BY <1>5, <1>6, <1>7 DEF Placed
<1> QED
  BY <1>6, <1>7, <1>8 DEF RegInv

\* A step of shutdown_all.
LEMMA ShutdownInv == RegInv /\ (ShutdownAll \/ CallNext \/ ShutdownReturns) => RegInv'
<1> SUFFICES ASSUME RegInv, ShutdownAll \/ CallNext \/ ShutdownReturns
             PROVE  RegInv'
  OBVIOUS
<1>1. /\ registry \in Registered /\ Placed \in 0..MAX_FUNCTIONS
      /\ Len(registry.called) \in Nat
  BY RegistryAssumption DEF RegInv, Registered, Placed
<1>2. CASE ShutdownAll
  <2>1. /\ registry' = [registry EXCEPT !.shutdown = "calling", !.next = Placed]
        /\ registry.shutdown = "no" /\ Len(registry.called) = 0
    BY <1>2, EmptySeq DEF ShutdownAll, RegInv
  <2>2. registry' \in Registered
    BY <1>1, <2>1 DEF Registered
  <2> QED
    BY <1>1, <2>1, <2>2 DEF RegInv, Placed
<1>3. CASE CallNext
  <2> DEFINE fn == registry.functions_[registry.next]
             n  == registry.next - 1
  <2>1. /\ registry' = [registry EXCEPT !.called = Append(registry.called, fn), !.next = n]
        /\ registry.shutdown = "calling" /\ registry.next \in 1..MAX_FUNCTIONS
    BY <1>1, <1>3 DEF CallNext, Registered
  <2>2. registry.next = Placed - Len(registry.called)
    BY <2>1 DEF RegInv
  <2>3. fn = registry.asked[registry.next] /\ fn \in ShutdownFn
    BY <1>1, <2>1, <2>2, ElementOfSeq DEF RegInv, Registered
  <2>4. n \in 0..MAX_FUNCTIONS
    BY <2>1, RegistryAssumption
  <2> HIDE DEF fn, n
  <2>5. /\ Append(registry.called, fn) \in Seq(ShutdownFn)
        /\ Len(Append(registry.called, fn)) = Len(registry.called) + 1
        /\ \A i \in 1..Len(registry.called) : Append(registry.called, fn)[i] = registry.called[i]
        /\ Append(registry.called, fn)[Len(registry.called) + 1] = fn
    BY <1>1, <2>3, AppendProperties DEF Registered
  <2>6. /\ registry' \in Registered
        /\ registry'.called = Append(registry.called, fn) /\ registry'.next = n
        /\ UNCHANGED <<registry.functions_, registry.asked, registry.shutdown>>
    BY <1>1, <2>1, <2>4, <2>5 DEF Registered
  <2>7. Placed' = Placed
    BY <2>6 DEF Placed
  <2>8. /\ n = Placed - Len(registry'.called) /\ Len(registry'.called) <= Placed
        /\ fn = registry.asked[Placed - Len(registry'.called) + 1]
    BY <1>1, <2>1, <2>2, <2>3, <2>5, <2>6 DEF n
  <2>9. \A i \in 1..Len(registry'.called) : registry'.called[i] = registry.asked[Placed - i + 1]
    BY <1>1, <2>5, <2>6, <2>8 DEF RegInv
  <2> QED
    BY <2>1, <2>6, <2>7, <2>8, <2>9 DEF RegInv
<1>4. CASE ShutdownReturns
  <2>1. /\ registry' = [registry EXCEPT !.shutdown = "done", !.functions_ = <<>>]
        /\ registry.shutdown = "calling" /\ registry.next = 0
    BY <1>4 DEF ShutdownReturns
  <2>2. /\ registry' \in Registered /\ registry'.functions_ = <<>>
        /\ registry'.shutdown = "done" /\ UNCHANGED <<registry.called, registry.asked>>
    BY <1>1, <2>1, EmptySeq DEF Registered
  <2>3. Len(registry.called) = Placed
    BY <1>1, <2>1 DEF RegInv
  <2> QED
    BY <2>2, <2>3 DEF RegInv, Placed
<1> QED
  BY <1>2, <1>3, <1>4

\* What shutdown_all has called when it returns, as one sequence.
LEMMA RegInvOrder == RegInv => RegTypeOK /\ ShutdownOrder
<1> SUFFICES ASSUME RegInv
             PROVE  RegTypeOK /\ ShutdownOrder
  OBVIOUS
<1>1. RegTypeOK
  BY DEF RegInv, Registered, RegTypeOK, RegFresh
<1>2. ASSUME registry.shutdown = "done"
      PROVE  registry.called = Reverse(SubSeq(registry.asked, 1, Placed))
  <2> DEFINE first == SubSeq(registry.asked, 1, Placed)
  <2>1. /\ Placed \in 0..Len(registry.asked) /\ registry.asked \in Seq(ShutdownFn)
        /\ registry.called \in Seq(ShutdownFn) /\ Len(registry.called) = Placed
    BY <1>2, RegistryAssumption DEF RegInv, Registered, Placed
  <2>2. /\ first \in Seq(ShutdownFn) /\ Len(first) = Placed
        /\ \A i \in 1..Placed : first[i] = registry.asked[i]
    BY <2>1, SubSeqProperties
  <2> HIDE DEF first
  <2>3. /\ Reverse(first) \in Seq(ShutdownFn) /\ Len(Reverse(first)) = Placed
        /\ \A i \in 1..Placed : Reverse(first)[i] = registry.asked[Placed - i + 1]
    BY <2>1, <2>2, ElementOfSeq DEF Reverse
  <2>4. \A i \in 1..Placed : registry.called[i] = Reverse(first)[i]
    BY <2>1, <2>3 DEF RegInv
  <2>5. registry.called = Reverse(first)
    BY <2>1, <2>3, <2>4, SeqEqual
  <2> QED
    BY <2>5 DEF first
<1> QED
  BY <1>1, <1>2 DEF ShutdownOrder, RegInv, Placed

-----------------------------------------------------------------------------
(* Delayed power management *)

\* The calls that are pended, and the fields of pm.
Pend == {"apply_pm_override", "delete_timer_deferred"}
PmRecord ==
  [s_state : PmState, was_active : PmState, pressed_in : PmState \cup {NotPressed},
   enabler : {"todo", "timer", "done"}, interrupt : {"off", "on", "inside"},
   window : {"none", "armed", "check", "configure", "store", "pend", "over", "deleted"},
   light_sleep : BOOLEAN, override_lock : BOOLEAN, raced : BOOLEAN, pended : Seq(Pend)]

\* Where the timer and its callback are relative to what they write: light sleep comes
\* after the check, the state after that, and the deletion is pended last.
WindowInv ==
  /\ pm.enabler # "done" => pm.window = "none"
  /\ pm.window \in {"none", "armed", "check"} => ~pm.light_sleep
  /\ pm.s_state \in BootWindow => pm.window \in {"none", "armed", "check", "configure", "store"}
  /\ pm.window \notin {"over", "deleted"} => ~Contains(pm.pended, "delete_timer_deferred")

\* What a press that does not overlap the callback's update leaves behind.
PressInv ==
  /\ pm.enabler = "todo" => pm.interrupt = "off" /\ pm.pressed_in = NotPressed
  /\ pm.interrupt = "on" => pm.pressed_in = NotPressed
  /\ pm.interrupt = "inside" => pm.was_active = pm.pressed_in
  /\ pm.pressed_in \in BootWindow /\ ~pm.raced =>
       /\ ~pm.light_sleep /\ pm.window \notin {"configure", "store"}
       /\ pm.interrupt = "off" => pm.s_state = "PM_OVERRIDDEN"
  /\ pm.pressed_in = "PM_ACTIVE_ALLOW_OVERRIDE" /\ pm.interrupt = "off" =>
       Contains(pm.pended, "apply_pm_override") \/ pm.override_lock

PmInv == pm \in PmRecord /\ config \in PmConfig /\ WindowInv /\ PressInv

\* A boot starts where nothing has been pressed, configured or pended.
LEMMA PmFreshInv ==
  /\ pm = PmFresh /\ config \in PmConfig => PmInv
  /\ pm' = PmFresh /\ config' \in PmConfig => PmInv'
<1>1. <<>> \in Seq(Pend) /\ \A d \in Pend : ~Contains(<<>>, d)
  BY DEF Contains
<1>2. PmFresh \in PmRecord
  BY <1>1 DEF PmFresh, PmRecord, PmState, BootWindow, NotPressed
<1>3. pm = PmFresh /\ config \in PmConfig => PmInv
  <2> SUFFICES ASSUME pm = PmFresh, config \in PmConfig
               PROVE  PmInv
    OBVIOUS
  <2> QED
    BY <1>1, <1>2 DEF PmInv, PmFresh, BootWindow, NotPressed, WindowInv, PressInv, Pend
<1>4. pm' = PmFresh /\ config' \in PmConfig => PmInv'
  <2> SUFFICES ASSUME pm' = PmFresh, config' \in PmConfig
               PROVE  PmInv'
    OBVIOUS
  <2> QED
    BY <1>1, <1>2 DEF PmInv, PmFresh, BootWindow, NotPressed, WindowInv, PressInv, Pend
<1> QED
  BY <1>3, <1>4

\* What pending a call and running the first one do to the calls pended.
LEMMA PendedCalls ==
  \A s \in Seq(Pend) :
    /\ \A c \in Pend : Append(s, c) \in Seq(Pend)
                       /\ \A d \in Pend : Contains(Append(s, c), d) <=> Contains(s, d) \/ c = d
    /\ s # <<>> => /\ Tail(s) \in Seq(Pend) /\ Head(s) \in Pend /\ Contains(s, Head(s))
                   /\ \A d \in Pend : Contains(Tail(s), d) => Contains(s, d)
                   /\ \A d \in Pend : Contains(s, d) /\ Head(s) # d => Contains(Tail(s), d)
<1> SUFFICES ASSUME NEW s \in Seq(Pend)
             PROVE  /\ \A c \in Pend : Append(s, c) \in Seq(Pend)
                         /\ \A d \in Pend : Contains(Append(s, c), d) <=> Contains(s, d) \/ c = d
                    /\ s # <<>> => /\ Tail(s) \in Seq(Pend) /\ Head(s) \in Pend
                                   /\ Contains(s, Head(s))
                                   /\ \A d \in Pend : Contains(Tail(s), d) => Contains(s, d)
                                   /\ \A d \in Pend : Contains(s, d) /\ Head(s) # d
                                                        => Contains(Tail(s), d)
  OBVIOUS
<1>1. Len(s) \in Nat
  OBVIOUS
<1>2. ASSUME NEW c \in Pend, NEW d \in Pend
      PROVE  /\ Append(s, c) \in Seq(Pend)
             /\ Contains(Append(s, c), d) <=> Contains(s, d) \/ c = d
  <2>1. /\ Append(s, c) \in Seq(Pend) /\ Len(Append(s, c)) = Len(s) + 1
        /\ \A i \in 1..Len(s) : Append(s, c)[i] = s[i]
        /\ Append(s, c)[Len(s) + 1] = c
    BY AppendProperties
  <2> QED
    BY <1>1, <2>1 DEF Contains
<1>3. ASSUME s # <<>>, NEW d \in Pend
      PROVE  /\ Tail(s) \in Seq(Pend) /\ Head(s) \in Pend /\ Contains(s, Head(s))
             /\ Contains(Tail(s), d) => Contains(s, d)
             /\ Contains(s, d) /\ Head(s) # d => Contains(Tail(s), d)
  <2>1. /\ Tail(s) \in Seq(Pend) /\ Head(s) \in Pend /\ Len(Tail(s)) = Len(s) - 1
        /\ \A i \in 1..Len(Tail(s)) : Tail(s)[i] = s[i + 1]
        /\ Head(s) = s[1] /\ Len(s) >= 1
    BY <1>3, HeadTailProperties, EmptySeq
  <2>2. ASSUME NEW i \in 1..Len(s), s[i] = d, Head(s) # d
        PROVE  i - 1 \in 1..Len(Tail(s)) /\ Tail(s)[i - 1] = d
    BY <1>1, <2>1, <2>2
  <2> QED
    BY <1>1, <2>1, <2>2 DEF Contains
<1> QED
  BY <1>2, <1>3 DEF Pend

\* A step of the main task, the interrupt, the timer's callback or the daemon.
LEMMA PmStepInv == PmInv /\ PmStep => PmInv'
<1> SUFFICES ASSUME PmInv, PmStep
             PROVE  PmInv'
  OBVIOUS
<1> USE DEF PmInv
<1>0. /\ pm \in PmRecord /\ config \in PmConfig /\ UNCHANGED config
      /\ WindowInv /\ PressInv /\ pm.pended \in Seq(Pend)
  BY DEF PmStep, EnableButton, StartWindow, PressButton, StoreOverridden, WindowCloses,
         CheckState, Configure, StoreActive, PendDelete, RunPended, PmRecord
<1>1. CASE EnableButton
  <2>1. pm' \in PmRecord
    BY <1>0, <1>1 DEF EnableButton, PmRecord, PmState, BootWindow
  <2>2. /\ UNCHANGED <<pm.was_active, pm.pressed_in, pm.window, pm.light_sleep,
                       pm.override_lock, pm.raced, pm.pended>>
        /\ pm.enabler = "todo" /\ pm'.enabler = "timer"
        /\ pm'.interrupt \in {"off", "on"}
        /\ pm'.s_state = pm.s_state \/ pm'.s_state = "BOOT_WINDOW_ALLOW_OVERRIDE"
    <3>1. CASE config.disable_sleep_on_gpio0_press
      BY <1>0, <1>1, <3>1 DEF EnableButton, PmRecord
    <3>2. CASE ~config.disable_sleep_on_gpio0_press
      BY <1>0, <1>1, <3>2 DEF EnableButton, PmRecord, PressInv
    <3> QED
      BY <3>1, <3>2
  <2>3. WindowInv'
    BY <1>0, <2>2 DEF WindowInv, BootWindow
  <2>4. PressInv'
    BY <1>0, <2>2 DEF WindowInv, PressInv, BootWindow, NotPressed
  <2> QED
    BY <1>0, <2>1, <2>3, <2>4
<1>2. CASE StartWindow
  <2>1. pm' \in PmRecord
    BY <1>0, <1>2 DEF StartWindow, PmRecord, PmState, BootWindow
  <2>2. /\ UNCHANGED <<pm.s_state, pm.was_active, pm.pressed_in, pm.interrupt,
                       pm.light_sleep, pm.override_lock, pm.raced, pm.pended>>
        /\ pm.enabler = "timer" /\ pm'.enabler = "done" /\ pm'.window = "armed"
    BY <1>0, <1>2 DEF StartWindow, PmRecord, PmState, BootWindow
  <2>3. WindowInv'
    BY <1>0, <2>2 DEF WindowInv, BootWindow
  <2>4. PressInv'
    BY <1>0, <2>2 DEF WindowInv, PressInv, BootWindow, NotPressed
  <2> QED
    BY <1>0, <2>1, <2>3, <2>4
<1>3. CASE WindowCloses
  <2>1. pm' \in PmRecord
    BY <1>0, <1>3 DEF WindowCloses, PmRecord, PmState, BootWindow
  <2>2. /\ UNCHANGED <<pm.s_state, pm.was_active, pm.pressed_in, pm.enabler, pm.interrupt,
                       pm.light_sleep, pm.override_lock, pm.raced, pm.pended>>
        /\ pm.window = "armed" /\ pm'.window = "check"
    BY <1>0, <1>3 DEF WindowCloses, PmRecord, PmState, BootWindow
  <2>3. WindowInv'
    BY <1>0, <2>2 DEF WindowInv, BootWindow
  <2>4. PressInv'
    BY <1>0, <2>2 DEF WindowInv, PressInv, BootWindow, NotPressed
  <2> QED
    BY <1>0, <2>1, <2>3, <2>4
<1>4. CASE PressButton
  <2>1. pm' \in PmRecord
    <3>1. Updating \in BOOLEAN /\ pm.s_state \in PmState
      BY <1>0 DEF Updating, PmRecord
    <3> QED
      BY <1>0, <1>4, <3>1 DEF PressButton, PmRecord
  <2>2. /\ UNCHANGED <<pm.s_state, pm.enabler, pm.window, pm.light_sleep, pm.override_lock,
                       pm.pended>>
        /\ pm.interrupt = "on" /\ pm'.interrupt = "inside"
        /\ pm'.was_active = pm.s_state /\ pm'.pressed_in = pm.s_state
        /\ pm'.raced <=> (pm.window \in {"configure", "store"})
    <3>1. Updating \in BOOLEAN /\ (Updating <=> pm.window \in {"configure", "store"})
      BY DEF Updating
    <3> QED
      BY <1>0, <1>4, <3>1 DEF PressButton, PmRecord
  <2>3. WindowInv'
    BY <1>0, <2>2 DEF WindowInv, BootWindow
  <2>4. PressInv'
    BY <1>0, <2>2 DEF WindowInv, PressInv, BootWindow, NotPressed
  <2> QED
    BY <1>0, <2>1, <2>3, <2>4
<1>5. CASE StoreOverridden
  <2>1. pm' \in PmRecord
    BY <1>0, <1>5, PendedCalls DEF StoreOverridden, PmRecord, PmState, BootWindow, Pend
  <2>2. /\ UNCHANGED <<pm.was_active, pm.pressed_in, pm.enabler, pm.window, pm.light_sleep,
                       pm.override_lock, pm.raced>>
        /\ pm.interrupt = "inside" /\ pm'.interrupt = "off" /\ pm'.s_state = "PM_OVERRIDDEN"
        /\ pm'.pended = IF Overrides THEN Append(pm.pended, "apply_pm_override") ELSE pm.pended
    BY <1>0, <1>5 DEF StoreOverridden, PmRecord, PmState, BootWindow
  <2>3. WindowInv'
    BY <1>0, <2>2, PendedCalls DEF WindowInv, BootWindow, Pend
  <2>4. PressInv'
    <3>1. Contains(pm.pended, "apply_pm_override") => Contains(pm'.pended, "apply_pm_override")
      BY <1>0, <2>2, PendedCalls DEF Pend
    <3>2. pm.pressed_in = "PM_ACTIVE_ALLOW_OVERRIDE" => Contains(pm'.pended, "apply_pm_override")
      BY <1>0, <2>2, PendedCalls DEF Pend, Overrides, PressInv
    <3> QED
      BY <1>0, <2>2, <3>1, <3>2 DEF WindowInv, PressInv, BootWindow, NotPressed
  <2> QED
    BY <1>0, <2>1, <2>3, <2>4
<1>6. CASE CheckState
  <2>1. pm' \in PmRecord
    BY <1>0, <1>6 DEF CheckState, PmRecord, PmState, BootWindow
  <2>2. /\ UNCHANGED <<pm.s_state, pm.was_active, pm.pressed_in, pm.enabler, pm.interrupt,
                       pm.light_sleep, pm.override_lock, pm.pended>>
        /\ pm.window = "check" /\ pm'.window = IF pm.s_state \in BootWindow THEN "configure" ELSE "pend"
        /\ pm'.raced <=> (pm.raced \/ pm.interrupt = "inside")
    BY <1>0, <1>6 DEF CheckState, PmRecord, PmState, BootWindow
  <2>3. WindowInv'
    BY <1>0, <2>2 DEF WindowInv, BootWindow
  <2>4. PressInv'
    <3>1. pm.interrupt \in {"off", "on", "inside"}
      BY <1>0 DEF PmRecord
    <3> QED
      BY <1>0, <2>2, <3>1 DEF WindowInv, PressInv, BootWindow, NotPressed
  <2> QED
    BY <1>0, <2>1, <2>3, <2>4
<1>7. CASE Configure
  <2>1. pm' \in PmRecord
    BY <1>0, <1>7 DEF Configure, PmRecord, PmState, BootWindow
  <2>2. /\ UNCHANGED <<pm.s_state, pm.was_active, pm.pressed_in, pm.enabler, pm.interrupt,
                       pm.override_lock, pm.raced, pm.pended>>
        /\ pm.window = "configure" /\ pm'.window = "store" /\ pm'.light_sleep = TRUE
    BY <1>0, <1>7 DEF Configure, PmRecord, PmState, BootWindow
  <2>3. WindowInv'
    BY <1>0, <2>2 DEF WindowInv, BootWindow
  <2>4. PressInv'
    BY <1>0, <2>2 DEF WindowInv, PressInv, BootWindow, NotPressed
  <2> QED
    BY <1>0, <2>1, <2>3, <2>4
<1>8. CASE StoreActive
  <2>1. pm' \in PmRecord
    BY <1>0, <1>8 DEF StoreActive, PmRecord, PmState, BootWindow
  <2>2. /\ UNCHANGED <<pm.was_active, pm.pressed_in, pm.enabler, pm.interrupt,
                       pm.light_sleep, pm.override_lock, pm.raced, pm.pended>>
        /\ pm.window = "store" /\ pm'.window = "pend"
        /\ pm'.s_state \in {"PM_ACTIVE_NO_OVERRIDE", "PM_ACTIVE_ALLOW_OVERRIDE"}
    BY <1>0, <1>8 DEF StoreActive, PmRecord, PmState, BootWindow
  <2>3. WindowInv'
    BY <1>0, <2>2 DEF WindowInv, BootWindow
  <2>4. PressInv'
    BY <1>0, <2>2 DEF WindowInv, PressInv, BootWindow, NotPressed
  <2> QED
    BY <1>0, <2>1, <2>3, <2>4
<1>9. CASE PendDelete
  <2>1. pm' \in PmRecord
    BY <1>0, <1>9, PendedCalls DEF PendDelete, PmRecord, PmState, BootWindow, Pend
  <2>2. /\ UNCHANGED <<pm.s_state, pm.was_active, pm.pressed_in, pm.enabler, pm.interrupt,
                       pm.light_sleep, pm.override_lock, pm.raced>>
        /\ pm.window = "pend" /\ pm'.window = "over"
        /\ pm'.pended = Append(pm.pended, "delete_timer_deferred")
    BY <1>0, <1>9 DEF PendDelete, PmRecord, PmState, BootWindow
  <2>3. WindowInv'
    BY <1>0, <2>2, PendedCalls DEF WindowInv, BootWindow, Pend
  <2>4. PressInv'
    <3>1. Contains(pm.pended, "apply_pm_override") => Contains(pm'.pended, "apply_pm_override")
      BY <1>0, <2>2, PendedCalls DEF Pend
    <3> QED
      BY <1>0, <2>2, <3>1 DEF WindowInv, PressInv, BootWindow, NotPressed
  <2> QED
    BY <1>0, <2>1, <2>3, <2>4
<1>10. CASE RunPended
  <2> DEFINE head == Head(pm.pended)
  <2>1. /\ pm.pended # <<>> /\ head \in Pend /\ Contains(pm.pended, head)
        /\ Tail(pm.pended) \in Seq(Pend)
        /\ \A d \in Pend : Contains(Tail(pm.pended), d) => Contains(pm.pended, d)
        /\ \A d \in Pend : Contains(pm.pended, d) /\ head # d => Contains(Tail(pm.pended), d)
    BY <1>0, <1>10, PendedCalls DEF RunPended
  <2>2. CASE head = "apply_pm_override"
    <3>1. pm' = [pm EXCEPT !.pended = Tail(pm.pended), !.override_lock = TRUE]
      BY <1>10, <2>2 DEF RunPended
    <3>2. /\ pm' \in PmRecord
          /\ pm'.pended = Tail(pm.pended) /\ pm'.override_lock = TRUE
          /\ UNCHANGED <<pm.s_state, pm.was_active, pm.pressed_in, pm.enabler, pm.interrupt,
                         pm.window, pm.light_sleep, pm.raced>>
      BY <1>0, <2>1, <3>1 DEF PmRecord
    <3> QED
      BY <1>0, <2>1, <3>2 DEF WindowInv, PressInv, Pend
  <2>3. CASE head = "delete_timer_deferred"
    <3>1. pm' = [pm EXCEPT !.pended = Tail(pm.pended), !.window = "deleted"]
      BY <1>10, <2>3 DEF RunPended
    <3>2. /\ pm' \in PmRecord
          /\ pm'.pended = Tail(pm.pended) /\ pm'.window = "deleted"
          /\ UNCHANGED <<pm.s_state, pm.was_active, pm.pressed_in, pm.enabler, pm.interrupt,
                         pm.override_lock, pm.light_sleep, pm.raced>>
      BY <1>0, <2>1, <3>1 DEF PmRecord
    <3>3. pm.window \in {"over", "deleted"}
      BY <1>0, <2>1, <2>3 DEF WindowInv
    <3>4. WindowInv'
      BY <1>0, <3>2, <3>3 DEF WindowInv
    <3>5. PressInv'
      BY <1>0, <2>1, <2>3, <3>2, <3>3 DEF PressInv, Pend
    <3> QED
      BY <1>0, <3>2, <3>4, <3>5
  <2> QED
    BY <2>1, <2>2, <2>3 DEF Pend
<1> QED
  BY <1>1, <1>2, <1>3, <1>4, <1>5, <1>6, <1>7, <1>8, <1>9, <1>10 DEF PmStep

\* What the invariant is for.
LEMMA PmInvHonours == PmInv => PmTypeOK /\ PressHonoured
  BY DEF PmInv, PmRecord, PmTypeOK, Pend, PressInv, PressHonoured

-----------------------------------------------------------------------------
(* The boots together *)

\* The check comes before the application opens its store.
CheckFirst == "crash" \in uses /\ check # "done" => store = NvsFresh

BudgetOK ==
  /\ uses \in Application
  /\ budget \in [panics : 0..MaxPanics, updates : 0..MaxUpdates, cycles : 0..MaxPowerCycles]

Inv == BudgetOK /\ OtaInv /\ StreakInv /\ PmInv /\ RegInv /\ NvsInv(Target) /\ CheckFirst

\* An image's target is some version.
LEMMA TargetType == Target \in 1..MaxVersion /\ Target' \in 1..MaxVersion
  BY NvsAssumption DEF Target

\* The device as delivered.
LEMMA InitInv == Init => Inv
<1> SUFFICES ASSUME Init
             PROVE  Inv
  OBVIOUS
<1>1. BudgetOK
  BY BootAssumption DEF Init, BudgetOK
<1>2. OtaInv
  <2>1. ota = OtaFresh /\ running = Factory /\ selected = Factory /\ Factory \in Slot
    BY BootAssumption DEF Init
  <2>2. image \in [Slot -> ImageState] /\ image[running] = "valid"
    BY <2>1 DEF Init, ImageState
  <2>3. OtaTypeOK
    BY <2>1, <2>2, GateCount DEF OtaTypeOK, OtaFresh
  <2> QED
    BY <2>1, <2>2, <2>3 DEF OtaInv, OnTrial, OtaFresh, Ahead
<1>3. StreakInv
  <2>1. CrashTypeOK /\ ~Crashed /\ check = "todo"
    BY CrashAssumption DEF Init, CrashTypeOK, Reason, Crashed
  <2> QED
    BY <2>1 DEF Init, StreakInv, NoStreak, Counted
<1>4. PmInv
  BY PmFreshInv DEF Init, PmInit
<1>5. RegInv
  BY RegFreshInv DEF Init
<1>6. NvsInv(Target) /\ CheckFirst
  BY NoWrites, TargetType DEF Init, NvsInit, NvsInv, NvsFresh, CheckFirst
<1> QED
  BY <1>1, <1>2, <1>3, <1>4, <1>5, <1>6 DEF Inv

\* A reset, whatever its cause.
Reset == Panic \/ PowerCycle \/ Restart \/ Update

\* A reset clears what is in memory, and keeps a prefix of the writes.
LEMMA ResetInv ==
  ASSUME Inv, Reset
  PROVE  BudgetOK' /\ OtaInv' /\ PmInv' /\ RegInv' /\ NvsInv(Target)' /\ CheckFirst'
<1>1. /\ UNCHANGED <<uses, config>> /\ pm' = PmFresh /\ registry' = RegFresh
      /\ NvsBoot /\ (OtaBoot \/ OtaUpdate)
      /\ UNCHANGED budget \/ \E what \in {"panics", "updates", "cycles"} : Spend(what)
  BY DEF Reset, Panic, PowerCycle, Restart, Update, Volatile, PmBoot
<1>2. BudgetOK'
  BY <1>1, BootAssumption DEF Inv, BudgetOK, Spend
<1>3. OtaInv'
  BY <1>1, OtaBootInv, OtaUpdateInv DEF Inv
<1>4. PmInv'
  <2>1. config \in PmConfig
    BY DEF Inv, PmInv
  <2> QED
    BY <1>1, <2>1, PmFreshInv
<1>5. RegInv'
  BY <1>1, RegFreshInv
<1>6. NvsInv(Target)' /\ CheckFirst'
  <2>1. \A v \in 1..MaxVersion : NvsInv(v)'
    BY <1>1, TargetType, NvsBootInv DEF Inv
  <2>2. NvsInv(Target)'
    BY <2>1, TargetType DEF NvsInv
  <2> QED
    BY <1>1, <2>2 DEF NvsBoot, CheckFirst
<1> QED
  BY <1>2, <1>3, <1>4, <1>5, <1>6

\* A step of a utility within a boot.
LEMMA UtilityInv ==
  ASSUME Inv, CrashCheck \/ Ota \/ Pm \/ Nvs \/ Registry \/ UNCHANGED vars
  PROVE  BudgetOK' /\ OtaInv' /\ PmInv' /\ RegInv' /\ NvsInv(Target)' /\ CheckFirst'
<1> USE DEF Inv
<1>1. BudgetOK'
  BY DEF BudgetOK, CrashCheck, Ota, Pm, Nvs, Registry, vars
<1>2. OtaInv' /\ Target' = Target
  <2>1. CASE Ota
    BY <2>1, OtaStepInv, OtaStepValidates DEF Ota, Target
  <2>2. CASE UNCHANGED otaVars
    BY <2>2 DEF otaVars, otaFlash, OtaInv, OtaTypeOK, OnTrial, Ahead, Target
  <2> QED
    BY <2>1, <2>2 DEF CrashCheck, Pm, Nvs, Registry, vars
<1>3. PmInv'
  <2>1. CASE Pm
    BY <2>1, PmStepInv DEF Pm
  <2>2. CASE UNCHANGED pmVars
    BY <2>2 DEF pmVars, PmInv, WindowInv, PressInv
  <2> QED
    BY <2>1, <2>2 DEF CrashCheck, Ota, Nvs, Registry, vars
<1>4. RegInv'
  <2>1. CASE Registry
    BY <2>1, RegisterFnInv, ShutdownInv DEF Registry, RegStep
  <2>2. CASE UNCHANGED registry
    BY <2>2 DEF RegInv, Placed
  <2> QED
    BY <2>1, <2>2 DEF CrashCheck, Ota, Pm, Nvs, vars
<1>5. NvsInv(Target)'
  <2>1. PICK v \in 1..MaxVersion : v = Target
    BY TargetType
  <2>2. NvsInv(v) /\ v = Target'
    BY <1>2, <2>1
  <2>3. CASE Nvs
    <3>1. NvsInv(v)'
      BY <2>1, <2>2, <2>3, NvsStepInv DEF Nvs
    <3> QED
      BY <2>2, <3>1 DEF NvsInv
  <2>4. CASE UNCHANGED nvsVars
    BY <2>2, <2>4 DEF nvsVars, NvsInv
  <2>5. CASE CrashCheck /\ EraseFlash /\ UNCHANGED store
    <3>1. store.at = "todo"
      BY <2>5 DEF CrashCheck, FirstThreshold, CountReset, SecondThreshold, CallbackReturns,
                  CheckFirst, NvsFresh
    <3>2. NvsInv(v)'
      BY <2>2, <2>5, <3>1, NvsEraseInv
    <3> QED
      BY <2>2, <3>2 DEF NvsInv
  <2>6. CrashCheck => UNCHANGED nvsVars \/ (EraseFlash /\ UNCHANGED store)
    BY DEF CrashCheck, nvsVars
  <2> QED
    BY <2>3, <2>4, <2>5, <2>6 DEF Ota, Pm, Registry, vars
<1>6. CheckFirst'
  <2>1. CASE CrashCheck
    BY <2>1 DEF CrashCheck, CheckFirst, CountReset, FirstThreshold, SecondThreshold,
                CallbackReturns, nvsVars
  <2>2. CASE Nvs
    BY <2>2 DEF Nvs, Running, CheckFirst, crashVars
  <2> QED
    BY <2>1, <2>2 DEF Ota, Pm, Registry, vars, CheckFirst, nvsVars, crashVars
<1> QED
  BY <1>1, <1>2, <1>3, <1>4, <1>5, <1>6

\* Every step of Boot keeps the invariant.
LEMMA InvStep == Inv /\ [Next]_vars => Inv'
<1> SUFFICES ASSUME Inv, [Next]_vars
             PROVE  Inv'
  OBVIOUS
<1>1. StreakInv'
  BY StreakStep DEF Inv
<1>2. CASE Reset
  BY <1>1, <1>2, ResetInv DEF Inv
<1>3. CASE CrashCheck \/ Ota \/ Pm \/ Nvs \/ Registry \/ UNCHANGED vars
  BY <1>1, <1>3, UtilityInv DEF Inv
<1> QED
  BY <1>2, <1>3 DEF Next, Reset

\* The utilities' invariants hold over all boots.
THEOREM Invariance == Spec => []Inv
<1> QED
  BY InitInv, InvStep, PTL DEF Spec

\* The types of the utilities' statics and of what outlives a reset.
THEOREM TypeCorrect == Spec => []TypeOK
<1>1. Inv => TypeOK
  BY PmInvHonours, RegInvOrder, NvsInvSound, TargetType
     DEF Inv, BudgetOK, OtaInv, StreakInv, TypeOK
<1> QED
  BY Invariance, <1>1, PTL

\* The first threshold erases the store at most once in a row of crashes, and only
\* after two crashes of a validated image.
THEOREM ErasesJustified == Spec => []EraseJustified
<1>1. Inv => EraseJustified
  BY DEF Inv, StreakInv, EraseJustified
<1> QED
  BY Invariance, <1>1, PTL

\* Behind check_crash_loop the counter in RTC memory is the number of crashes in a
\* row, which is less than five.
THEOREM CrashLoopEnds == Spec => []NoRunAfterFive
<1>1. Inv => NoRunAfterFive
  BY DEF Inv, StreakInv, Counted, NoRunAfterFive
<1> QED
  BY Invariance, <1>1, PTL

\* Over resets, failures and erases migrate_schema keeps the version covered.
THEOREM MigrationIsSound == Spec => []MigrationSound
<1>1. Inv => MigrationSound
  BY NvsInvSound, TargetType DEF Inv, MigrationSound
<1> QED
  BY Invariance, <1>1, PTL

\* shutdown_all calls what has found a place, last registered first.
THEOREM ShutdownInOrder == Spec => []ShutdownOrder
<1>1. Inv => ShutdownOrder
  BY RegInvOrder DEF Inv
<1> QED
  BY Invariance, <1>1, PTL

\* A press of the boot button that does not overlap delayed_pm_callback counts.
THEOREM PressesHonoured == Spec => []PressHonoured
<1>1. Inv => PressHonoured
  BY PmInvHonours DEF Inv
<1> QED
  BY Invariance, <1>1, PTL

\* mark_ota_valid ends a trial only when every gate has been passed in this boot.
THEOREM ValidationEarned == Spec => ValidatedMeansPassed
<1> DEFINE Earned == \A s \in Slot : image[s] = "pending" /\ image'[s] = "valid"
                       => s = running /\ \A g \in Gate : ota.gate[g] # "ahead"
<1>1. ASSUME Inv, [Next]_vars, NEW s \in Slot, image[s] = "pending", image'[s] = "valid"
      PROVE  s = running /\ \A g \in Gate : ota.gate[g] # "ahead"
  <2>1. CASE OtaBoot \/ OtaUpdate
    BY <1>1, <2>1, BootLoaderValidatesNone DEF Inv
  <2>2. CASE OtaStep
    BY <1>1, <2>2, OtaStepValidates DEF Inv, OtaInv, OtaTypeOK, Ahead
  <2>3. CASE UNCHANGED image
    BY <1>1, <2>3
  <2> QED
    BY <1>1, <2>1, <2>2, <2>3
       DEF Next, Panic, PowerCycle, Restart, Update, CrashCheck, Ota, Pm, Nvs, Registry,
           vars, otaVars, otaFlash
<1>2. Inv /\ [Next]_vars => [Earned]_otaVars
  BY <1>1
<1> QED
  BY Invariance, <1>2, PTL DEF Spec, ValidatedMeansPassed
=============================================================================
