------------------------ MODULE MainLoopTask_proofs ------------------------
(***************************************************************************)
(* Proofs about MainLoopTask for every number of clients, every bound and  *)
(* every queue size.  Some invariants hold however the object is used;     *)
(* the others rest on the way it is meant to be used, which the constants  *)
(* and the definitions below state.                                        *)
(***************************************************************************)
EXTENDS MainLoopTask, FiniteSetTheorems, TLAPS

-----------------------------------------------------------------------------
(* The invariants *)

\* How many elements of D f takes to S.
Count(D, f, S) == Cardinality({d \in D : f[d] \in S})

BeforeTimer == {"st_flags", "st_version", "st_inflight", "st_pm", "st_sem", "st_timer"}

\* Every timer that was ever created, or is about to be, has a start of its own.
Created == {"idle", "armed", "deleted"}
HandleCreated == task.timer_handle_ # 0 => timers[task.timer_handle_] \in Created
TimersLeft == Count(TimerId, timers, Created) + Count(Client, pc, BeforeTimer) <= starts

\* Between loading the version and the exchange that ends the sequence.
Sequence == UserCode \cup {"check", "acquire", "choose", "deactivate"}

\* on_stop's version is the sequence's until the exchange that follows it.
StopInv ==
  /\ stopped_at # 0 /\ task.sequence_version_ = stopped_at =>
       step.pc = "deactivate" /\ step.version = stopped_at
  /\ step.pc \in UserCode \cup {"acquire", "choose"} => step.version # 0
  /\ step.pc \in UserCode \cup {"check", "acquire", "choose"} /\ step.version # 0 =>
       step.version # stopped_at

\* How the object is meant to be used: start waits until nothing of an earlier
\* use is left, and it is called by one client, its owner, who alone, or from
\* inside a step, calls reset.
OneOwner == \E o \in Client : Starters \subseteq {o} /\ Resetters \subseteq {o, Loop}
UsedAsMeant == CarefulStart /\ OneOwner

\* Nothing runs and nothing will, but for client c.
NothingBut(c) == /\ queued = 0
                 /\ step.pc = "idle"
                 /\ callback = "idle"
                 /\ \A t \in TimerId : timers[t] # "armed"
                 /\ \A d \in Client \ {c} : pc[d] = "idle"

TimerLive == task.timer_handle_ # 0 /\ timers[task.timer_handle_] \in {"idle", "armed"}
Busy == StartPcs \cup ResetPcs

\* One client starts or resets at a time, a start runs alone, and there is at
\* most one timer that can go off.
UseInv ==
  /\ \A c, d \in Client : pc[c] \in Busy /\ pc[d] \in Busy => c = d
  /\ \A c \in Client : pc[c] \in StartPcs => c \in Starters /\ task.running_ /\ NothingBut(c)
  /\ \A c \in Client : pc[c] \in ResetPcs => ~task.running_
  /\ \A t \in TimerId : timers[t] = "armed" => task.timer_handle_ \in {0, t}
  /\ \A t, u \in TimerId : timers[t] = "armed" /\ timers[u] = "armed" => t = u
  /\ task.running_ /\ ~Starting => TimerLive
  /\ \A c \in Client : pc[c] \in {"st_add", "st_push", "st_undo"} => TimerLive

\* inflight_count_ has room for every step a start or a call can add.
RoomToCount == MaxStarts + MaxCalls + 1 < CounterModulus

\* The main loop's queue takes every step that is pushed.
RoomToPush == ~Foreign /\ QueueSize >= MaxStarts + MaxCalls

PushPcs == {"push", "st_push", "st_undo"}
Executing == step.pc \notin {"idle", "give_check", "give"}

\* The steps queued, executing, or counted and about to be pushed.
InFlight == queued + ToCount(Executing) + ToCount(callback = "push") + Count(Client, pc, PushPcs)

CoverInv == task.inflight_count_ >= InFlight
ExactInv == task.inflight_count_ = InFlight

\* A client that has begun a call or a start, and not counted its step yet.
Ahead == BeforeTimer \cup {"st_add", "clear", "bump", "check", "timer", "add"}

\* What is counted, and what may still be, was asked for by as many calls; a
\* step that has armed the timer has passed its own on.
BudgetInv ==
  task.inflight_count_
    + ToCount(\E t \in TimerId : timers[t] = "armed") + ToCount(callback = "add")
    + Count(Client, pc, Ahead)
  <= starts + calls + ToCount(step.pc \in {"release", "exit"})

\* Steps that do not run the user's code, and lead to none when terminating.
Calm == {"idle", "load", "check", "exit", "give_check", "give"}

Spent == task.terminate_requested_ /\ step.pc \in Calm

\* Nothing can begin: the object is not running, or is just being started.
Fresh == /\ queued = 0
         /\ step.pc = "idle"
         /\ callback = "idle"
         /\ \A t \in TimerId : timers[t] # "armed"
         /\ \A c \in Client : pc[c] \notin CallPcs \ {"check"}
         /\ task.running_ => \A c \in Client : pc[c] # "check"

\* The semaphore is there from the middle of start to the end of reset.
SemInv ==
  /\ ~task.running_ =>
       task.join_sem_ = "null" \/ \E c \in Client : pc[c] \in ResetPcs \ {"rs_pm"}
  /\ \A c \in Client :
       /\ pc[c] \in {"st_flags", "st_version", "st_inflight", "st_pm"} => task.join_sem_ = "null"
       /\ pc[c] \in {"st_timer", "st_add", "st_push", "st_undo"} => task.join_sem_ # "null"
  /\ task.running_ /\ ~Starting => task.join_sem_ # "null"

\* Who waits for the semaphore, or gives it, has seen or set terminate_requested_.
TermInv ==
  /\ \A c \in Client : pc[c] \in ResetPcs \ {"rs_terminate"} => task.terminate_requested_
  /\ step.pc = "give" => task.terminate_requested_

\* The semaphore is given when no step works any more.
GivenInv == task.join_sem_ = "given" => Spent

\* Once a reset has got past its wait in time, no step works until the next start.
RestInv ==
  (task.join_sem_ = "null" \/ \E c \in Client : pc[c] = "rs_sem") /\ ~timed_out => Spent \/ Fresh

DrainInv == SemInv /\ TermInv /\ GivenInv /\ RestInv

BeforeBump == {"clear", "bump"}

\* The versions outnumber the calls of notify: within a step, none comes again.
RoomToTell == MaxVersion > MaxCalls

\* What is owed comes after what the current step has seen.
OwedInv ==
  /\ owed => task.sequence_version_ > 0
  /\ step.pc \in Sequence => task.sequence_version_ >= step.version
  /\ step.pc \in Sequence /\ owed => task.sequence_version_ > step.version
  /\ task.sequence_version_ + Count(Client, pc, BeforeBump) <= calls + 1

\* A version that the current step has not seen is owed.
UnseenInv == step.pc \in Sequence /\ task.sequence_version_ # step.version => owed

Pushing == \E c \in Client : pc[c] \in {"timer", "add", "push"} \cup StartPcs

AnswerInv ==
  owed /\ task.running_ /\ ~task.terminate_requested_ /\ task.sequence_version_ > 0 =>
    queued > 0 \/ step.pc = "load" \/ Pushing

\* A step that has done its work leaves something behind that will go on.
AliveInv ==
  task.running_ /\ ~task.terminate_requested_ /\ task.sequence_version_ > 0
    /\ step.pc \in {"idle", "release", "exit", "give_check", "give"} =>
       queued > 0 \/ callback # "idle" \/ TimerIs("armed") \/ Pushing

-----------------------------------------------------------------------------
(* Counting *)

\* How many there are at some places, when one moves.
LEMMA CountMoves ==
  ASSUME NEW D, IsFiniteSet(D), NEW f, NEW g, NEW S,
         NEW x \in D, \A d \in D \ {x} : g[d] = f[d]
  PROVE  /\ Count(D, f, S) \in Nat /\ Count(D, g, S) \in Nat
         /\ Count(D, g, S) = Count(D, f, S) + (IF g[x] \in S THEN 1 ELSE 0)
                                            - (IF f[x] \in S THEN 1 ELSE 0)
         /\ f[x] \in S => Count(D, f, S) > 0
<1> DEFINE before == {d \in D : f[d] \in S}
           after == {d \in D : g[d] \in S}
           rest == {d \in D \ {x} : f[d] \in S}
<1>1. IsFiniteSet(rest) /\ Cardinality(rest) \in Nat /\ x \notin rest
  BY FS_Subset, FS_CardinalityType
<1>2. Cardinality(rest \cup {x}) = Cardinality(rest) + 1
  BY <1>1, FS_AddElement
<1>3. before = IF f[x] \in S THEN rest \cup {x} ELSE rest
  OBVIOUS
<1>4. after = IF g[x] \in S THEN rest \cup {x} ELSE rest
  OBVIOUS
<1>5. Count(D, f, S) = Cardinality(before) /\ Count(D, g, S) = Cardinality(after)
  BY DEF Count
<1> HIDE DEF before, after, rest
<1>6. Cardinality(before) = Cardinality(rest) + (IF f[x] \in S THEN 1 ELSE 0)
  BY <1>1, <1>2, <1>3
<1>7. Cardinality(after) = Cardinality(rest) + (IF g[x] \in S THEN 1 ELSE 0)
  BY <1>1, <1>2, <1>4
<1> QED
  BY <1>1, <1>5, <1>6, <1>7

\* No more are at some places when nobody comes to them.
LEMMA CountLess ==
  ASSUME NEW D, IsFiniteSet(D), NEW f, NEW g, NEW S, \A d \in D : g[d] \in S => f[d] \in S
  PROVE  /\ Count(D, f, S) \in Nat /\ Count(D, g, S) \in Nat
         /\ Count(D, g, S) <= Count(D, f, S)
<1> DEFINE before == {d \in D : f[d] \in S}
           after == {d \in D : g[d] \in S}
<1>1. after \subseteq before /\ before \subseteq D
  OBVIOUS
<1>2. IsFiniteSet(before) /\ IsFiniteSet(after) /\ Cardinality(after) <= Cardinality(before)
  BY <1>1, FS_Subset
<1> HIDE DEF before, after
<1>3. Cardinality(before) \in Nat /\ Cardinality(after) \in Nat
  BY <1>2, FS_CardinalityType
<1> QED
  BY <1>2, <1>3 DEF Count, before, after

\* None are at places nobody is at.
LEMMA CountNone ==
  ASSUME NEW D, NEW f, NEW S, \A d \in D : f[d] \notin S
  PROVE  Count(D, f, S) = 0
<1>1. {d \in D : f[d] \in S} = {}
  OBVIOUS
<1> QED
  BY <1>1, FS_EmptySet DEF Count

\* Fewer than all elements have been created: one has not.
LEMMA SomeLeft ==
  ASSUME NEW n \in Nat, NEW T, NEW f \in [1..n -> T], NEW S, Count(1..n, f, S) < n
  PROVE  \E t \in 1..n : f[t] \notin S
<1> SUFFICES ASSUME \A t \in 1..n : f[t] \in S PROVE FALSE
  OBVIOUS
<1>1. {t \in 1..n : f[t] \in S} = 1..n
  OBVIOUS
<1>2. Cardinality(1..n) = n
  BY FS_Interval
<1>3. Count(1..n, f, S) = Cardinality(1..n)
  BY <1>1, Zenon DEF Count
<1> QED
  BY <1>2, <1>3

-----------------------------------------------------------------------------
(* Types *)

USE DEF Goto, Move, InObject, InPlace, InTimers, InQueue, external, counts, history,
        StepMove, ByStep, ByStepInPlace, ByStepInTimers

Types == TypeOK /\ HandleCreated /\ TimersLeft

\* The object as it is constructed: no timer, no start.
LEMMA InitTypes == Init => Types
<1> SUFFICES ASSUME Init PROVE Types
  OBVIOUS
<1>1. TypeOK
  <2>1. task \in Fields
    BY ConfigAssumption DEF Init, Fields
  <2>2. 0 \in 0..QueueSize /\ 0 \in 0..MaxVersion /\ 0 \in 0..MaxStarts /\ 0 \in 0..MaxCalls
    BY ConfigAssumption
  <2> QED
    BY <2>1, <2>2 DEF Init, TypeOK
<1>2. Count(TimerId, timers, Created) = 0 /\ Count(Client, pc, BeforeTimer) = 0
  BY CountNone DEF Init, Created, BeforeTimer
<1> QED
  BY <1>1, <1>2 DEF Init, Types, TimersLeft, HandleCreated

\* A start that comes to create its timer finds one of its own.
LEMMA TimerLeft ==
  ASSUME Types, NEW c \in Client, pc[c] = "st_timer"
  PROVE  NewTimer \in TimerId /\ timers[NewTimer] = "none"
<1>1. MaxStarts \in Nat /\ IsFiniteSet(Client) /\ starts \in 0..MaxStarts
  BY ConfigAssumption DEF Types, TypeOK
<1>2. pc[c] \in BeforeTimer
  BY DEF BeforeTimer
<1>3. Count(Client, pc, BeforeTimer) \in Nat /\ Count(Client, pc, BeforeTimer) > 0
  BY <1>1, <1>2, CountMoves
<1>4. Count(1..MaxStarts, timers, Created) < MaxStarts
  <2>1. Count(TimerId, timers, Created) \in Nat
    <3>1. IsFiniteSet({t \in TimerId : timers[t] \in Created})
      BY <1>1, FS_Interval, FS_Subset DEF TimerId
    <3> QED
      BY <3>1, FS_CardinalityType DEF Count
  <2> QED
    BY <1>1, <1>3, <2>1 DEF Types, TimersLeft, TimerId
<1>5. PICK t \in TimerId : timers[t] \notin Created
  <2>1. timers \in [1..MaxStarts -> {"none", "idle", "armed", "deleted"}]
    BY DEF Types, TypeOK, TimerId
  <2> QED
    BY <1>1, <1>4, <2>1, SomeLeft DEF TimerId
<1>6. timers[t] = "none"
  BY <1>5 DEF Types, TypeOK, Created
<1> QED
  BY <1>5, <1>6 DEF NewTimer

\* No handler leaves a field outside the range its C++ type and use give it.
LEMMA TypeStep ==
  ASSUME Types, [Next]_vars
  PROVE  TypeOK'
<1> USE ConfigAssumption DEF Types, TypeOK, Fields, StartPcs, ResetPcs, CallPcs, UserCode
<1>1. ASSUME NEW c \in Client, StartClaim(c) PROVE TypeOK'
  <2>0. task' \in Fields
    BY <1>1 DEF StartClaim
  <2>1. starts' \in 0..MaxStarts
    BY <1>1 DEF StartClaim
  <2>2. pc' \in [Client -> {"idle"} \cup StartPcs \cup ResetPcs \cup CallPcs]
    BY <1>1 DEF StartClaim
  <2>3. UNCHANGED <<timers, callback, queued, step, calls, owed, stopped_at, timed_out>>
    BY <1>1 DEF StartClaim
  <2> QED
    BY <2>0, <2>1, <2>2, <2>3
<1>2. ASSUME NEW c \in Client, StartFlags(c) PROVE TypeOK'
  BY <1>2 DEF StartFlags
<1>3. ASSUME NEW c \in Client, StartVersion(c) PROVE TypeOK'
  BY <1>3 DEF StartVersion, Activate
<1>4. ASSUME NEW c \in Client, StartInflight(c) PROVE TypeOK'
  BY <1>4 DEF StartInflight
<1>5. ASSUME NEW c \in Client, StartPm(c) PROVE TypeOK'
  BY <1>5 DEF StartPm
<1>6. ASSUME NEW c \in Client, StartSem(c) PROVE TypeOK'
  BY <1>6 DEF StartSem, StartFails
<1>7. ASSUME NEW c \in Client, StartAdd(c) PROVE TypeOK'
  BY <1>7 DEF StartAdd, FetchAdd
<1>8. ASSUME NEW c \in Client, StartPush(c) PROVE TypeOK'
  BY <1>8 DEF StartPush, PushOk, PushFails
<1>9. ASSUME NEW c \in Client, StartUndo(c) PROVE TypeOK'
  <2>1. (task.inflight_count_ + -1) % CounterModulus \in 0..(CounterModulus - 1)
    OBVIOUS
  <2> DEFINE n == (task.inflight_count_ + -1) % CounterModulus
  <2> HIDE DEF n
  <2>2. task' = [task EXCEPT !.inflight_count_ = n, !.running_ = FALSE]
    BY <1>9 DEF StartUndo, FetchAdd, StartFails, n
  <2> QED
    BY <1>9, <2>1, <2>2 DEF StartUndo, StartFails, n
<1>10. ASSUME NEW c \in Client, StartTimer(c) PROVE TypeOK'
  <2>1. CASE StartFails(c, task) /\ UNCHANGED timers
    BY <1>10, <2>1 DEF StartTimer, StartFails
  <2>2. CASE ~(StartFails(c, task) /\ UNCHANGED timers)
    <3>1. /\ pc[c] = "st_timer"
          /\ task' = [task EXCEPT !.timer_handle_ = NewTimer]
          /\ timers' = [timers EXCEPT ![NewTimer] = "idle"]
          /\ pc' = [pc EXCEPT ![c] = "st_add"]
          /\ UNCHANGED <<callback, queued, step, counts, history>>
      BY <1>10, <2>2 DEF StartTimer
    <3>2. NewTimer \in TimerId
      BY <3>1, TimerLeft
    <3> HIDE DEF NewTimer
    <3>3. task' \in Fields
      <4>1. NewTimer \in 0..MaxStarts
        BY <3>2 DEF TimerId
      <4> QED
        BY <3>1, <4>1
    <3>4. timers' \in [TimerId -> {"none", "idle", "armed", "deleted"}]
      BY <3>1, <3>2
    <3>5. pc' \in [Client -> {"idle"} \cup StartPcs \cup ResetPcs \cup CallPcs]
      BY <3>1
    <3> QED
      BY <3>1, <3>3, <3>4, <3>5
  <2> QED
    BY <2>1, <2>2
<1>11. ASSUME NEW c \in Client, NotifyCheck(c) PROVE TypeOK'
  BY <1>11 DEF NotifyCheck, BeginCall
<1>12. ASSUME NEW c \in Client, StopFlag(c) PROVE TypeOK'
  <2>0. task' \in Fields
    BY <1>12 DEF StopFlag
  <2>1. calls' \in 0..MaxCalls
    BY <1>12 DEF StopFlag, BeginCall
  <2>2. pc' \in [Client -> {"idle"} \cup StartPcs \cup ResetPcs \cup CallPcs]
    BY <1>12 DEF StopFlag
  <2>3. UNCHANGED <<timers, callback, queued, step, starts, owed, stopped_at, timed_out>>
    BY <1>12 DEF StopFlag
  <2> QED
    BY <2>0, <2>1, <2>2, <2>3
<1>13. ASSUME NEW c \in Client, NotifyClear(c) PROVE TypeOK'
  BY <1>13 DEF NotifyClear
<1>14. ASSUME NEW c \in Client, NotifyBump(c) PROVE TypeOK'
  BY <1>14 DEF NotifyBump, Activate
<1>15. ASSUME NEW c \in Client, StopCheck(c) PROVE TypeOK'
  BY <1>15 DEF StopCheck
<1>16. ASSUME NEW c \in Client, CallTimer(c) PROVE TypeOK'
  BY <1>16 DEF CallTimer, TimerStop, SetTimer
<1>17. ASSUME NEW c \in Client, CallAdd(c) PROVE TypeOK'
  BY <1>17 DEF CallAdd, FetchAdd
<1>18. ASSUME NEW c \in Client, CallPush(c) PROVE TypeOK'
  BY <1>18 DEF CallPush, PushOk, PushFails
<1>19. ASSUME NEW c \in Client, ResetClaim(c) PROVE TypeOK'
  BY <1>19 DEF ResetClaim
<1>20. ASSUME NEW c \in Client, ResetTerminate(c) PROVE TypeOK'
  BY <1>20 DEF ResetTerminate
<1>21. ASSUME NEW c \in Client, ResetTimerStop(c) PROVE TypeOK'
  BY <1>21 DEF ResetTimerStop, TimerStop, SetTimer
<1>22. ASSUME NEW c \in Client, ResetTimerDelete(c) PROVE TypeOK'
  BY <1>22 DEF ResetTimerDelete, SetTimer
<1>23. ASSUME NEW c \in Client, ResetTimerNull(c) PROVE TypeOK'
  BY <1>23 DEF ResetTimerNull
<1>24. ASSUME NEW c \in Client, ResetDrain(c) PROVE TypeOK'
  BY <1>24 DEF ResetDrain
<1>25. ASSUME NEW c \in Client, ResetWait(c) PROVE TypeOK'
  BY <1>25 DEF ResetWait
<1>26. ASSUME NEW c \in Client, ResetSem(c) PROVE TypeOK'
  BY <1>26 DEF ResetSem
<1>27. ASSUME NEW c \in Client, ResetPm(c) PROVE TypeOK'
  BY <1>27 DEF ResetPm
<1>28. ASSUME NEW t \in TimerId, TimerFire(t) PROVE TypeOK'
  BY <1>28 DEF TimerFire
<1>29. CASE CallbackAdd
  BY <1>29 DEF CallbackAdd, FetchAdd
<1>30. CASE CallbackPush
  BY <1>30 DEF CallbackPush, PushOk, PushFails
<1>31. CASE StepPop
  BY <1>31 DEF StepPop
<1>32. CASE StepLoad
  BY <1>32 DEF StepLoad
<1>33. CASE StepCheck
  BY <1>33 DEF StepCheck
<1>34. CASE StepAcquire
  BY <1>34 DEF StepAcquire
<1>35. CASE StepChoose
  BY <1>35 DEF StepChoose
<1>36. CASE OnStepReturns
  BY <1>36 DEF OnStepReturns
<1>37. CASE StepRearm
  BY <1>37 DEF StepRearm
<1>38. CASE StepTimerStop
  BY <1>38 DEF StepTimerStop, TimerStop, SetTimer
<1>39. CASE StepTimerStart
  BY <1>39 DEF StepTimerStart, SetTimer
<1>40. CASE OnStopReturns
  BY <1>40 DEF OnStopReturns
<1>41. CASE StepDeactivate
  BY <1>41 DEF StepDeactivate, Deactivated, Exchanged
<1>42. CASE StepRelease
  BY <1>42 DEF StepRelease, Released
<1>43. CASE StepExit
  BY <1>43 DEF StepExit, Decremented, FetchAdd
<1>44. CASE StepGiveCheck
  BY <1>44 DEF StepGiveCheck
<1>45. CASE StepGive
  BY <1>45 DEF StepGive
<1>46. CASE UNCHANGED vars
  BY <1>46 DEF vars
<1> QED
  BY <1>1, <1>2, <1>3, <1>4, <1>5, <1>6, <1>7, <1>8, <1>9, <1>10, <1>11, <1>12, <1>13, <1>14,
     <1>15, <1>16, <1>17, <1>18, <1>19, <1>20, <1>21, <1>22, <1>23, <1>24, <1>25, <1>26, <1>27,
     <1>28, <1>29, <1>30, <1>31, <1>32, <1>33, <1>34, <1>35, <1>36, <1>37, <1>38, <1>39, <1>40,
     <1>41, <1>42, <1>43, <1>44, <1>45, <1>46 DEF Next, Start, Call, Reset, Step
\* But for a start that is claimed and one that creates its timer, a step creates
\* no timer and begins no start.
LEMMA TimersQuiet ==
  ASSUME Types, [Next]_vars,
         \A c \in Client : ~StartClaim(c) /\ ~StartTimer(c)
  PROVE  /\ starts' = starts
         /\ \A t \in TimerId : timers'[t] \in Created => timers[t] \in Created
         /\ \A c \in Client : pc'[c] \in BeforeTimer => pc[c] \in BeforeTimer
         /\ HandleCreated'
<1> DEFINE Goal == /\ starts' = starts
                   /\ \A t \in TimerId : timers'[t] \in Created => timers[t] \in Created
                   /\ \A c \in Client : pc'[c] \in BeforeTimer => pc[c] \in BeforeTimer
                   /\ HandleCreated'
<1> USE DEF Types, TypeOK, Fields, HandleCreated, Created, BeforeTimer
<1>1. ASSUME NEW c \in Client, StartFlags(c) PROVE Goal
  BY <1>1 DEF StartFlags
<1>2. ASSUME NEW c \in Client, StartVersion(c) PROVE Goal
  BY <1>2 DEF StartVersion, Activate
<1>3. ASSUME NEW c \in Client, StartInflight(c) PROVE Goal
  BY <1>3 DEF StartInflight
<1>4. ASSUME NEW c \in Client, StartPm(c) PROVE Goal
  BY <1>4 DEF StartPm
<1>5. ASSUME NEW c \in Client, StartSem(c) PROVE Goal
  BY <1>5 DEF StartSem, StartFails
<1>6. ASSUME NEW c \in Client, StartAdd(c) PROVE Goal
  BY <1>6 DEF StartAdd, FetchAdd
<1>7. ASSUME NEW c \in Client, StartPush(c) PROVE Goal
  BY <1>7 DEF StartPush, PushOk, PushFails
<1>8. ASSUME NEW c \in Client, StartUndo(c) PROVE Goal
  BY <1>8 DEF StartUndo, FetchAdd, StartFails
<1>9. ASSUME NEW c \in Client, NotifyCheck(c) PROVE Goal
  BY <1>9 DEF NotifyCheck, BeginCall
<1>10. ASSUME NEW c \in Client, StopFlag(c) PROVE Goal
  BY <1>10 DEF StopFlag, BeginCall
<1>11. ASSUME NEW c \in Client, NotifyClear(c) PROVE Goal
  BY <1>11 DEF NotifyClear
<1>12. ASSUME NEW c \in Client, NotifyBump(c) PROVE Goal
  BY <1>12 DEF NotifyBump, Activate
<1>13. ASSUME NEW c \in Client, StopCheck(c) PROVE Goal
  BY <1>13 DEF StopCheck
<1>14. ASSUME NEW c \in Client, CallTimer(c) PROVE Goal
  BY <1>14 DEF CallTimer, TimerStop, TimerIs, SetTimer
<1>15. ASSUME NEW c \in Client, CallAdd(c) PROVE Goal
  BY <1>15 DEF CallAdd, FetchAdd
<1>16. ASSUME NEW c \in Client, CallPush(c) PROVE Goal
  BY <1>16 DEF CallPush, PushOk, PushFails
<1>17. ASSUME NEW c \in Client, ResetClaim(c) PROVE Goal
  BY <1>17 DEF ResetClaim
<1>18. ASSUME NEW c \in Client, ResetTerminate(c) PROVE Goal
  BY <1>18 DEF ResetTerminate
<1>19. ASSUME NEW c \in Client, ResetTimerStop(c) PROVE Goal
  BY <1>19 DEF ResetTimerStop, TimerStop, TimerIs, SetTimer
<1>20. ASSUME NEW c \in Client, ResetTimerDelete(c) PROVE Goal
  <2> DEFINE h == task.timer_handle_
  <2>1. PICK l \in {"armed", "deleted"} : timers' = [timers EXCEPT ![h] = l]
    BY <1>20 DEF ResetTimerDelete, SetTimer
  <2>2. \A t \in TimerId : timers'[t] = IF t = h THEN l ELSE timers[t]
    BY <2>1
  <2>3. h = 0 \/ (h \in TimerId /\ timers[h] \in Created)
    <3>1. MaxStarts \in Nat /\ task.timer_handle_ \in 0..MaxStarts
      BY ConfigAssumption
    <3>2. h = 0 \/ h \in TimerId
      BY <3>1 DEF TimerId
    <3>3. h # 0 => timers[h] \in Created
      OBVIOUS
    <3> HIDE DEF h
    <3> QED
      BY <3>2, <3>3
  <2>4. 0 \notin TimerId
    BY DEF TimerId
  <2>5. task' = task /\ starts' = starts
    BY <1>20 DEF ResetTimerDelete
  <2>6. \A d \in Client : pc'[d] \in BeforeTimer => pc[d] \in BeforeTimer
    BY <1>20 DEF ResetTimerDelete
  <2> HIDE DEF h
  <2>7. h # 0 => timers'[h] \in Created
    BY <2>2, <2>3
  <2> QED
    BY <2>2, <2>3, <2>4, <2>5, <2>6, <2>7 DEF h
<1>21. ASSUME NEW c \in Client, ResetTimerNull(c) PROVE Goal
  BY <1>21 DEF ResetTimerNull
<1>22. ASSUME NEW c \in Client, ResetDrain(c) PROVE Goal
  BY <1>22 DEF ResetDrain
<1>23. ASSUME NEW c \in Client, ResetWait(c) PROVE Goal
  BY <1>23 DEF ResetWait
<1>24. ASSUME NEW c \in Client, ResetSem(c) PROVE Goal
  BY <1>24 DEF ResetSem
<1>25. ASSUME NEW c \in Client, ResetPm(c) PROVE Goal
  BY <1>25 DEF ResetPm
<1>26. ASSUME NEW t \in TimerId, TimerFire(t) PROVE Goal
  BY <1>26 DEF TimerFire
<1>27. CASE CallbackAdd
  BY <1>27 DEF CallbackAdd, FetchAdd
<1>28. CASE CallbackPush
  BY <1>28 DEF CallbackPush, PushOk, PushFails
<1>29. CASE StepPop
  BY <1>29 DEF StepPop
<1>30. CASE StepLoad
  BY <1>30 DEF StepLoad
<1>31. CASE StepCheck
  BY <1>31 DEF StepCheck, NothingToDo
<1>32. CASE StepAcquire
  BY <1>32 DEF StepAcquire
<1>33. CASE StepChoose
  BY <1>33 DEF StepChoose
<1>34. CASE OnStepReturns
  BY <1>34 DEF OnStepReturns
<1>35. CASE StepRearm
  BY <1>35 DEF StepRearm
<1>36. CASE StepTimerStop
  BY <1>36 DEF StepTimerStop, TimerStop, TimerIs, SetTimer
<1>37. CASE StepTimerStart
  BY <1>37 DEF StepTimerStart, TimerIs, SetTimer
<1>38. CASE OnStopReturns
  BY <1>38 DEF OnStopReturns
<1>39. CASE StepDeactivate
  BY <1>39 DEF StepDeactivate, Deactivated, Exchanged
<1>40. CASE StepRelease
  BY <1>40 DEF StepRelease, Released
<1>41. CASE StepExit
  BY <1>41 DEF StepExit, Decremented, FetchAdd
<1>42. CASE StepGiveCheck
  BY <1>42 DEF StepGiveCheck
<1>43. CASE StepGive
  BY <1>43 DEF StepGive
<1>44. CASE UNCHANGED vars
  BY <1>44 DEF vars
<1> QED
  BY <1>1, <1>2, <1>3, <1>4, <1>5, <1>6, <1>7, <1>8, <1>9, <1>10, <1>11, <1>12, <1>13, <1>14,
     <1>15, <1>16, <1>17, <1>18, <1>19, <1>20, <1>21, <1>22, <1>23, <1>24, <1>25, <1>26,
     <1>27, <1>28, <1>29, <1>30, <1>31, <1>32, <1>33, <1>34, <1>35, <1>36, <1>37, <1>38,
     <1>39, <1>40, <1>41, <1>42, <1>43, <1>44 DEF Next, Start, Call, Reset, Step

\* Every field keeps its type; every timer created has had its own start.
LEMMA TypesStep == Types /\ [Next]_vars => Types'
<1> SUFFICES ASSUME Types, [Next]_vars PROVE Types'
  OBVIOUS
<1>1. IsFiniteSet(Client) /\ IsFiniteSet(TimerId) /\ MaxStarts \in Nat
  BY ConfigAssumption, FS_Interval DEF TimerId
<1>2. /\ pc \in [Client -> {"idle"} \cup StartPcs \cup ResetPcs \cup CallPcs]
      /\ timers \in [TimerId -> {"none", "idle", "armed", "deleted"}]
      /\ starts \in Nat
  BY <1>1 DEF Types, TypeOK
<1>3. TypeOK'
  BY TypeStep
<1>4. ASSUME NEW c \in Client, StartClaim(c) PROVE HandleCreated' /\ TimersLeft'
  <2>1. starts' = starts + 1 /\ UNCHANGED timers /\ task'.timer_handle_ = task.timer_handle_
    BY <1>4 DEF StartClaim, Types, TypeOK, Fields
  <2>2. pc' = pc \/ pc' = [pc EXCEPT ![c] = "st_flags"]
    BY <1>4 DEF StartClaim
  <2>3. /\ Count(Client, pc, BeforeTimer) \in Nat /\ Count(Client, pc', BeforeTimer) \in Nat
        /\ Count(TimerId, timers, Created) \in Nat
    BY <1>1, CountLess
  <2>4. Count(Client, pc', BeforeTimer) <= Count(Client, pc, BeforeTimer) + 1
    <3>1. CASE pc' = pc
      BY <2>3, <3>1
    <3>2. CASE pc' = [pc EXCEPT ![c] = "st_flags"]
      <4>1. \A d \in Client \ {c} : pc'[d] = pc[d]
        BY <1>2, <3>2
      <4>2. Count(Client, pc', BeforeTimer) =
              Count(Client, pc, BeforeTimer) + (IF pc'[c] \in BeforeTimer THEN 1 ELSE 0)
                                             - (IF pc[c] \in BeforeTimer THEN 1 ELSE 0)
        BY <1>1, <4>1, CountMoves
      <4> QED
        BY <2>3, <4>2
    <3> QED
      BY <2>2, <3>1, <3>2
  <2> QED
    BY <1>2, <2>1, <2>3, <2>4 DEF Types, TimersLeft, HandleCreated
<1>5. ASSUME NEW c \in Client, StartTimer(c) PROVE HandleCreated' /\ TimersLeft'
  <2> DEFINE n == NewTimer
  <2>1. pc[c] = "st_timer" /\ starts' = starts
    BY <1>5 DEF StartTimer
  <2>2. n \in TimerId /\ timers[n] = "none"
    BY <2>1, TimerLeft
  <2>3. /\ Count(Client, pc, BeforeTimer) \in Nat /\ Count(Client, pc', BeforeTimer) \in Nat
        /\ Count(TimerId, timers, Created) \in Nat /\ Count(TimerId, timers', Created) \in Nat
    BY <1>1, CountLess
  <2>4. \A l : pc' = [pc EXCEPT ![c] = l] /\ l \notin BeforeTimer =>
          Count(Client, pc', BeforeTimer) = Count(Client, pc, BeforeTimer) - 1
    <3>1. pc[c] \in BeforeTimer
      BY <2>1 DEF BeforeTimer
    <3>2. ASSUME NEW l, pc' = [pc EXCEPT ![c] = l], l \notin BeforeTimer
          PROVE  Count(Client, pc', BeforeTimer) = Count(Client, pc, BeforeTimer) - 1
      <4>1. pc'[c] = l /\ \A d \in Client \ {c} : pc'[d] = pc[d]
        BY <1>2, <3>2
      <4>2. Count(Client, pc', BeforeTimer) =
              Count(Client, pc, BeforeTimer) + (IF pc'[c] \in BeforeTimer THEN 1 ELSE 0)
                                             - (IF pc[c] \in BeforeTimer THEN 1 ELSE 0)
        BY <1>1, <4>1, CountMoves
      <4> QED
        BY <2>3, <3>1, <3>2, <4>1, <4>2
    <3> QED
      BY <3>2
  <2>5. CASE StartFails(c, task) /\ UNCHANGED timers
    <3>1. PICK l \in {"rs_terminate", "idle"} : pc' = [pc EXCEPT ![c] = l]
      BY <2>5 DEF StartFails
    <3>2. l \notin BeforeTimer
      BY DEF BeforeTimer
    <3>3. Count(Client, pc', BeforeTimer) = Count(Client, pc, BeforeTimer) - 1
      BY <2>4, <3>1, <3>2
    <3>4. task'.timer_handle_ = task.timer_handle_
      BY <2>5 DEF StartFails, Types, TypeOK, Fields
    <3> QED
      BY <1>2, <2>1, <2>3, <2>5, <3>3, <3>4 DEF Types, TimersLeft, HandleCreated
  <2>6. CASE ~(StartFails(c, task) /\ UNCHANGED timers)
    <3>1. /\ task' = [task EXCEPT !.timer_handle_ = n]
          /\ timers' = [timers EXCEPT ![n] = "idle"]
          /\ pc' = [pc EXCEPT ![c] = "st_add"]
      BY <1>5, <2>6 DEF StartTimer
    <3>2. "st_add" \notin BeforeTimer /\ "idle" \in Created /\ "none" \notin Created
      BY DEF BeforeTimer, Created
    <3>3. Count(Client, pc', BeforeTimer) = Count(Client, pc, BeforeTimer) - 1
      BY <2>4, <3>1, <3>2
    <3> HIDE DEF n
    <3>4. Count(TimerId, timers', Created) = Count(TimerId, timers, Created) + 1
      <4>1. timers'[n] = "idle" /\ \A t \in TimerId \ {n} : timers'[t] = timers[t]
        BY <1>2, <2>2, <3>1
      <4> QED
        BY <1>1, <2>2, <2>3, <3>2, <4>1, CountMoves
    <3>5. task'.timer_handle_ = n /\ timers'[n] = "idle"
      BY <1>2, <2>2, <3>1 DEF Types, TypeOK, Fields
    <3> QED
      BY <1>2, <2>1, <2>3, <3>2, <3>3, <3>4, <3>5 DEF Types, TimersLeft, HandleCreated
  <2> QED
    BY <2>5, <2>6
<1>6. CASE \A c \in Client : ~StartClaim(c) /\ ~StartTimer(c)
  <2>1. /\ starts' = starts
        /\ \A t \in TimerId : timers'[t] \in Created => timers[t] \in Created
        /\ \A c \in Client : pc'[c] \in BeforeTimer => pc[c] \in BeforeTimer
        /\ HandleCreated'
    BY <1>6, TimersQuiet
  <2>2. /\ Count(Client, pc', BeforeTimer) <= Count(Client, pc, BeforeTimer)
        /\ Count(Client, pc, BeforeTimer) \in Nat /\ Count(Client, pc', BeforeTimer) \in Nat
    BY <1>1, <2>1, CountLess
  <2>3. /\ Count(TimerId, timers', Created) <= Count(TimerId, timers, Created)
        /\ Count(TimerId, timers, Created) \in Nat /\ Count(TimerId, timers', Created) \in Nat
    BY <1>1, <2>1, CountLess
  <2> QED
    <3>1. Count(TimerId, timers, Created) + Count(Client, pc, BeforeTimer) <= starts
      BY DEF Types, TimersLeft
    <3>2. TimersLeft'
      BY <1>2, <2>1, <2>2, <2>3, <3>1 DEF TimersLeft
    <3> QED
      BY <1>3, <2>1, <3>2 DEF Types
<1> QED
  BY <1>3, <1>4, <1>5, <1>6 DEF Types

\* Types and timers hold in every state, however the object is used.
LEMMA TypesInvariance == Spec => []Types
  BY InitTypes, TypesStep, PTL DEF Spec

\* The fields of a MainLoopTask keep their ranges: no inactive version is made
\* by notify, and no start is without a timer to create.
THEOREM TypeCorrect == Spec => []TypeOK
<1>1. Types => TypeOK
  BY DEF Types
<1> QED
  BY <1>1, TypesInvariance, PTL

-----------------------------------------------------------------------------
(* However the object is used *)

\* The locks are taken once a step has something to do, and every way out of it
\* goes through the release.
LEMMA PmStep == Types /\ PmOnlyInStep /\ [Next]_vars => PmOnlyInStep'
<1> SUFFICES ASSUME Types, PmOnlyInStep, [Next]_vars PROVE PmOnlyInStep'
  OBVIOUS
<1> USE DEF Types, TypeOK, Fields, PmOnlyInStep, UserCode
<1>1. ASSUME NEW c \in Client, StartClaim(c) PROVE PmOnlyInStep'
  BY <1>1 DEF StartClaim
<1>2. ASSUME NEW c \in Client, StartFlags(c) PROVE PmOnlyInStep'
  BY <1>2 DEF StartFlags
<1>3. ASSUME NEW c \in Client, StartVersion(c) PROVE PmOnlyInStep'
  BY <1>3 DEF StartVersion, Activate
<1>4. ASSUME NEW c \in Client, StartInflight(c) PROVE PmOnlyInStep'
  BY <1>4 DEF StartInflight
<1>5. ASSUME NEW c \in Client, StartPm(c) PROVE PmOnlyInStep'
  BY <1>5 DEF StartPm
<1>6. ASSUME NEW c \in Client, StartSem(c) PROVE PmOnlyInStep'
  BY <1>6 DEF StartSem, StartFails
<1>7. ASSUME NEW c \in Client, StartTimer(c) PROVE PmOnlyInStep'
  BY <1>7 DEF StartTimer, StartFails
<1>8. ASSUME NEW c \in Client, StartAdd(c) PROVE PmOnlyInStep'
  BY <1>8 DEF StartAdd, FetchAdd
<1>9. ASSUME NEW c \in Client, StartPush(c) PROVE PmOnlyInStep'
  BY <1>9 DEF StartPush, PushOk, PushFails
<1>10. ASSUME NEW c \in Client, StartUndo(c) PROVE PmOnlyInStep'
  BY <1>10 DEF StartUndo, FetchAdd, StartFails
<1>11. ASSUME NEW c \in Client, NotifyCheck(c) PROVE PmOnlyInStep'
  BY <1>11 DEF NotifyCheck, BeginCall
<1>12. ASSUME NEW c \in Client, StopFlag(c) PROVE PmOnlyInStep'
  BY <1>12 DEF StopFlag, BeginCall
<1>13. ASSUME NEW c \in Client, NotifyClear(c) PROVE PmOnlyInStep'
  BY <1>13 DEF NotifyClear
<1>14. ASSUME NEW c \in Client, NotifyBump(c) PROVE PmOnlyInStep'
  BY <1>14 DEF NotifyBump, Activate
<1>15. ASSUME NEW c \in Client, StopCheck(c) PROVE PmOnlyInStep'
  BY <1>15 DEF StopCheck
<1>16. ASSUME NEW c \in Client, CallTimer(c) PROVE PmOnlyInStep'
  BY <1>16 DEF CallTimer, TimerStop, TimerIs, SetTimer
<1>17. ASSUME NEW c \in Client, CallAdd(c) PROVE PmOnlyInStep'
  BY <1>17 DEF CallAdd, FetchAdd
<1>18. ASSUME NEW c \in Client, CallPush(c) PROVE PmOnlyInStep'
  BY <1>18 DEF CallPush, PushOk, PushFails
<1>19. ASSUME NEW c \in Client, ResetClaim(c) PROVE PmOnlyInStep'
  BY <1>19 DEF ResetClaim
<1>20. ASSUME NEW c \in Client, ResetTerminate(c) PROVE PmOnlyInStep'
  BY <1>20 DEF ResetTerminate
<1>21. ASSUME NEW c \in Client, ResetTimerStop(c) PROVE PmOnlyInStep'
  BY <1>21 DEF ResetTimerStop, TimerStop, TimerIs, SetTimer
<1>22. ASSUME NEW c \in Client, ResetTimerDelete(c) PROVE PmOnlyInStep'
  BY <1>22 DEF ResetTimerDelete, TimerIs, SetTimer
<1>23. ASSUME NEW c \in Client, ResetTimerNull(c) PROVE PmOnlyInStep'
  BY <1>23 DEF ResetTimerNull
<1>24. ASSUME NEW c \in Client, ResetDrain(c) PROVE PmOnlyInStep'
  BY <1>24 DEF ResetDrain
<1>25. ASSUME NEW c \in Client, ResetWait(c) PROVE PmOnlyInStep'
  BY <1>25 DEF ResetWait
<1>26. ASSUME NEW c \in Client, ResetSem(c) PROVE PmOnlyInStep'
  BY <1>26 DEF ResetSem
<1>27. ASSUME NEW c \in Client, ResetPm(c) PROVE PmOnlyInStep'
  BY <1>27 DEF ResetPm
<1>28. ASSUME NEW t \in TimerId, TimerFire(t) PROVE PmOnlyInStep'
  BY <1>28 DEF TimerFire
<1>29. CASE CallbackAdd
  BY <1>29 DEF CallbackAdd, FetchAdd
<1>30. CASE CallbackPush
  BY <1>30 DEF CallbackPush, PushOk, PushFails
<1>31. CASE StepPop
  BY <1>31 DEF StepPop
<1>32. CASE StepLoad
  BY <1>32 DEF StepLoad
<1>33. CASE StepCheck
  BY <1>33 DEF StepCheck, NothingToDo
<1>34. CASE StepAcquire
  BY <1>34 DEF StepAcquire
<1>35. CASE StepChoose
  BY <1>35 DEF StepChoose
<1>36. CASE OnStepReturns
  BY <1>36 DEF OnStepReturns
<1>37. CASE StepRearm
  BY <1>37 DEF StepRearm
<1>38. CASE StepTimerStop
  BY <1>38 DEF StepTimerStop, TimerStop, TimerIs, SetTimer
<1>39. CASE StepTimerStart
  BY <1>39 DEF StepTimerStart, TimerIs, SetTimer
<1>40. CASE OnStopReturns
  BY <1>40 DEF OnStopReturns
<1>41. CASE StepDeactivate
  BY <1>41 DEF StepDeactivate, Deactivated, Exchanged
<1>42. CASE StepRelease
  BY <1>42 DEF StepRelease, Released
<1>43. CASE StepExit
  BY <1>43 DEF StepExit, Decremented, FetchAdd
<1>44. CASE StepGiveCheck
  BY <1>44 DEF StepGiveCheck
<1>45. CASE StepGive
  BY <1>45 DEF StepGive
<1>46. CASE UNCHANGED vars
  BY <1>46 DEF vars
<1> QED
  BY <1>1, <1>2, <1>3, <1>4, <1>5, <1>6, <1>7, <1>8, <1>9, <1>10, <1>11, <1>12, <1>13, <1>14,
     <1>15, <1>16, <1>17, <1>18, <1>19, <1>20, <1>21, <1>22, <1>23, <1>24, <1>25, <1>26,
     <1>27, <1>28, <1>29, <1>30, <1>31, <1>32, <1>33, <1>34, <1>35, <1>36, <1>37, <1>38,
     <1>39, <1>40, <1>41, <1>42, <1>43, <1>44, <1>45, <1>46
     DEF Next, Start, Call, Reset, Step

\* A power-management lock is held only while a step works, however start, notify
\* and reset are called.
THEOREM PmHeldInStep == Spec => []PmOnlyInStep
<1>1. Init => PmOnlyInStep
  BY DEF Init, PmOnlyInStep
<1> QED
  BY <1>1, PmStep, TypesInvariance, PTL DEF Spec

\* The version that on_stop ran for leaves the object at the exchange, or has
\* left it before.
LEMMA StopStep == Types /\ StopInv /\ [Next]_vars => StopInv'
<1> SUFFICES ASSUME Types, StopInv, [Next]_vars PROVE StopInv'
  OBVIOUS
<1> USE DEF Types, TypeOK, Fields, StopInv, UserCode
<1>1. ASSUME NEW c \in Client, StartClaim(c) PROVE StopInv'
  BY <1>1 DEF StartClaim
<1>2. ASSUME NEW c \in Client, StartFlags(c) PROVE StopInv'
  BY <1>2 DEF StartFlags
<1>3. ASSUME NEW c \in Client, StartVersion(c) PROVE StopInv'
  BY <1>3 DEF StartVersion, Activate
<1>4. ASSUME NEW c \in Client, StartInflight(c) PROVE StopInv'
  BY <1>4 DEF StartInflight
<1>5. ASSUME NEW c \in Client, StartPm(c) PROVE StopInv'
  BY <1>5 DEF StartPm
<1>6. ASSUME NEW c \in Client, StartSem(c) PROVE StopInv'
  BY <1>6 DEF StartSem, StartFails
<1>7. ASSUME NEW c \in Client, StartTimer(c) PROVE StopInv'
  BY <1>7 DEF StartTimer, StartFails
<1>8. ASSUME NEW c \in Client, StartAdd(c) PROVE StopInv'
  BY <1>8 DEF StartAdd, FetchAdd
<1>9. ASSUME NEW c \in Client, StartPush(c) PROVE StopInv'
  BY <1>9 DEF StartPush, PushOk, PushFails
<1>10. ASSUME NEW c \in Client, StartUndo(c) PROVE StopInv'
  BY <1>10 DEF StartUndo, FetchAdd, StartFails
<1>11. ASSUME NEW c \in Client, NotifyCheck(c) PROVE StopInv'
  BY <1>11 DEF NotifyCheck, BeginCall
<1>12. ASSUME NEW c \in Client, StopFlag(c) PROVE StopInv'
  BY <1>12 DEF StopFlag, BeginCall
<1>13. ASSUME NEW c \in Client, NotifyClear(c) PROVE StopInv'
  BY <1>13 DEF NotifyClear
<1>14. ASSUME NEW c \in Client, NotifyBump(c) PROVE StopInv'
  BY <1>14 DEF NotifyBump, Activate
<1>15. ASSUME NEW c \in Client, StopCheck(c) PROVE StopInv'
  BY <1>15 DEF StopCheck
<1>16. ASSUME NEW c \in Client, CallTimer(c) PROVE StopInv'
  BY <1>16 DEF CallTimer, TimerStop, TimerIs, SetTimer
<1>17. ASSUME NEW c \in Client, CallAdd(c) PROVE StopInv'
  BY <1>17 DEF CallAdd, FetchAdd
<1>18. ASSUME NEW c \in Client, CallPush(c) PROVE StopInv'
  BY <1>18 DEF CallPush, PushOk, PushFails
<1>19. ASSUME NEW c \in Client, ResetClaim(c) PROVE StopInv'
  BY <1>19 DEF ResetClaim
<1>20. ASSUME NEW c \in Client, ResetTerminate(c) PROVE StopInv'
  BY <1>20 DEF ResetTerminate
<1>21. ASSUME NEW c \in Client, ResetTimerStop(c) PROVE StopInv'
  BY <1>21 DEF ResetTimerStop, TimerStop, TimerIs, SetTimer
<1>22. ASSUME NEW c \in Client, ResetTimerDelete(c) PROVE StopInv'
  BY <1>22 DEF ResetTimerDelete, TimerIs, SetTimer
<1>23. ASSUME NEW c \in Client, ResetTimerNull(c) PROVE StopInv'
  BY <1>23 DEF ResetTimerNull
<1>24. ASSUME NEW c \in Client, ResetDrain(c) PROVE StopInv'
  BY <1>24 DEF ResetDrain
<1>25. ASSUME NEW c \in Client, ResetWait(c) PROVE StopInv'
  BY <1>25 DEF ResetWait
<1>26. ASSUME NEW c \in Client, ResetSem(c) PROVE StopInv'
  BY <1>26 DEF ResetSem
<1>27. ASSUME NEW c \in Client, ResetPm(c) PROVE StopInv'
  BY <1>27 DEF ResetPm
<1>28. ASSUME NEW t \in TimerId, TimerFire(t) PROVE StopInv'
  BY <1>28 DEF TimerFire
<1>29. CASE CallbackAdd
  BY <1>29 DEF CallbackAdd, FetchAdd
<1>30. CASE CallbackPush
  BY <1>30 DEF CallbackPush, PushOk, PushFails
<1>31. CASE StepPop
  BY <1>31 DEF StepPop
<1>32. CASE StepLoad
  BY <1>32 DEF StepLoad
<1>33. CASE StepCheck
  BY <1>33 DEF StepCheck, NothingToDo
<1>34. CASE StepAcquire
  BY <1>34 DEF StepAcquire
<1>35. CASE StepChoose
  BY <1>35 DEF StepChoose
<1>36. CASE OnStepReturns
  BY <1>36 DEF OnStepReturns
<1>37. CASE StepRearm
  BY <1>37 DEF StepRearm
<1>38. CASE StepTimerStop
  BY <1>38 DEF StepTimerStop, TimerStop, TimerIs, SetTimer
<1>39. CASE StepTimerStart
  BY <1>39 DEF StepTimerStart, TimerIs, SetTimer
<1>40. CASE OnStopReturns
  BY <1>40 DEF OnStopReturns
<1>41. CASE StepDeactivate
  BY <1>41 DEF StepDeactivate, Deactivated, Exchanged
<1>42. CASE StepRelease
  BY <1>42 DEF StepRelease, Released
<1>43. CASE StepExit
  BY <1>43 DEF StepExit, Decremented, FetchAdd
<1>44. CASE StepGiveCheck
  BY <1>44 DEF StepGiveCheck
<1>45. CASE StepGive
  BY <1>45 DEF StepGive
<1>46. CASE UNCHANGED vars
  BY <1>46 DEF vars
<1> QED
  BY <1>1, <1>2, <1>3, <1>4, <1>5, <1>6, <1>7, <1>8, <1>9, <1>10, <1>11, <1>12, <1>13, <1>14,
     <1>15, <1>16, <1>17, <1>18, <1>19, <1>20, <1>21, <1>22, <1>23, <1>24, <1>25, <1>26,
     <1>27, <1>28, <1>29, <1>30, <1>31, <1>32, <1>33, <1>34, <1>35, <1>36, <1>37, <1>38,
     <1>39, <1>40, <1>41, <1>42, <1>43, <1>44, <1>45, <1>46
     DEF Next, Start, Call, Reset, Step

\* on_stop runs once for each activation, however start, notify and reset are
\* called: notify's new version and the loop's compare-exchange cannot make it run
\* again for the one it has run for.
THEOREM StopsOnce == Spec => []StopOnce
<1>1. Init => StopInv
  BY DEF Init, StopInv, UserCode
<1>2. StopInv => StopOnce
  BY DEF StopInv, StopOnce, UserCode
<1> QED
  BY <1>1, <1>2, StopStep, TypesInvariance, PTL DEF Spec
-----------------------------------------------------------------------------
(* Who starts and resets, and what can go off *)

\* start claims running_ and runs alone until its timer is created; reset gives
\* running_ up first, and its timer last: nobody else meets a half-made object.
LEMMA UseStep ==
  ASSUME UsedAsMeant, Types, UseInv, [Next]_vars
  PROVE  UseInv'
<1> USE ConfigAssumption DEF Types, TypeOK, Fields, UseInv, UsedAsMeant, UserCode, TimerLive,
        NothingBut, Busy, StartPcs, ResetPcs, Starting
<1>1. ASSUME NEW c \in Client, StartClaim(c) PROVE UseInv'
  BY <1>1 DEF StartClaim, CanCall, Quiescent
<1>2. ASSUME NEW c \in Client, StartFlags(c) PROVE UseInv'
  BY <1>2 DEF StartFlags, CanCall, Quiescent
<1>3. ASSUME NEW c \in Client, StartVersion(c) PROVE UseInv'
  BY <1>3 DEF StartVersion, Activate, CanCall, Quiescent
<1>4. ASSUME NEW c \in Client, StartInflight(c) PROVE UseInv'
  BY <1>4 DEF StartInflight, CanCall, Quiescent
<1>5. ASSUME NEW c \in Client, StartPm(c) PROVE UseInv'
  BY <1>5 DEF StartPm, CanCall, Quiescent
<1>6. ASSUME NEW c \in Client, StartSem(c) PROVE UseInv'
  BY <1>6 DEF StartSem, StartFails, CanCall, Quiescent
<1>7. ASSUME NEW c \in Client, StartTimer(c) PROVE UseInv'
  <2>1. CASE StartFails(c, task) /\ UNCHANGED timers
    BY <1>7, <2>1 DEF StartTimer, StartFails
  <2>2. CASE ~(StartFails(c, task) /\ UNCHANGED timers)
    <3> DEFINE n == NewTimer
    <3>1. /\ pc[c] = "st_timer"
          /\ task' = [task EXCEPT !.timer_handle_ = n]
          /\ timers' = [timers EXCEPT ![n] = "idle"]
          /\ pc' = [pc EXCEPT ![c] = "st_add"]
          /\ UNCHANGED <<callback, queued, step>>
      BY <1>7, <2>2 DEF StartTimer
    <3>2. n \in TimerId /\ n # 0
      BY <3>1, TimerLeft DEF TimerId
    <3> HIDE DEF n
    <3>3. /\ task'.timer_handle_ = n /\ task'.running_ = task.running_
          /\ timers'[n] = "idle" /\ \A t \in TimerId : t # n => timers'[t] = timers[t]
          /\ pc'[c] = "st_add" /\ \A d \in Client : d # c => pc'[d] = pc[d]
      BY <3>1, <3>2
    <3>4. /\ c \in Starters /\ task.running_ /\ queued = 0 /\ step.pc = "idle"
          /\ callback = "idle" /\ \A t \in TimerId : timers[t] # "armed"
          /\ \A d \in Client : d # c => pc[d] = "idle"
      BY <3>1
    <3> QED
      BY <3>1, <3>2, <3>3, <3>4
  <2> QED
    BY <2>1, <2>2
<1>8. ASSUME NEW c \in Client, StartAdd(c) PROVE UseInv'
  BY <1>8 DEF StartAdd, FetchAdd, CanCall, Quiescent
<1>9. ASSUME NEW c \in Client, StartPush(c) PROVE UseInv'
  BY <1>9 DEF StartPush, PushOk, PushFails, CanCall, Quiescent
<1>10. ASSUME NEW c \in Client, StartUndo(c) PROVE UseInv'
  BY <1>10 DEF StartUndo, FetchAdd, StartFails, CanCall, Quiescent
<1>11. ASSUME NEW c \in Client, NotifyCheck(c) PROVE UseInv'
  BY <1>11 DEF NotifyCheck, BeginCall, CanCall, Quiescent
<1>12. ASSUME NEW c \in Client, StopFlag(c) PROVE UseInv'
  BY <1>12 DEF StopFlag, BeginCall, CanCall, Quiescent
<1>13. ASSUME NEW c \in Client, NotifyClear(c) PROVE UseInv'
  BY <1>13 DEF NotifyClear, CanCall, Quiescent
<1>14. ASSUME NEW c \in Client, NotifyBump(c) PROVE UseInv'
  BY <1>14 DEF NotifyBump, Activate, CanCall, Quiescent
<1>15. ASSUME NEW c \in Client, StopCheck(c) PROVE UseInv'
  BY <1>15 DEF StopCheck, CanCall, Quiescent
<1>16. ASSUME NEW c \in Client, CallTimer(c) PROVE UseInv'
  BY <1>16 DEF CallTimer, TimerStop, TimerIs, SetTimer, CanCall, Quiescent
<1>17. ASSUME NEW c \in Client, CallAdd(c) PROVE UseInv'
  BY <1>17 DEF CallAdd, FetchAdd, CanCall, Quiescent
<1>18. ASSUME NEW c \in Client, CallPush(c) PROVE UseInv'
  BY <1>18 DEF CallPush, PushOk, PushFails, CanCall, Quiescent
<1>19. ASSUME NEW c \in Client, ResetClaim(c) PROVE UseInv'
  <2>1. /\ c \in Resetters /\ pc[c] = "idle" /\ (c = Loop => step.pc # "idle")
        /\ task.running_
        /\ task' = [task EXCEPT !.running_ = FALSE]
        /\ pc' = [pc EXCEPT ![c] = "rs_terminate"]
        /\ UNCHANGED <<timers, callback, queued, step>>
    BY <1>19 DEF ResetClaim, CanCall
  <2>2. \A d \in Client : pc[d] \notin ResetPcs
    BY <2>1
  <2>3. \A d \in Client : pc[d] \notin StartPcs
    <3> SUFFICES ASSUME NEW d \in Client, pc[d] \in StartPcs PROVE FALSE
      OBVIOUS
    <3>1. d \in Starters /\ step.pc = "idle"
      OBVIOUS
    <3>2. c # Loop
      BY <2>1, <3>1
    <3>3. c = d
      BY <2>1, <3>1, <3>2 DEF OneOwner
    <3> QED
      BY <2>1, <3>3
  <2>4. \A d \in Client : pc'[d] = IF d = c THEN "rs_terminate" ELSE pc[d]
    BY <2>1
  <2> QED
    BY <2>1, <2>2, <2>3, <2>4
<1>20. ASSUME NEW c \in Client, ResetTerminate(c) PROVE UseInv'
  BY <1>20 DEF ResetTerminate, CanCall, Quiescent
<1>21. ASSUME NEW c \in Client, ResetTimerStop(c) PROVE UseInv'
  BY <1>21 DEF ResetTimerStop, TimerStop, TimerIs, SetTimer, CanCall, Quiescent
<1>22. ASSUME NEW c \in Client, ResetTimerDelete(c) PROVE UseInv'
  BY <1>22 DEF ResetTimerDelete, TimerIs, SetTimer, CanCall, Quiescent
<1>23. ASSUME NEW c \in Client, ResetTimerNull(c) PROVE UseInv'
  BY <1>23 DEF ResetTimerNull, CanCall, Quiescent
<1>24. ASSUME NEW c \in Client, ResetDrain(c) PROVE UseInv'
  BY <1>24 DEF ResetDrain, CanCall, Quiescent
<1>25. ASSUME NEW c \in Client, ResetWait(c) PROVE UseInv'
  BY <1>25 DEF ResetWait, CanCall, Quiescent
<1>26. ASSUME NEW c \in Client, ResetSem(c) PROVE UseInv'
  BY <1>26 DEF ResetSem, CanCall, Quiescent
<1>27. ASSUME NEW c \in Client, ResetPm(c) PROVE UseInv'
  BY <1>27 DEF ResetPm, CanCall, Quiescent
<1>28. ASSUME NEW t \in TimerId, TimerFire(t) PROVE UseInv'
  BY <1>28 DEF TimerFire, CanCall, Quiescent
<1>29. CASE CallbackAdd
  BY <1>29 DEF CallbackAdd, FetchAdd, CanCall, Quiescent
<1>30. CASE CallbackPush
  BY <1>30 DEF CallbackPush, PushOk, PushFails, CanCall, Quiescent
<1>31. CASE StepPop
  BY <1>31 DEF StepPop, CanCall, Quiescent
<1>32. CASE StepLoad
  BY <1>32 DEF StepLoad, CanCall, Quiescent
<1>33. CASE StepCheck
  BY <1>33 DEF StepCheck, NothingToDo, CanCall, Quiescent
<1>34. CASE StepAcquire
  BY <1>34 DEF StepAcquire, CanCall, Quiescent
<1>35. CASE StepChoose
  BY <1>35 DEF StepChoose, CanCall, Quiescent
<1>36. CASE OnStepReturns
  BY <1>36 DEF OnStepReturns, CanCall, Quiescent
<1>37. CASE StepRearm
  BY <1>37 DEF StepRearm, CanCall, Quiescent
<1>38. CASE StepTimerStop
  BY <1>38 DEF StepTimerStop, TimerStop, TimerIs, SetTimer, CanCall, Quiescent
<1>39. CASE StepTimerStart
  BY <1>39 DEF StepTimerStart, TimerIs, SetTimer, CanCall, Quiescent
<1>40. CASE OnStopReturns
  BY <1>40 DEF OnStopReturns, CanCall, Quiescent
<1>41. CASE StepDeactivate
  BY <1>41 DEF StepDeactivate, Deactivated, Exchanged, CanCall, Quiescent
<1>42. CASE StepRelease
  BY <1>42 DEF StepRelease, Released, CanCall, Quiescent
<1>43. CASE StepExit
  BY <1>43 DEF StepExit, Decremented, FetchAdd, CanCall, Quiescent
<1>44. CASE StepGiveCheck
  BY <1>44 DEF StepGiveCheck, CanCall, Quiescent
<1>45. CASE StepGive
  BY <1>45 DEF StepGive, CanCall, Quiescent
<1>46. CASE UNCHANGED vars
  BY <1>46 DEF vars, CanCall, Quiescent
<1> QED
  BY <1>1, <1>2, <1>3, <1>4, <1>5, <1>6, <1>7, <1>8, <1>9, <1>10, <1>11, <1>12, <1>13, <1>14,
     <1>15, <1>16, <1>17, <1>18, <1>19, <1>20, <1>21, <1>22, <1>23, <1>24, <1>25, <1>26,
     <1>27, <1>28, <1>29, <1>30, <1>31, <1>32, <1>33, <1>34, <1>35, <1>36, <1>37, <1>38,
     <1>39, <1>40, <1>41, <1>42, <1>43, <1>44, <1>45, <1>46
     DEF Next, Start, Call, Reset, Step
-----------------------------------------------------------------------------
(* What inflight_count_ counts *)

\* A client that moves changes the counts of places by itself only.
Moved(c) ==
  \A S \in {PushPcs, Ahead, BeforeBump} :
    /\ Count(Client, pc, S) \in Nat /\ Count(Client, pc', S) \in Nat
    /\ Count(Client, pc', S) = Count(Client, pc, S) + (IF pc'[c] \in S THEN 1 ELSE 0)
                                                    - (IF pc[c] \in S THEN 1 ELSE 0)
    /\ pc[c] \in S => Count(Client, pc, S) > 0

\* A client that moves changes a count of clients by one at most.
LEMMA MoveCounts ==
  ASSUME NEW c \in Client, \A d \in Client \ {c} : pc'[d] = pc[d]
  PROVE  Moved(c)
<1>1. IsFiniteSet(Client)
  BY ConfigAssumption
<1> SUFFICES ASSUME NEW S
             PROVE  /\ Count(Client, pc, S) \in Nat /\ Count(Client, pc', S) \in Nat
                    /\ Count(Client, pc', S) = Count(Client, pc, S)
                                               + (IF pc'[c] \in S THEN 1 ELSE 0)
                                               - (IF pc[c] \in S THEN 1 ELSE 0)
                    /\ pc[c] \in S => Count(Client, pc, S) > 0
  BY DEF Moved
<1> QED
  BY <1>1, CountMoves

\* Each step of a client moves that client only.
LEMMA ClientMoves ==
  ASSUME Types, NEW c \in Client,
         \/ StartClaim(c) \/ StartFlags(c) \/ StartVersion(c) \/ StartInflight(c)
         \/ StartPm(c) \/ StartSem(c) \/ StartTimer(c) \/ StartAdd(c)
         \/ StartPush(c) \/ StartUndo(c) \/ NotifyCheck(c) \/ StopFlag(c)
         \/ NotifyClear(c) \/ NotifyBump(c) \/ StopCheck(c) \/ CallTimer(c)
         \/ CallAdd(c) \/ CallPush(c) \/ ResetClaim(c) \/ ResetTerminate(c)
         \/ ResetTimerStop(c) \/ ResetTimerDelete(c) \/ ResetTimerNull(c) \/ ResetDrain(c)
         \/ ResetWait(c) \/ ResetSem(c) \/ ResetPm(c)
  PROVE  Moved(c)
<1> SUFFICES \A e \in Client \ {c} : pc'[e] = pc[e]
  BY MoveCounts
<1> USE DEF Types, TypeOK, Fields
<1>1. CASE StartClaim(c)
  BY <1>1 DEF StartClaim
<1>2. CASE StartFlags(c)
  BY <1>2 DEF StartFlags
<1>3. CASE StartVersion(c)
  BY <1>3 DEF StartVersion, Activate
<1>4. CASE StartInflight(c)
  BY <1>4 DEF StartInflight
<1>5. CASE StartPm(c)
  BY <1>5 DEF StartPm
<1>6. CASE StartSem(c)
  BY <1>6 DEF StartSem, StartFails
<1>7. CASE StartTimer(c)
  BY <1>7 DEF StartTimer, StartFails
<1>8. CASE StartAdd(c)
  BY <1>8 DEF StartAdd, FetchAdd
<1>9. CASE StartPush(c)
  BY <1>9 DEF StartPush, PushOk, PushFails
<1>10. CASE StartUndo(c)
  BY <1>10 DEF StartUndo, FetchAdd, StartFails
<1>11. CASE NotifyCheck(c)
  BY <1>11 DEF NotifyCheck, BeginCall
<1>12. CASE StopFlag(c)
  BY <1>12 DEF StopFlag, BeginCall
<1>13. CASE NotifyClear(c)
  BY <1>13 DEF NotifyClear
<1>14. CASE NotifyBump(c)
  BY <1>14 DEF NotifyBump, Activate
<1>15. CASE StopCheck(c)
  BY <1>15 DEF StopCheck
<1>16. CASE CallTimer(c)
  BY <1>16 DEF CallTimer, TimerStop, TimerIs, SetTimer
<1>17. CASE CallAdd(c)
  BY <1>17 DEF CallAdd, FetchAdd
<1>18. CASE CallPush(c)
  BY <1>18 DEF CallPush, PushOk, PushFails
<1>19. CASE ResetClaim(c)
  BY <1>19 DEF ResetClaim
<1>20. CASE ResetTerminate(c)
  BY <1>20 DEF ResetTerminate
<1>21. CASE ResetTimerStop(c)
  BY <1>21 DEF ResetTimerStop, TimerStop, TimerIs, SetTimer
<1>22. CASE ResetTimerDelete(c)
  BY <1>22 DEF ResetTimerDelete, TimerIs, SetTimer
<1>23. CASE ResetTimerNull(c)
  BY <1>23 DEF ResetTimerNull
<1>24. CASE ResetDrain(c)
  BY <1>24 DEF ResetDrain
<1>25. CASE ResetWait(c)
  BY <1>25 DEF ResetWait
<1>26. CASE ResetSem(c)
  BY <1>26 DEF ResetSem
<1>27. CASE ResetPm(c)
  BY <1>27 DEF ResetPm
<1> QED
  BY <1>1, <1>2, <1>3, <1>4, <1>5, <1>6, <1>7, <1>8, <1>9, <1>10, <1>11, <1>12, <1>13,
     <1>14, <1>15, <1>16, <1>17, <1>18, <1>19, <1>20, <1>21, <1>22, <1>23, <1>24, <1>25,
     <1>26, <1>27

\* There are finitely many clients to count.
LEMMA CountIsNat == \A S : Count(Client, pc, S) \in Nat
<1>1. IsFiniteSet(Client)
  BY ConfigAssumption
<1> QED
  BY <1>1, CountLess

\* No step is in flight when start clears the count, and no step is taken off the
\* count that is not on it.
LEMMA CoverStep ==
  ASSUME UsedAsMeant, RoomToCount, Types, UseInv, CoverInv, BudgetInv, [Next]_vars
  PROVE  CoverInv' /\ BudgetInv'
<1> DEFINE Goal == CoverInv' /\ BudgetInv'
<1> USE ConfigAssumption DEF Types, TypeOK, Fields, CoverInv, BudgetInv, RoomToCount, InFlight,
        Executing, ToCount
<1>1. ASSUME NEW c \in Client, StartClaim(c) PROVE Goal
  <2>1. Moved(c)
    BY <1>1, ClientMoves
  <2> QED
    BY <1>1, <2>1 DEF StartClaim, Moved, PushPcs, Ahead, BeforeTimer, UserCode
<1>2. ASSUME NEW c \in Client, StartFlags(c) PROVE Goal
  <2>1. Moved(c)
    BY <1>2, ClientMoves
  <2> QED
    BY <1>2, <2>1 DEF StartFlags, Moved, PushPcs, Ahead, BeforeTimer, UserCode
<1>3. ASSUME NEW c \in Client, StartVersion(c) PROVE Goal
  <2>1. Moved(c)
    BY <1>3, ClientMoves
  <2> QED
    BY <1>3, <2>1 DEF StartVersion, Activate, Moved, PushPcs, Ahead, BeforeTimer, UserCode
<1>4. ASSUME NEW c \in Client, StartInflight(c) PROVE Goal
  <2>1. Moved(c)
    BY <1>4, ClientMoves
  <2> QED
    <3>1. /\ queued = 0 /\ step.pc = "idle" /\ callback = "idle"
          /\ \A d \in Client : d # c => pc[d] = "idle"
      BY <1>4 DEF StartInflight, UseInv, NothingBut, StartPcs
    <3>2. /\ pc[c] = "st_inflight" /\ pc' = [pc EXCEPT ![c] = "st_pm"]
          /\ task'.inflight_count_ = 0
          /\ UNCHANGED <<timers, callback, queued, step, starts, calls>>
      BY <1>4 DEF StartInflight
    <3>3. Count(Client, pc', PushPcs) = 0
      <4>1. \A d \in Client : pc'[d] \notin PushPcs
        BY <3>1, <3>2 DEF PushPcs
      <4> QED
        BY <4>1, CountNone
    <3>4. Count(Client, pc', Ahead) = Count(Client, pc, Ahead) /\ Count(Client, pc, Ahead) \in Nat
      BY <2>1, <3>2 DEF Moved, Ahead, BeforeTimer
    <3>5. CoverInv'
      BY <3>1, <3>2, <3>3
    <3>6. BudgetInv'
      BY <3>1, <3>2, <3>4
    <3> QED
      BY <3>5, <3>6
<1>5. ASSUME NEW c \in Client, StartPm(c) PROVE Goal
  <2>1. Moved(c)
    BY <1>5, ClientMoves
  <2> QED
    BY <1>5, <2>1 DEF StartPm, Moved, PushPcs, Ahead, BeforeTimer, UserCode
<1>6. ASSUME NEW c \in Client, StartSem(c) PROVE Goal
  <2>1. Moved(c)
    BY <1>6, ClientMoves
  <2> QED
    BY <1>6, <2>1 DEF StartSem, StartFails, Moved, PushPcs, Ahead, BeforeTimer, UserCode
<1>7. ASSUME NEW c \in Client, StartTimer(c) PROVE Goal
  <2>1. Moved(c)
    BY <1>7, ClientMoves
  <2> QED
    BY <1>7, <2>1 DEF StartTimer, StartFails, Moved, PushPcs, Ahead, BeforeTimer, UserCode
<1>8. ASSUME NEW c \in Client, StartAdd(c) PROVE Goal
  <2>1. Moved(c)
    BY <1>8, ClientMoves
  <2> QED
    BY <1>8, <2>1 DEF StartAdd, FetchAdd, Moved, PushPcs, Ahead, BeforeTimer, UserCode
<1>9. ASSUME NEW c \in Client, StartPush(c) PROVE Goal
  <2>1. Moved(c)
    BY <1>9, ClientMoves
  <2> QED
    BY <1>9, <2>1 DEF StartPush, PushOk, PushFails, Moved, PushPcs, Ahead, BeforeTimer, UserCode
<1>10. ASSUME NEW c \in Client, StartUndo(c) PROVE Goal
  <2>1. Moved(c)
    BY <1>10, ClientMoves
  <2> QED
    BY <1>10, <2>1 DEF StartUndo, FetchAdd, StartFails, Moved, PushPcs, Ahead, BeforeTimer, UserCode
<1>11. ASSUME NEW c \in Client, NotifyCheck(c) PROVE Goal
  <2>1. Moved(c)
    BY <1>11, ClientMoves
  <2> QED
    BY <1>11, <2>1 DEF NotifyCheck, BeginCall, Moved, PushPcs, Ahead, BeforeTimer, UserCode
<1>12. ASSUME NEW c \in Client, StopFlag(c) PROVE Goal
  <2>1. Moved(c)
    BY <1>12, ClientMoves
  <2> QED
    BY <1>12, <2>1 DEF StopFlag, BeginCall, Moved, PushPcs, Ahead, BeforeTimer, UserCode
<1>13. ASSUME NEW c \in Client, NotifyClear(c) PROVE Goal
  <2>1. Moved(c)
    BY <1>13, ClientMoves
  <2> QED
    BY <1>13, <2>1 DEF NotifyClear, Moved, PushPcs, Ahead, BeforeTimer, UserCode
<1>14. ASSUME NEW c \in Client, NotifyBump(c) PROVE Goal
  <2>1. Moved(c)
    BY <1>14, ClientMoves
  <2> QED
    BY <1>14, <2>1 DEF NotifyBump, Activate, Moved, PushPcs, Ahead, BeforeTimer, UserCode
<1>15. ASSUME NEW c \in Client, StopCheck(c) PROVE Goal
  <2>1. Moved(c)
    BY <1>15, ClientMoves
  <2> QED
    BY <1>15, <2>1 DEF StopCheck, Moved, PushPcs, Ahead, BeforeTimer, UserCode
<1>16. ASSUME NEW c \in Client, CallTimer(c) PROVE Goal
  <2>1. Moved(c)
    BY <1>16, ClientMoves
  <2> QED
    BY <1>16, <2>1 DEF CallTimer, TimerStop, TimerIs, SetTimer, Moved, PushPcs, Ahead, BeforeTimer, UserCode
<1>17. ASSUME NEW c \in Client, CallAdd(c) PROVE Goal
  <2>1. Moved(c)
    BY <1>17, ClientMoves
  <2> QED
    BY <1>17, <2>1 DEF CallAdd, FetchAdd, Moved, PushPcs, Ahead, BeforeTimer, UserCode
<1>18. ASSUME NEW c \in Client, CallPush(c) PROVE Goal
  <2>1. Moved(c)
    BY <1>18, ClientMoves
  <2> QED
    BY <1>18, <2>1 DEF CallPush, PushOk, PushFails, Moved, PushPcs, Ahead, BeforeTimer, UserCode
<1>19. ASSUME NEW c \in Client, ResetClaim(c) PROVE Goal
  <2>1. Moved(c)
    BY <1>19, ClientMoves
  <2> QED
    BY <1>19, <2>1 DEF ResetClaim, Moved, PushPcs, Ahead, BeforeTimer, UserCode
<1>20. ASSUME NEW c \in Client, ResetTerminate(c) PROVE Goal
  <2>1. Moved(c)
    BY <1>20, ClientMoves
  <2> QED
    BY <1>20, <2>1 DEF ResetTerminate, Moved, PushPcs, Ahead, BeforeTimer, UserCode
<1>21. ASSUME NEW c \in Client, ResetTimerStop(c) PROVE Goal
  <2>1. Moved(c)
    BY <1>21, ClientMoves
  <2> QED
    BY <1>21, <2>1 DEF ResetTimerStop, TimerStop, TimerIs, SetTimer, Moved, PushPcs, Ahead, BeforeTimer, UserCode
<1>22. ASSUME NEW c \in Client, ResetTimerDelete(c) PROVE Goal
  <2>1. Moved(c)
    BY <1>22, ClientMoves
  <2> QED
    BY <1>22, <2>1 DEF ResetTimerDelete, TimerIs, SetTimer, Moved, PushPcs, Ahead, BeforeTimer, UserCode
<1>23. ASSUME NEW c \in Client, ResetTimerNull(c) PROVE Goal
  <2>1. Moved(c)
    BY <1>23, ClientMoves
  <2> QED
    BY <1>23, <2>1 DEF ResetTimerNull, Moved, PushPcs, Ahead, BeforeTimer, UserCode
<1>24. ASSUME NEW c \in Client, ResetDrain(c) PROVE Goal
  <2>1. Moved(c)
    BY <1>24, ClientMoves
  <2> QED
    BY <1>24, <2>1 DEF ResetDrain, Moved, PushPcs, Ahead, BeforeTimer, UserCode
<1>25. ASSUME NEW c \in Client, ResetWait(c) PROVE Goal
  <2>1. Moved(c)
    BY <1>25, ClientMoves
  <2> QED
    BY <1>25, <2>1 DEF ResetWait, Moved, PushPcs, Ahead, BeforeTimer, UserCode
<1>26. ASSUME NEW c \in Client, ResetSem(c) PROVE Goal
  <2>1. Moved(c)
    BY <1>26, ClientMoves
  <2> QED
    BY <1>26, <2>1 DEF ResetSem, Moved, PushPcs, Ahead, BeforeTimer, UserCode
<1>27. ASSUME NEW c \in Client, ResetPm(c) PROVE Goal
  <2>1. Moved(c)
    BY <1>27, ClientMoves
  <2> QED
    BY <1>27, <2>1 DEF ResetPm, Moved, PushPcs, Ahead, BeforeTimer, UserCode
<1>28. ASSUME NEW t \in TimerId, TimerFire(t) PROVE Goal
  <2>1. \A u \in TimerId : timers'[u] # "armed"
    BY <1>28 DEF TimerFire, UseInv
  <2> QED
    BY <1>28, <2>1, CountIsNat DEF TimerFire, UserCode
<1>29. CASE CallbackAdd
  BY <1>29, CountIsNat DEF CallbackAdd, FetchAdd, UserCode
<1>30. CASE CallbackPush
  BY <1>30, CountIsNat DEF CallbackPush, PushOk, PushFails, UserCode
<1>31. CASE StepPop
  BY <1>31, CountIsNat DEF StepPop, UserCode
<1>32. CASE StepLoad
  BY <1>32, CountIsNat DEF StepLoad, UserCode
<1>33. CASE StepCheck
  BY <1>33, CountIsNat DEF StepCheck, NothingToDo, UserCode
<1>34. CASE StepAcquire
  BY <1>34, CountIsNat DEF StepAcquire, UserCode
<1>35. CASE StepChoose
  BY <1>35, CountIsNat DEF StepChoose, UserCode
<1>36. CASE OnStepReturns
  BY <1>36, CountIsNat DEF OnStepReturns, UserCode
<1>37. CASE StepRearm
  BY <1>37, CountIsNat DEF StepRearm, UserCode
<1>38. CASE StepTimerStop
  BY <1>38, CountIsNat DEF StepTimerStop, TimerStop, TimerIs, SetTimer, UserCode
<1>39. CASE StepTimerStart
  BY <1>39, CountIsNat DEF StepTimerStart, TimerIs, SetTimer, UserCode
<1>40. CASE OnStopReturns
  BY <1>40, CountIsNat DEF OnStopReturns, UserCode
<1>41. CASE StepDeactivate
  BY <1>41, CountIsNat DEF StepDeactivate, Deactivated, Exchanged, UserCode
<1>42. CASE StepRelease
  BY <1>42, CountIsNat DEF StepRelease, Released, UserCode
<1>43. CASE StepExit
  BY <1>43, CountIsNat DEF StepExit, Decremented, FetchAdd, UserCode
<1>44. CASE StepGiveCheck
  BY <1>44, CountIsNat DEF StepGiveCheck, UserCode
<1>45. CASE StepGive
  BY <1>45, CountIsNat DEF StepGive, UserCode
<1>46. CASE UNCHANGED vars
  BY <1>46, CountIsNat DEF vars, UserCode
<1> QED
  BY <1>1, <1>2, <1>3, <1>4, <1>5, <1>6, <1>7, <1>8, <1>9, <1>10, <1>11, <1>12, <1>13, <1>14,
     <1>15, <1>16, <1>17, <1>18, <1>19, <1>20, <1>21, <1>22, <1>23, <1>24, <1>25, <1>26,
     <1>27, <1>28, <1>29, <1>30, <1>31, <1>32, <1>33, <1>34, <1>35, <1>36, <1>37, <1>38,
     <1>39, <1>40, <1>41, <1>42, <1>43, <1>44, <1>45, <1>46
     DEF Next, Start, Call, Reset, Step

\* A counter that does not reach its modulus does not wrap.
LEMMA ModSmall ==
  ASSUME NEW n \in Nat \ {0}, NEW k \in 0..(n - 1)
  PROVE  (k % n) = k
  OBVIOUS

\* When the queue never fills up, no step that is counted is missing from it.
LEMMA ExactStep ==
  ASSUME UsedAsMeant, RoomToCount, RoomToPush, Types, UseInv, ExactInv, BudgetInv, [Next]_vars
  PROVE  ExactInv'
<1> USE ConfigAssumption DEF Types, TypeOK, Fields, ExactInv, BudgetInv, RoomToCount, RoomToPush,
        InFlight, Executing, ToCount
<1>1. ASSUME NEW c \in Client, StartClaim(c) PROVE ExactInv'
  <2>1. Moved(c)
    BY <1>1, ClientMoves
  <2> QED
    BY <1>1, <2>1 DEF StartClaim, CanCall, Moved, PushPcs, Ahead, BeforeTimer, UserCode
<1>2. ASSUME NEW c \in Client, StartFlags(c) PROVE ExactInv'
  <2>1. Moved(c)
    BY <1>2, ClientMoves
  <2> QED
    BY <1>2, <2>1 DEF StartFlags, Moved, PushPcs, Ahead, BeforeTimer, UserCode
<1>3. ASSUME NEW c \in Client, StartVersion(c) PROVE ExactInv'
  <2>1. Moved(c)
    BY <1>3, ClientMoves
  <2> QED
    BY <1>3, <2>1 DEF StartVersion, Activate, Moved, PushPcs, Ahead, BeforeTimer, UserCode
<1>4. ASSUME NEW c \in Client, StartInflight(c) PROVE ExactInv'
  <2>1. /\ queued = 0 /\ step.pc = "idle" /\ callback = "idle"
        /\ \A d \in Client : d # c => pc[d] = "idle"
    BY <1>4 DEF StartInflight, UseInv, NothingBut, StartPcs
  <2>2. /\ pc' = [pc EXCEPT ![c] = "st_pm"] /\ task'.inflight_count_ = 0
        /\ UNCHANGED <<callback, queued, step>>
    BY <1>4 DEF StartInflight
  <2>3. Count(Client, pc', PushPcs) = 0
    <3>1. \A d \in Client : pc'[d] \notin PushPcs
      BY <2>1, <2>2 DEF PushPcs
    <3> QED
      BY <3>1, CountNone
  <2> QED
    BY <2>1, <2>2, <2>3
<1>5. ASSUME NEW c \in Client, StartPm(c) PROVE ExactInv'
  <2>1. Moved(c)
    BY <1>5, ClientMoves
  <2> QED
    BY <1>5, <2>1 DEF StartPm, Moved, PushPcs, Ahead, BeforeTimer, UserCode
<1>6. ASSUME NEW c \in Client, StartSem(c) PROVE ExactInv'
  <2>1. Moved(c)
    BY <1>6, ClientMoves
  <2> QED
    BY <1>6, <2>1 DEF StartSem, StartFails, Moved, PushPcs, Ahead, BeforeTimer, UserCode
<1>7. ASSUME NEW c \in Client, StartTimer(c) PROVE ExactInv'
  <2>1. Moved(c)
    BY <1>7, ClientMoves
  <2> QED
    BY <1>7, <2>1 DEF StartTimer, StartFails, Moved, PushPcs, Ahead, BeforeTimer, UserCode
<1>8. ASSUME NEW c \in Client, StartAdd(c) PROVE ExactInv'
  <2>1. Moved(c)
    BY <1>8, ClientMoves
  <2> QED
    BY <1>8, <2>1 DEF StartAdd, FetchAdd, Moved, PushPcs, Ahead, BeforeTimer, UserCode
<1>9. ASSUME NEW c \in Client, StartPush(c) PROVE ExactInv'
  <2>1. Moved(c)
    BY <1>9, ClientMoves
  <2> QED
    BY <1>9, <2>1 DEF StartPush, PushOk, PushFails, Moved, PushPcs, Ahead, BeforeTimer, UserCode
<1>10. ASSUME NEW c \in Client, StartUndo(c) PROVE ExactInv'
  <2>1. Moved(c)
    BY <1>10, ClientMoves
  <2> QED
    BY <1>10, <2>1 DEF StartUndo, FetchAdd, StartFails, Moved, PushPcs, Ahead, BeforeTimer, UserCode
<1>11. ASSUME NEW c \in Client, NotifyCheck(c) PROVE ExactInv'
  <2>1. Moved(c)
    BY <1>11, ClientMoves
  <2> QED
    BY <1>11, <2>1 DEF NotifyCheck, BeginCall, CanCall, Moved, PushPcs, Ahead, BeforeTimer, UserCode
<1>12. ASSUME NEW c \in Client, StopFlag(c) PROVE ExactInv'
  <2>1. Moved(c)
    BY <1>12, ClientMoves
  <2> QED
    BY <1>12, <2>1 DEF StopFlag, BeginCall, CanCall, Moved, PushPcs, Ahead, BeforeTimer, UserCode
<1>13. ASSUME NEW c \in Client, NotifyClear(c) PROVE ExactInv'
  <2>1. Moved(c)
    BY <1>13, ClientMoves
  <2> QED
    BY <1>13, <2>1 DEF NotifyClear, Moved, PushPcs, Ahead, BeforeTimer, UserCode
<1>14. ASSUME NEW c \in Client, NotifyBump(c) PROVE ExactInv'
  <2>1. Moved(c)
    BY <1>14, ClientMoves
  <2> QED
    BY <1>14, <2>1 DEF NotifyBump, Activate, Moved, PushPcs, Ahead, BeforeTimer, UserCode
<1>15. ASSUME NEW c \in Client, StopCheck(c) PROVE ExactInv'
  <2>1. Moved(c)
    BY <1>15, ClientMoves
  <2> QED
    BY <1>15, <2>1 DEF StopCheck, Moved, PushPcs, Ahead, BeforeTimer, UserCode
<1>16. ASSUME NEW c \in Client, CallTimer(c) PROVE ExactInv'
  <2>1. Moved(c)
    BY <1>16, ClientMoves
  <2> QED
    BY <1>16, <2>1 DEF CallTimer, TimerStop, TimerIs, SetTimer, Moved, PushPcs, Ahead, BeforeTimer, UserCode
<1>17. ASSUME NEW c \in Client, CallAdd(c) PROVE ExactInv'
  <2>1. Moved(c)
    BY <1>17, ClientMoves
  <2> QED
    <3>1. pc[c] = "add" /\ pc'[c] = "push" /\ UNCHANGED <<callback, queued, step>>
      BY <1>17 DEF CallAdd
    <3>2. /\ Count(Client, pc', PushPcs) = Count(Client, pc, PushPcs) + 1
          /\ Count(Client, pc, PushPcs) \in Nat
      BY <2>1, <3>1 DEF Moved, PushPcs
    <3>3. Count(Client, pc, Ahead) > 0 /\ Count(Client, pc, Ahead) \in Nat
      BY <2>1, <3>1 DEF Moved, Ahead
    <3>4. task.inflight_count_ + 1 < CounterModulus
      BY <3>3
    <3>5. task'.inflight_count_ = task.inflight_count_ + 1
      <4>1. task'.inflight_count_ = (task.inflight_count_ + 1) % CounterModulus
        BY <1>17 DEF CallAdd, FetchAdd
      <4>2. task.inflight_count_ + 1 \in 0..(CounterModulus - 1)
        BY <3>4
      <4> QED
        BY <4>1, <4>2, ModSmall
    <3> QED
      BY <3>1, <3>2, <3>5
<1>18. ASSUME NEW c \in Client, CallPush(c) PROVE ExactInv'
  <2>1. Moved(c)
    BY <1>18, ClientMoves
  <2> QED
    BY <1>18, <2>1 DEF CallPush, PushOk, PushFails, Moved, PushPcs, Ahead, BeforeTimer, UserCode
<1>19. ASSUME NEW c \in Client, ResetClaim(c) PROVE ExactInv'
  <2>1. Moved(c)
    BY <1>19, ClientMoves
  <2> QED
    BY <1>19, <2>1 DEF ResetClaim, CanCall, Moved, PushPcs, Ahead, BeforeTimer, UserCode
<1>20. ASSUME NEW c \in Client, ResetTerminate(c) PROVE ExactInv'
  <2>1. Moved(c)
    BY <1>20, ClientMoves
  <2> QED
    BY <1>20, <2>1 DEF ResetTerminate, Moved, PushPcs, Ahead, BeforeTimer, UserCode
<1>21. ASSUME NEW c \in Client, ResetTimerStop(c) PROVE ExactInv'
  <2>1. Moved(c)
    BY <1>21, ClientMoves
  <2> QED
    BY <1>21, <2>1 DEF ResetTimerStop, TimerStop, TimerIs, SetTimer, Moved, PushPcs, Ahead, BeforeTimer, UserCode
<1>22. ASSUME NEW c \in Client, ResetTimerDelete(c) PROVE ExactInv'
  <2>1. Moved(c)
    BY <1>22, ClientMoves
  <2> QED
    BY <1>22, <2>1 DEF ResetTimerDelete, TimerIs, SetTimer, Moved, PushPcs, Ahead, BeforeTimer, UserCode
<1>23. ASSUME NEW c \in Client, ResetTimerNull(c) PROVE ExactInv'
  <2>1. Moved(c)
    BY <1>23, ClientMoves
  <2> QED
    BY <1>23, <2>1 DEF ResetTimerNull, Moved, PushPcs, Ahead, BeforeTimer, UserCode
<1>24. ASSUME NEW c \in Client, ResetDrain(c) PROVE ExactInv'
  <2>1. Moved(c)
    BY <1>24, ClientMoves
  <2> QED
    BY <1>24, <2>1 DEF ResetDrain, Moved, PushPcs, Ahead, BeforeTimer, UserCode
<1>25. ASSUME NEW c \in Client, ResetWait(c) PROVE ExactInv'
  <2>1. Moved(c)
    BY <1>25, ClientMoves
  <2> QED
    BY <1>25, <2>1 DEF ResetWait, Moved, PushPcs, Ahead, BeforeTimer, UserCode
<1>26. ASSUME NEW c \in Client, ResetSem(c) PROVE ExactInv'
  <2>1. Moved(c)
    BY <1>26, ClientMoves
  <2> QED
    BY <1>26, <2>1 DEF ResetSem, Moved, PushPcs, Ahead, BeforeTimer, UserCode
<1>27. ASSUME NEW c \in Client, ResetPm(c) PROVE ExactInv'
  <2>1. Moved(c)
    BY <1>27, ClientMoves
  <2> QED
    BY <1>27, <2>1 DEF ResetPm, Moved, PushPcs, Ahead, BeforeTimer, UserCode
<1>28. ASSUME NEW t \in TimerId, TimerFire(t) PROVE ExactInv'
  BY <1>28, CountIsNat DEF TimerFire, UserCode
<1>29. CASE CallbackAdd
  BY <1>29, CountIsNat DEF CallbackAdd, FetchAdd, UserCode
<1>30. CASE CallbackPush
  BY <1>30, CountIsNat DEF CallbackPush, PushOk, PushFails, UserCode
<1>31. CASE StepPop
  BY <1>31, CountIsNat DEF StepPop, UserCode
<1>32. CASE StepLoad
  BY <1>32, CountIsNat DEF StepLoad, UserCode
<1>33. CASE StepCheck
  BY <1>33, CountIsNat DEF StepCheck, NothingToDo, UserCode
<1>34. CASE StepAcquire
  BY <1>34, CountIsNat DEF StepAcquire, UserCode
<1>35. CASE StepChoose
  BY <1>35, CountIsNat DEF StepChoose, UserCode
<1>36. CASE OnStepReturns
  BY <1>36, CountIsNat DEF OnStepReturns, UserCode
<1>37. CASE StepRearm
  BY <1>37, CountIsNat DEF StepRearm, UserCode
<1>38. CASE StepTimerStop
  BY <1>38, CountIsNat DEF StepTimerStop, TimerStop, TimerIs, SetTimer, UserCode
<1>39. CASE StepTimerStart
  BY <1>39, CountIsNat DEF StepTimerStart, TimerIs, SetTimer, UserCode
<1>40. CASE OnStopReturns
  BY <1>40, CountIsNat DEF OnStopReturns, UserCode
<1>41. CASE StepDeactivate
  BY <1>41, CountIsNat DEF StepDeactivate, Deactivated, Exchanged, UserCode
<1>42. CASE StepRelease
  BY <1>42, CountIsNat DEF StepRelease, Released, UserCode
<1>43. CASE StepExit
  <2>1. step.pc = "exit" /\ step'.pc \in {"give_check", "idle"}
        /\ UNCHANGED <<callback, queued, pc>>
    BY <1>43 DEF StepExit, Decremented
  <2>2. task.inflight_count_ >= 1
    BY <2>1, CountIsNat
  <2>3. task'.inflight_count_ = task.inflight_count_ - 1
    <3>1. task'.inflight_count_ = (task.inflight_count_ + -1) % CounterModulus
      BY <1>43 DEF StepExit, Decremented, FetchAdd
    <3>2. task.inflight_count_ + -1 \in 0..(CounterModulus - 1)
      BY <2>2
    <3> QED
      BY <3>1, <3>2, ModSmall
  <2> QED
    BY <2>1, <2>3, CountIsNat
<1>44. CASE StepGiveCheck
  BY <1>44, CountIsNat DEF StepGiveCheck, UserCode
<1>45. CASE StepGive
  BY <1>45, CountIsNat DEF StepGive, UserCode
<1>46. CASE UNCHANGED vars
  BY <1>46, CountIsNat DEF vars, UserCode
<1> QED
  BY <1>1, <1>2, <1>3, <1>4, <1>5, <1>6, <1>7, <1>8, <1>9, <1>10, <1>11, <1>12, <1>13, <1>14,
     <1>15, <1>16, <1>17, <1>18, <1>19, <1>20, <1>21, <1>22, <1>23, <1>24, <1>25, <1>26,
     <1>27, <1>28, <1>29, <1>30, <1>31, <1>32, <1>33, <1>34, <1>35, <1>36, <1>37, <1>38,
     <1>39, <1>40, <1>41, <1>42, <1>43, <1>44, <1>45, <1>46
     DEF Next, Start, Call, Reset, Step

-----------------------------------------------------------------------------
(* What reset waits for *)

\* join_sem_ is created by start before anything can run, and deleted by reset
\* behind everything it waits for.
LEMMA SemStep ==
  ASSUME UsedAsMeant, Types, UseInv, SemInv, [Next]_vars
  PROVE  SemInv'
<1> USE ConfigAssumption DEF Types, TypeOK, Fields, SemInv, StartPcs, ResetPcs, CallPcs, Starting,
        UsedAsMeant, UseInv, Busy
<1>1. ASSUME NEW c \in Client, StartClaim(c) PROVE SemInv'
  BY <1>1 DEF StartClaim, CanCall, Quiescent
<1>2. ASSUME NEW c \in Client, StartFlags(c) PROVE SemInv'
  BY <1>2 DEF StartFlags, CanCall, Quiescent
<1>3. ASSUME NEW c \in Client, StartVersion(c) PROVE SemInv'
  BY <1>3 DEF StartVersion, Activate, CanCall, Quiescent
<1>4. ASSUME NEW c \in Client, StartInflight(c) PROVE SemInv'
  BY <1>4 DEF StartInflight, CanCall, Quiescent
<1>5. ASSUME NEW c \in Client, StartPm(c) PROVE SemInv'
  BY <1>5 DEF StartPm, CanCall, Quiescent
<1>6. ASSUME NEW c \in Client, StartSem(c) PROVE SemInv'
  BY <1>6 DEF StartSem, StartFails, CanCall, Quiescent
<1>7. ASSUME NEW c \in Client, StartTimer(c) PROVE SemInv'
  BY <1>7 DEF StartTimer, StartFails, CanCall, Quiescent
<1>8. ASSUME NEW c \in Client, StartAdd(c) PROVE SemInv'
  BY <1>8 DEF StartAdd, FetchAdd, CanCall, Quiescent
<1>9. ASSUME NEW c \in Client, StartPush(c) PROVE SemInv'
  BY <1>9 DEF StartPush, PushOk, PushFails, CanCall, Quiescent
<1>10. ASSUME NEW c \in Client, StartUndo(c) PROVE SemInv'
  BY <1>10 DEF StartUndo, FetchAdd, StartFails, CanCall, Quiescent
<1>11. ASSUME NEW c \in Client, NotifyCheck(c) PROVE SemInv'
  BY <1>11 DEF NotifyCheck, BeginCall, CanCall, Quiescent
<1>12. ASSUME NEW c \in Client, StopFlag(c) PROVE SemInv'
  BY <1>12 DEF StopFlag, BeginCall, CanCall, Quiescent
<1>13. ASSUME NEW c \in Client, NotifyClear(c) PROVE SemInv'
  BY <1>13 DEF NotifyClear, CanCall, Quiescent
<1>14. ASSUME NEW c \in Client, NotifyBump(c) PROVE SemInv'
  BY <1>14 DEF NotifyBump, Activate, CanCall, Quiescent
<1>15. ASSUME NEW c \in Client, StopCheck(c) PROVE SemInv'
  BY <1>15 DEF StopCheck, CanCall, Quiescent
<1>16. ASSUME NEW c \in Client, CallTimer(c) PROVE SemInv'
  BY <1>16 DEF CallTimer, TimerStop, TimerIs, SetTimer, CanCall, Quiescent
<1>17. ASSUME NEW c \in Client, CallAdd(c) PROVE SemInv'
  BY <1>17 DEF CallAdd, FetchAdd, CanCall, Quiescent
<1>18. ASSUME NEW c \in Client, CallPush(c) PROVE SemInv'
  BY <1>18 DEF CallPush, PushOk, PushFails, CanCall, Quiescent
<1>19. ASSUME NEW c \in Client, ResetClaim(c) PROVE SemInv'
  BY <1>19 DEF ResetClaim, CanCall, Quiescent
<1>20. ASSUME NEW c \in Client, ResetTerminate(c) PROVE SemInv'
  BY <1>20 DEF ResetTerminate, CanCall, Quiescent
<1>21. ASSUME NEW c \in Client, ResetTimerStop(c) PROVE SemInv'
  BY <1>21 DEF ResetTimerStop, TimerStop, TimerIs, SetTimer, CanCall, Quiescent
<1>22. ASSUME NEW c \in Client, ResetTimerDelete(c) PROVE SemInv'
  BY <1>22 DEF ResetTimerDelete, TimerIs, SetTimer, CanCall, Quiescent
<1>23. ASSUME NEW c \in Client, ResetTimerNull(c) PROVE SemInv'
  BY <1>23 DEF ResetTimerNull, CanCall, Quiescent
<1>24. ASSUME NEW c \in Client, ResetDrain(c) PROVE SemInv'
  BY <1>24 DEF ResetDrain, CanCall, Quiescent
<1>25. ASSUME NEW c \in Client, ResetWait(c) PROVE SemInv'
  BY <1>25 DEF ResetWait, CanCall, Quiescent
<1>26. ASSUME NEW c \in Client, ResetSem(c) PROVE SemInv'
  BY <1>26 DEF ResetSem, CanCall, Quiescent
<1>27. ASSUME NEW c \in Client, ResetPm(c) PROVE SemInv'
  BY <1>27 DEF ResetPm, CanCall, Quiescent
<1>28. ASSUME NEW t \in TimerId, TimerFire(t) PROVE SemInv'
  BY <1>28 DEF TimerFire, CanCall, Quiescent
<1>29. CASE CallbackAdd
  BY <1>29 DEF CallbackAdd, FetchAdd, CanCall, Quiescent
<1>30. CASE CallbackPush
  BY <1>30 DEF CallbackPush, PushOk, PushFails, CanCall, Quiescent
<1>31. CASE StepPop
  BY <1>31 DEF StepPop, CanCall, Quiescent
<1>32. CASE StepLoad
  BY <1>32 DEF StepLoad, CanCall, Quiescent
<1>33. CASE StepCheck
  BY <1>33 DEF StepCheck, NothingToDo, CanCall, Quiescent
<1>34. CASE StepAcquire
  BY <1>34 DEF StepAcquire, CanCall, Quiescent
<1>35. CASE StepChoose
  BY <1>35 DEF StepChoose, CanCall, Quiescent
<1>36. CASE OnStepReturns
  BY <1>36 DEF OnStepReturns, CanCall, Quiescent
<1>37. CASE StepRearm
  BY <1>37 DEF StepRearm, CanCall, Quiescent
<1>38. CASE StepTimerStop
  BY <1>38 DEF StepTimerStop, TimerStop, TimerIs, SetTimer, CanCall, Quiescent
<1>39. CASE StepTimerStart
  BY <1>39 DEF StepTimerStart, TimerIs, SetTimer, CanCall, Quiescent
<1>40. CASE OnStopReturns
  BY <1>40 DEF OnStopReturns, CanCall, Quiescent
<1>41. CASE StepDeactivate
  BY <1>41 DEF StepDeactivate, Deactivated, Exchanged, CanCall, Quiescent
<1>42. CASE StepRelease
  BY <1>42 DEF StepRelease, Released, CanCall, Quiescent
<1>43. CASE StepExit
  BY <1>43 DEF StepExit, Decremented, FetchAdd, CanCall, Quiescent
<1>44. CASE StepGiveCheck
  BY <1>44 DEF StepGiveCheck, CanCall, Quiescent
<1>45. CASE StepGive
  BY <1>45 DEF StepGive, CanCall, Quiescent
<1>46. CASE UNCHANGED vars
  BY <1>46 DEF vars, CanCall, Quiescent
<1> QED
  BY <1>1, <1>2, <1>3, <1>4, <1>5, <1>6, <1>7, <1>8, <1>9, <1>10, <1>11, <1>12, <1>13, <1>14,
     <1>15, <1>16, <1>17, <1>18, <1>19, <1>20, <1>21, <1>22, <1>23, <1>24, <1>25, <1>26,
     <1>27, <1>28, <1>29, <1>30, <1>31, <1>32, <1>33, <1>34, <1>35, <1>36, <1>37, <1>38,
     <1>39, <1>40, <1>41, <1>42, <1>43, <1>44, <1>45, <1>46
     DEF Next, Start, Call, Reset, Step

\* Only reset sets terminate_requested_, before it looks at the count, and only
\* a start clears it; the step that gives the semaphore has read it as set.
LEMMA TermStep ==
  ASSUME UsedAsMeant, Types, UseInv, TermInv, [Next]_vars
  PROVE  TermInv'
<1> USE ConfigAssumption DEF Types, TypeOK, Fields, TermInv, StartPcs, ResetPcs, CallPcs,
        UsedAsMeant, UseInv, Busy, NothingBut
<1>1. ASSUME NEW c \in Client, StartClaim(c) PROVE TermInv'
  BY <1>1 DEF StartClaim, CanCall, Quiescent
<1>2. ASSUME NEW c \in Client, StartFlags(c) PROVE TermInv'
  BY <1>2 DEF StartFlags, CanCall, Quiescent
<1>3. ASSUME NEW c \in Client, StartVersion(c) PROVE TermInv'
  BY <1>3 DEF StartVersion, Activate, CanCall, Quiescent
<1>4. ASSUME NEW c \in Client, StartInflight(c) PROVE TermInv'
  BY <1>4 DEF StartInflight, CanCall, Quiescent
<1>5. ASSUME NEW c \in Client, StartPm(c) PROVE TermInv'
  BY <1>5 DEF StartPm, CanCall, Quiescent
<1>6. ASSUME NEW c \in Client, StartSem(c) PROVE TermInv'
  BY <1>6 DEF StartSem, StartFails, CanCall, Quiescent
<1>7. ASSUME NEW c \in Client, StartTimer(c) PROVE TermInv'
  BY <1>7 DEF StartTimer, StartFails, CanCall, Quiescent
<1>8. ASSUME NEW c \in Client, StartAdd(c) PROVE TermInv'
  BY <1>8 DEF StartAdd, FetchAdd, CanCall, Quiescent
<1>9. ASSUME NEW c \in Client, StartPush(c) PROVE TermInv'
  BY <1>9 DEF StartPush, PushOk, PushFails, CanCall, Quiescent
<1>10. ASSUME NEW c \in Client, StartUndo(c) PROVE TermInv'
  BY <1>10 DEF StartUndo, FetchAdd, StartFails, CanCall, Quiescent
<1>11. ASSUME NEW c \in Client, NotifyCheck(c) PROVE TermInv'
  BY <1>11 DEF NotifyCheck, BeginCall, CanCall, Quiescent
<1>12. ASSUME NEW c \in Client, StopFlag(c) PROVE TermInv'
  BY <1>12 DEF StopFlag, BeginCall, CanCall, Quiescent
<1>13. ASSUME NEW c \in Client, NotifyClear(c) PROVE TermInv'
  BY <1>13 DEF NotifyClear, CanCall, Quiescent
<1>14. ASSUME NEW c \in Client, NotifyBump(c) PROVE TermInv'
  BY <1>14 DEF NotifyBump, Activate, CanCall, Quiescent
<1>15. ASSUME NEW c \in Client, StopCheck(c) PROVE TermInv'
  BY <1>15 DEF StopCheck, CanCall, Quiescent
<1>16. ASSUME NEW c \in Client, CallTimer(c) PROVE TermInv'
  BY <1>16 DEF CallTimer, TimerStop, TimerIs, SetTimer, CanCall, Quiescent
<1>17. ASSUME NEW c \in Client, CallAdd(c) PROVE TermInv'
  BY <1>17 DEF CallAdd, FetchAdd, CanCall, Quiescent
<1>18. ASSUME NEW c \in Client, CallPush(c) PROVE TermInv'
  BY <1>18 DEF CallPush, PushOk, PushFails, CanCall, Quiescent
<1>19. ASSUME NEW c \in Client, ResetClaim(c) PROVE TermInv'
  BY <1>19 DEF ResetClaim, CanCall, Quiescent
<1>20. ASSUME NEW c \in Client, ResetTerminate(c) PROVE TermInv'
  BY <1>20 DEF ResetTerminate, CanCall, Quiescent
<1>21. ASSUME NEW c \in Client, ResetTimerStop(c) PROVE TermInv'
  BY <1>21 DEF ResetTimerStop, TimerStop, TimerIs, SetTimer, CanCall, Quiescent
<1>22. ASSUME NEW c \in Client, ResetTimerDelete(c) PROVE TermInv'
  BY <1>22 DEF ResetTimerDelete, TimerIs, SetTimer, CanCall, Quiescent
<1>23. ASSUME NEW c \in Client, ResetTimerNull(c) PROVE TermInv'
  BY <1>23 DEF ResetTimerNull, CanCall, Quiescent
<1>24. ASSUME NEW c \in Client, ResetDrain(c) PROVE TermInv'
  BY <1>24 DEF ResetDrain, CanCall, Quiescent
<1>25. ASSUME NEW c \in Client, ResetWait(c) PROVE TermInv'
  BY <1>25 DEF ResetWait, CanCall, Quiescent
<1>26. ASSUME NEW c \in Client, ResetSem(c) PROVE TermInv'
  BY <1>26 DEF ResetSem, CanCall, Quiescent
<1>27. ASSUME NEW c \in Client, ResetPm(c) PROVE TermInv'
  BY <1>27 DEF ResetPm, CanCall, Quiescent
<1>28. ASSUME NEW t \in TimerId, TimerFire(t) PROVE TermInv'
  BY <1>28 DEF TimerFire, CanCall, Quiescent
<1>29. CASE CallbackAdd
  BY <1>29 DEF CallbackAdd, FetchAdd, CanCall, Quiescent
<1>30. CASE CallbackPush
  BY <1>30 DEF CallbackPush, PushOk, PushFails, CanCall, Quiescent
<1>31. CASE StepPop
  BY <1>31 DEF StepPop, CanCall, Quiescent
<1>32. CASE StepLoad
  BY <1>32 DEF StepLoad, CanCall, Quiescent
<1>33. CASE StepCheck
  BY <1>33 DEF StepCheck, NothingToDo, CanCall, Quiescent
<1>34. CASE StepAcquire
  BY <1>34 DEF StepAcquire, CanCall, Quiescent
<1>35. CASE StepChoose
  BY <1>35 DEF StepChoose, CanCall, Quiescent
<1>36. CASE OnStepReturns
  BY <1>36 DEF OnStepReturns, CanCall, Quiescent
<1>37. CASE StepRearm
  BY <1>37 DEF StepRearm, CanCall, Quiescent
<1>38. CASE StepTimerStop
  BY <1>38 DEF StepTimerStop, TimerStop, TimerIs, SetTimer, CanCall, Quiescent
<1>39. CASE StepTimerStart
  BY <1>39 DEF StepTimerStart, TimerIs, SetTimer, CanCall, Quiescent
<1>40. CASE OnStopReturns
  BY <1>40 DEF OnStopReturns, CanCall, Quiescent
<1>41. CASE StepDeactivate
  BY <1>41 DEF StepDeactivate, Deactivated, Exchanged, CanCall, Quiescent
<1>42. CASE StepRelease
  BY <1>42 DEF StepRelease, Released, CanCall, Quiescent
<1>43. CASE StepExit
  BY <1>43 DEF StepExit, Decremented, FetchAdd, CanCall, Quiescent
<1>44. CASE StepGiveCheck
  BY <1>44 DEF StepGiveCheck, CanCall, Quiescent
<1>45. CASE StepGive
  BY <1>45 DEF StepGive, CanCall, Quiescent
<1>46. CASE UNCHANGED vars
  BY <1>46 DEF vars, CanCall, Quiescent
<1> QED
  BY <1>1, <1>2, <1>3, <1>4, <1>5, <1>6, <1>7, <1>8, <1>9, <1>10, <1>11, <1>12, <1>13, <1>14,
     <1>15, <1>16, <1>17, <1>18, <1>19, <1>20, <1>21, <1>22, <1>23, <1>24, <1>25, <1>26,
     <1>27, <1>28, <1>29, <1>30, <1>31, <1>32, <1>33, <1>34, <1>35, <1>36, <1>37, <1>38,
     <1>39, <1>40, <1>41, <1>42, <1>43, <1>44, <1>45, <1>46
     DEF Next, Start, Call, Reset, Step

\* The step that gives the semaphore has counted to zero, and what is pushed
\* afterwards sees terminate_requested_ and does nothing.
LEMMA GivenStep ==
  ASSUME UsedAsMeant, Types, UseInv, SemInv, TermInv, GivenInv, [Next]_vars
  PROVE  GivenInv'
<1> USE ConfigAssumption DEF Types, TypeOK, Fields, SemInv, TermInv, GivenInv, Spent, Calm
<1>1. ASSUME NEW c \in Client, StartClaim(c) PROVE GivenInv'
  BY <1>1 DEF StartClaim, UserCode
<1>2. ASSUME NEW c \in Client, StartFlags(c) PROVE GivenInv'
  BY <1>2 DEF StartFlags, UserCode
<1>3. ASSUME NEW c \in Client, StartVersion(c) PROVE GivenInv'
  BY <1>3 DEF StartVersion, Activate, UserCode
<1>4. ASSUME NEW c \in Client, StartInflight(c) PROVE GivenInv'
  BY <1>4 DEF StartInflight, UserCode
<1>5. ASSUME NEW c \in Client, StartPm(c) PROVE GivenInv'
  BY <1>5 DEF StartPm, UserCode
<1>6. ASSUME NEW c \in Client, StartSem(c) PROVE GivenInv'
  BY <1>6 DEF StartSem, StartFails, UserCode
<1>7. ASSUME NEW c \in Client, StartTimer(c) PROVE GivenInv'
  BY <1>7 DEF StartTimer, StartFails, UserCode
<1>8. ASSUME NEW c \in Client, StartAdd(c) PROVE GivenInv'
  BY <1>8 DEF StartAdd, FetchAdd, UserCode
<1>9. ASSUME NEW c \in Client, StartPush(c) PROVE GivenInv'
  BY <1>9 DEF StartPush, PushOk, PushFails, UserCode
<1>10. ASSUME NEW c \in Client, StartUndo(c) PROVE GivenInv'
  BY <1>10 DEF StartUndo, FetchAdd, StartFails, UserCode
<1>11. ASSUME NEW c \in Client, NotifyCheck(c) PROVE GivenInv'
  BY <1>11 DEF NotifyCheck, BeginCall, CanCall, UserCode
<1>12. ASSUME NEW c \in Client, StopFlag(c) PROVE GivenInv'
  BY <1>12 DEF StopFlag, BeginCall, CanCall, UserCode
<1>13. ASSUME NEW c \in Client, NotifyClear(c) PROVE GivenInv'
  BY <1>13 DEF NotifyClear, UserCode
<1>14. ASSUME NEW c \in Client, NotifyBump(c) PROVE GivenInv'
  BY <1>14 DEF NotifyBump, Activate, UserCode
<1>15. ASSUME NEW c \in Client, StopCheck(c) PROVE GivenInv'
  BY <1>15 DEF StopCheck, UserCode
<1>16. ASSUME NEW c \in Client, CallTimer(c) PROVE GivenInv'
  BY <1>16 DEF CallTimer, TimerStop, TimerIs, SetTimer, UserCode
<1>17. ASSUME NEW c \in Client, CallAdd(c) PROVE GivenInv'
  BY <1>17 DEF CallAdd, FetchAdd, UserCode
<1>18. ASSUME NEW c \in Client, CallPush(c) PROVE GivenInv'
  BY <1>18 DEF CallPush, PushOk, PushFails, UserCode
<1>19. ASSUME NEW c \in Client, ResetClaim(c) PROVE GivenInv'
  BY <1>19 DEF ResetClaim, UserCode
<1>20. ASSUME NEW c \in Client, ResetTerminate(c) PROVE GivenInv'
  BY <1>20 DEF ResetTerminate, UserCode
<1>21. ASSUME NEW c \in Client, ResetTimerStop(c) PROVE GivenInv'
  BY <1>21 DEF ResetTimerStop, TimerStop, TimerIs, SetTimer, UserCode
<1>22. ASSUME NEW c \in Client, ResetTimerDelete(c) PROVE GivenInv'
  BY <1>22 DEF ResetTimerDelete, TimerIs, SetTimer, UserCode
<1>23. ASSUME NEW c \in Client, ResetTimerNull(c) PROVE GivenInv'
  BY <1>23 DEF ResetTimerNull, UserCode
<1>24. ASSUME NEW c \in Client, ResetDrain(c) PROVE GivenInv'
  BY <1>24 DEF ResetDrain, UserCode
<1>25. ASSUME NEW c \in Client, ResetWait(c) PROVE GivenInv'
  BY <1>25 DEF ResetWait, UserCode
<1>26. ASSUME NEW c \in Client, ResetSem(c) PROVE GivenInv'
  BY <1>26 DEF ResetSem, UserCode
<1>27. ASSUME NEW c \in Client, ResetPm(c) PROVE GivenInv'
  BY <1>27 DEF ResetPm, UserCode
<1>28. ASSUME NEW t \in TimerId, TimerFire(t) PROVE GivenInv'
  BY <1>28 DEF TimerFire, UserCode
<1>29. CASE CallbackAdd
  BY <1>29 DEF CallbackAdd, FetchAdd, UserCode
<1>30. CASE CallbackPush
  BY <1>30 DEF CallbackPush, PushOk, PushFails, UserCode
<1>31. CASE StepPop
  BY <1>31 DEF StepPop, UserCode
<1>32. CASE StepLoad
  BY <1>32 DEF StepLoad, UserCode
<1>33. CASE StepCheck
  BY <1>33 DEF StepCheck, NothingToDo, UserCode
<1>34. CASE StepAcquire
  BY <1>34 DEF StepAcquire, UserCode
<1>35. CASE StepChoose
  BY <1>35 DEF StepChoose, UserCode
<1>36. CASE OnStepReturns
  BY <1>36 DEF OnStepReturns, UserCode
<1>37. CASE StepRearm
  BY <1>37 DEF StepRearm, UserCode
<1>38. CASE StepTimerStop
  BY <1>38 DEF StepTimerStop, TimerStop, TimerIs, SetTimer, UserCode
<1>39. CASE StepTimerStart
  BY <1>39 DEF StepTimerStart, TimerIs, SetTimer, UserCode
<1>40. CASE OnStopReturns
  BY <1>40 DEF OnStopReturns, UserCode
<1>41. CASE StepDeactivate
  BY <1>41 DEF StepDeactivate, Deactivated, Exchanged, UserCode
<1>42. CASE StepRelease
  BY <1>42 DEF StepRelease, Released, UserCode
<1>43. CASE StepExit
  BY <1>43 DEF StepExit, Decremented, FetchAdd, UserCode
<1>44. CASE StepGiveCheck
  BY <1>44 DEF StepGiveCheck, UserCode
<1>45. CASE StepGive
  BY <1>45 DEF StepGive, UserCode
<1>46. CASE UNCHANGED vars
  BY <1>46 DEF vars, UserCode
<1> QED
  BY <1>1, <1>2, <1>3, <1>4, <1>5, <1>6, <1>7, <1>8, <1>9, <1>10, <1>11, <1>12, <1>13, <1>14,
     <1>15, <1>16, <1>17, <1>18, <1>19, <1>20, <1>21, <1>22, <1>23, <1>24, <1>25, <1>26,
     <1>27, <1>28, <1>29, <1>30, <1>31, <1>32, <1>33, <1>34, <1>35, <1>36, <1>37, <1>38,
     <1>39, <1>40, <1>41, <1>42, <1>43, <1>44, <1>45, <1>46
     DEF Next, Start, Call, Reset, Step

\* While the object is started by one client, nothing else is going on.
LEMMA StartingFresh ==
  /\ Types /\ UseInv /\ Starting => Fresh
  /\ Types' /\ UseInv' /\ Starting' => Fresh'
<1>1. ASSUME Types, UseInv, NEW c \in Client, pc[c] \in StartPcs PROVE Fresh
  <2>1. /\ queued = 0 /\ step.pc = "idle" /\ callback = "idle"
        /\ \A t \in TimerId : timers[t] # "armed"
        /\ \A d \in Client \ {c} : pc[d] = "idle"
    BY <1>1 DEF UseInv, NothingBut
  <2>2. \A d \in Client : pc[d] \notin CallPcs
    BY <1>1, <2>1 DEF StartPcs, CallPcs
  <2> QED
    BY <2>1, <2>2 DEF Fresh, CallPcs
<1>2. ASSUME Types', UseInv', NEW c \in Client, pc'[c] \in StartPcs PROVE Fresh'
  <2>1. /\ queued' = 0 /\ step'.pc = "idle" /\ callback' = "idle"
        /\ \A t \in TimerId : timers'[t] # "armed"
        /\ \A d \in Client \ {c} : pc'[d] = "idle"
    BY <1>2 DEF UseInv, NothingBut
  <2>2. \A d \in Client : pc'[d] \notin CallPcs
    BY <1>2, <2>1 DEF StartPcs, CallPcs
  <2> QED
    BY <2>1, <2>2 DEF Fresh, CallPcs
<1> QED
  BY <1>1, <1>2 DEF Starting

\* What is spent stays so, and what cannot begin does not, until the next start.
LEMMA RestStays ==
  ASSUME Types, UseInv, ~task.running_, Spent \/ Fresh, [Next]_vars
  PROVE  (Spent \/ Fresh)' \/ Starting'
<1> DEFINE Goal == (Spent' \/ Fresh') \/ Starting'
<1>0. \A c \in Client : pc[c] \notin StartPcs
  BY DEF UseInv
<1> USE ConfigAssumption DEF Types, TypeOK, Fields, Spent, Fresh, Calm, StartPcs, CallPcs, Starting
<1>1. ASSUME NEW c \in Client, StartClaim(c) PROVE Goal
  BY <1>1, <1>0 DEF StartClaim, UserCode, CanCall
<1>2. ASSUME NEW c \in Client, StartFlags(c) PROVE Goal
  BY <1>2, <1>0 DEF StartFlags, UserCode, CanCall
<1>3. ASSUME NEW c \in Client, StartVersion(c) PROVE Goal
  BY <1>3, <1>0 DEF StartVersion, Activate, UserCode, CanCall
<1>4. ASSUME NEW c \in Client, StartInflight(c) PROVE Goal
  BY <1>4, <1>0 DEF StartInflight, UserCode, CanCall
<1>5. ASSUME NEW c \in Client, StartPm(c) PROVE Goal
  BY <1>5, <1>0 DEF StartPm, UserCode, CanCall
<1>6. ASSUME NEW c \in Client, StartSem(c) PROVE Goal
  BY <1>6, <1>0 DEF StartSem, StartFails, UserCode, CanCall
<1>7. ASSUME NEW c \in Client, StartTimer(c) PROVE Goal
  BY <1>7, <1>0 DEF StartTimer, StartFails, UserCode, CanCall
<1>8. ASSUME NEW c \in Client, StartAdd(c) PROVE Goal
  BY <1>8, <1>0 DEF StartAdd, FetchAdd, UserCode, CanCall
<1>9. ASSUME NEW c \in Client, StartPush(c) PROVE Goal
  BY <1>9, <1>0 DEF StartPush, PushOk, PushFails, UserCode, CanCall
<1>10. ASSUME NEW c \in Client, StartUndo(c) PROVE Goal
  BY <1>10, <1>0 DEF StartUndo, FetchAdd, StartFails, UserCode, CanCall
<1>11. ASSUME NEW c \in Client, NotifyCheck(c) PROVE Goal
  BY <1>11, <1>0 DEF NotifyCheck, BeginCall, UserCode, CanCall
<1>12. ASSUME NEW c \in Client, StopFlag(c) PROVE Goal
  BY <1>12, <1>0 DEF StopFlag, BeginCall, UserCode, CanCall
<1>13. ASSUME NEW c \in Client, NotifyClear(c) PROVE Goal
  BY <1>13, <1>0 DEF NotifyClear, UserCode, CanCall
<1>14. ASSUME NEW c \in Client, NotifyBump(c) PROVE Goal
  BY <1>14, <1>0 DEF NotifyBump, Activate, UserCode, CanCall
<1>15. ASSUME NEW c \in Client, StopCheck(c) PROVE Goal
  BY <1>15, <1>0 DEF StopCheck, UserCode, CanCall
<1>16. ASSUME NEW c \in Client, CallTimer(c) PROVE Goal
  BY <1>16, <1>0 DEF CallTimer, TimerStop, TimerIs, SetTimer, UserCode, CanCall
<1>17. ASSUME NEW c \in Client, CallAdd(c) PROVE Goal
  BY <1>17, <1>0 DEF CallAdd, FetchAdd, UserCode, CanCall
<1>18. ASSUME NEW c \in Client, CallPush(c) PROVE Goal
  BY <1>18, <1>0 DEF CallPush, PushOk, PushFails, UserCode, CanCall
<1>19. ASSUME NEW c \in Client, ResetClaim(c) PROVE Goal
  BY <1>19, <1>0 DEF ResetClaim, UserCode, CanCall
<1>20. ASSUME NEW c \in Client, ResetTerminate(c) PROVE Goal
  BY <1>20, <1>0 DEF ResetTerminate, UserCode, CanCall
<1>21. ASSUME NEW c \in Client, ResetTimerStop(c) PROVE Goal
  BY <1>21, <1>0 DEF ResetTimerStop, TimerStop, TimerIs, SetTimer, UserCode, CanCall
<1>22. ASSUME NEW c \in Client, ResetTimerDelete(c) PROVE Goal
  BY <1>22, <1>0 DEF ResetTimerDelete, TimerIs, SetTimer, UserCode, CanCall
<1>23. ASSUME NEW c \in Client, ResetTimerNull(c) PROVE Goal
  BY <1>23, <1>0 DEF ResetTimerNull, UserCode, CanCall
<1>24. ASSUME NEW c \in Client, ResetDrain(c) PROVE Goal
  BY <1>24, <1>0 DEF ResetDrain, UserCode, CanCall
<1>25. ASSUME NEW c \in Client, ResetWait(c) PROVE Goal
  BY <1>25, <1>0 DEF ResetWait, UserCode, CanCall
<1>26. ASSUME NEW c \in Client, ResetSem(c) PROVE Goal
  BY <1>26, <1>0 DEF ResetSem, UserCode, CanCall
<1>27. ASSUME NEW c \in Client, ResetPm(c) PROVE Goal
  BY <1>27, <1>0 DEF ResetPm, UserCode, CanCall
<1>28. ASSUME NEW t \in TimerId, TimerFire(t) PROVE Goal
  BY <1>28, <1>0 DEF TimerFire, UserCode, CanCall
<1>29. CASE CallbackAdd
  BY <1>29, <1>0 DEF CallbackAdd, FetchAdd, UserCode, CanCall
<1>30. CASE CallbackPush
  BY <1>30, <1>0 DEF CallbackPush, PushOk, PushFails, UserCode, CanCall
<1>31. CASE StepPop
  BY <1>31, <1>0 DEF StepPop, UserCode, CanCall
<1>32. CASE StepLoad
  BY <1>32, <1>0 DEF StepLoad, UserCode, CanCall
<1>33. CASE StepCheck
  BY <1>33, <1>0 DEF StepCheck, NothingToDo, UserCode, CanCall
<1>34. CASE StepAcquire
  BY <1>34, <1>0 DEF StepAcquire, UserCode, CanCall
<1>35. CASE StepChoose
  BY <1>35, <1>0 DEF StepChoose, UserCode, CanCall
<1>36. CASE OnStepReturns
  BY <1>36, <1>0 DEF OnStepReturns, UserCode, CanCall
<1>37. CASE StepRearm
  BY <1>37, <1>0 DEF StepRearm, UserCode, CanCall
<1>38. CASE StepTimerStop
  BY <1>38, <1>0 DEF StepTimerStop, TimerStop, TimerIs, SetTimer, UserCode, CanCall
<1>39. CASE StepTimerStart
  BY <1>39, <1>0 DEF StepTimerStart, TimerIs, SetTimer, UserCode, CanCall
<1>40. CASE OnStopReturns
  BY <1>40, <1>0 DEF OnStopReturns, UserCode, CanCall
<1>41. CASE StepDeactivate
  BY <1>41, <1>0 DEF StepDeactivate, Deactivated, Exchanged, UserCode, CanCall
<1>42. CASE StepRelease
  BY <1>42, <1>0 DEF StepRelease, Released, UserCode, CanCall
<1>43. CASE StepExit
  BY <1>43, <1>0 DEF StepExit, Decremented, FetchAdd, UserCode, CanCall
<1>44. CASE StepGiveCheck
  BY <1>44, <1>0 DEF StepGiveCheck, UserCode, CanCall
<1>45. CASE StepGive
  BY <1>45, <1>0 DEF StepGive, UserCode, CanCall
<1>46. CASE UNCHANGED vars
  BY <1>46, <1>0 DEF vars, UserCode, CanCall
<1> QED
  BY <1>1, <1>2, <1>3, <1>4, <1>5, <1>6, <1>7, <1>8, <1>9, <1>10, <1>11, <1>12, <1>13, <1>14,
     <1>15, <1>16, <1>17, <1>18, <1>19, <1>20, <1>21, <1>22, <1>23, <1>24, <1>25, <1>26,
     <1>27, <1>28, <1>29, <1>30, <1>31, <1>32, <1>33, <1>34, <1>35, <1>36, <1>37, <1>38,
     <1>39, <1>40, <1>41, <1>42, <1>43, <1>44, <1>45, <1>46
     DEF Next, Start, Call, Reset, Step

\* Where the semaphore goes, and how a start ends without one.
LEMMA SemGoes ==
  ASSUME Types, [Next]_vars
  PROVE  /\ task'.join_sem_ = "null" =>
              task.join_sem_ = "null" \/ \E c \in Client : pc[c] = "rs_sem"
         /\ task'.join_sem_ = "null" /\ Starting /\ ~Starting' /\ SemInv =>
              /\ UNCHANGED <<queued, step, callback, timers>> /\ ~task'.running_
              /\ \A c \in Client : pc'[c] \in CallPcs => pc[c] \in CallPcs
         /\ timed_out => timed_out'
<1> DEFINE Goal == /\ task'.join_sem_ = "null" =>
                        task.join_sem_ = "null" \/ \E c \in Client : pc[c] = "rs_sem"
                   /\ task'.join_sem_ = "null" /\ Starting /\ ~Starting' /\ SemInv =>
                        /\ UNCHANGED <<queued, step, callback, timers>> /\ ~task'.running_
                        /\ \A c \in Client : pc'[c] \in CallPcs => pc[c] \in CallPcs
                   /\ timed_out => timed_out'
<1> USE ConfigAssumption DEF Types, TypeOK, Fields, SemInv, StartPcs, CallPcs, Starting
<1>1. ASSUME NEW c \in Client, StartClaim(c) PROVE Goal
  BY <1>1 DEF StartClaim, CanCall, UserCode
<1>2. ASSUME NEW c \in Client, StartFlags(c) PROVE Goal
  BY <1>2 DEF StartFlags, CanCall, UserCode
<1>3. ASSUME NEW c \in Client, StartVersion(c) PROVE Goal
  BY <1>3 DEF StartVersion, Activate, CanCall, UserCode
<1>4. ASSUME NEW c \in Client, StartInflight(c) PROVE Goal
  BY <1>4 DEF StartInflight, CanCall, UserCode
<1>5. ASSUME NEW c \in Client, StartPm(c) PROVE Goal
  BY <1>5 DEF StartPm, CanCall, UserCode
<1>6. ASSUME NEW c \in Client, StartSem(c) PROVE Goal
  BY <1>6 DEF StartSem, StartFails, CanCall, UserCode
<1>7. ASSUME NEW c \in Client, StartTimer(c) PROVE Goal
  BY <1>7 DEF StartTimer, StartFails, CanCall, UserCode
<1>8. ASSUME NEW c \in Client, StartAdd(c) PROVE Goal
  BY <1>8 DEF StartAdd, FetchAdd, CanCall, UserCode
<1>9. ASSUME NEW c \in Client, StartPush(c) PROVE Goal
  BY <1>9 DEF StartPush, PushOk, PushFails, CanCall, UserCode
<1>10. ASSUME NEW c \in Client, StartUndo(c) PROVE Goal
  BY <1>10 DEF StartUndo, FetchAdd, StartFails, CanCall, UserCode
<1>11. ASSUME NEW c \in Client, NotifyCheck(c) PROVE Goal
  BY <1>11 DEF NotifyCheck, BeginCall, CanCall, UserCode
<1>12. ASSUME NEW c \in Client, StopFlag(c) PROVE Goal
  BY <1>12 DEF StopFlag, BeginCall, CanCall, UserCode
<1>13. ASSUME NEW c \in Client, NotifyClear(c) PROVE Goal
  BY <1>13 DEF NotifyClear, CanCall, UserCode
<1>14. ASSUME NEW c \in Client, NotifyBump(c) PROVE Goal
  BY <1>14 DEF NotifyBump, Activate, CanCall, UserCode
<1>15. ASSUME NEW c \in Client, StopCheck(c) PROVE Goal
  BY <1>15 DEF StopCheck, CanCall, UserCode
<1>16. ASSUME NEW c \in Client, CallTimer(c) PROVE Goal
  BY <1>16 DEF CallTimer, TimerStop, TimerIs, SetTimer, CanCall, UserCode
<1>17. ASSUME NEW c \in Client, CallAdd(c) PROVE Goal
  BY <1>17 DEF CallAdd, FetchAdd, CanCall, UserCode
<1>18. ASSUME NEW c \in Client, CallPush(c) PROVE Goal
  BY <1>18 DEF CallPush, PushOk, PushFails, CanCall, UserCode
<1>19. ASSUME NEW c \in Client, ResetClaim(c) PROVE Goal
  BY <1>19 DEF ResetClaim, CanCall, UserCode
<1>20. ASSUME NEW c \in Client, ResetTerminate(c) PROVE Goal
  BY <1>20 DEF ResetTerminate, CanCall, UserCode
<1>21. ASSUME NEW c \in Client, ResetTimerStop(c) PROVE Goal
  BY <1>21 DEF ResetTimerStop, TimerStop, TimerIs, SetTimer, CanCall, UserCode
<1>22. ASSUME NEW c \in Client, ResetTimerDelete(c) PROVE Goal
  BY <1>22 DEF ResetTimerDelete, TimerIs, SetTimer, CanCall, UserCode
<1>23. ASSUME NEW c \in Client, ResetTimerNull(c) PROVE Goal
  BY <1>23 DEF ResetTimerNull, CanCall, UserCode
<1>24. ASSUME NEW c \in Client, ResetDrain(c) PROVE Goal
  BY <1>24 DEF ResetDrain, CanCall, UserCode
<1>25. ASSUME NEW c \in Client, ResetWait(c) PROVE Goal
  BY <1>25 DEF ResetWait, CanCall, UserCode
<1>26. ASSUME NEW c \in Client, ResetSem(c) PROVE Goal
  BY <1>26 DEF ResetSem, CanCall, UserCode
<1>27. ASSUME NEW c \in Client, ResetPm(c) PROVE Goal
  BY <1>27 DEF ResetPm, CanCall, UserCode
<1>28. ASSUME NEW t \in TimerId, TimerFire(t) PROVE Goal
  BY <1>28 DEF TimerFire, CanCall, UserCode
<1>29. CASE CallbackAdd
  BY <1>29 DEF CallbackAdd, FetchAdd, CanCall, UserCode
<1>30. CASE CallbackPush
  BY <1>30 DEF CallbackPush, PushOk, PushFails, CanCall, UserCode
<1>31. CASE StepPop
  BY <1>31 DEF StepPop, CanCall, UserCode
<1>32. CASE StepLoad
  BY <1>32 DEF StepLoad, CanCall, UserCode
<1>33. CASE StepCheck
  BY <1>33 DEF StepCheck, NothingToDo, CanCall, UserCode
<1>34. CASE StepAcquire
  BY <1>34 DEF StepAcquire, CanCall, UserCode
<1>35. CASE StepChoose
  BY <1>35 DEF StepChoose, CanCall, UserCode
<1>36. CASE OnStepReturns
  BY <1>36 DEF OnStepReturns, CanCall, UserCode
<1>37. CASE StepRearm
  BY <1>37 DEF StepRearm, CanCall, UserCode
<1>38. CASE StepTimerStop
  BY <1>38 DEF StepTimerStop, TimerStop, TimerIs, SetTimer, CanCall, UserCode
<1>39. CASE StepTimerStart
  BY <1>39 DEF StepTimerStart, TimerIs, SetTimer, CanCall, UserCode
<1>40. CASE OnStopReturns
  BY <1>40 DEF OnStopReturns, CanCall, UserCode
<1>41. CASE StepDeactivate
  BY <1>41 DEF StepDeactivate, Deactivated, Exchanged, CanCall, UserCode
<1>42. CASE StepRelease
  BY <1>42 DEF StepRelease, Released, CanCall, UserCode
<1>43. CASE StepExit
  BY <1>43 DEF StepExit, Decremented, FetchAdd, CanCall, UserCode
<1>44. CASE StepGiveCheck
  BY <1>44 DEF StepGiveCheck, CanCall, UserCode
<1>45. CASE StepGive
  BY <1>45 DEF StepGive, CanCall, UserCode
<1>46. CASE UNCHANGED vars
  BY <1>46 DEF vars, CanCall, UserCode
<1> QED
  BY <1>1, <1>2, <1>3, <1>4, <1>5, <1>6, <1>7, <1>8, <1>9, <1>10, <1>11, <1>12, <1>13, <1>14,
     <1>15, <1>16, <1>17, <1>18, <1>19, <1>20, <1>21, <1>22, <1>23, <1>24, <1>25, <1>26,
     <1>27, <1>28, <1>29, <1>30, <1>31, <1>32, <1>33, <1>34, <1>35, <1>36, <1>37, <1>38,
     <1>39, <1>40, <1>41, <1>42, <1>43, <1>44, <1>45, <1>46
     DEF Next, Start, Call, Reset, Step

\* What reset has seen when it gets past its wait in time.
LEMMA GetsPast ==
  ASSUME Types, [Next]_vars
  PROVE  \A d \in Client : pc'[d] = "rs_sem" /\ pc[d] # "rs_sem" =>
           \/ timed_out'
           \/ /\ pc[d] \in {"rs_drain", "rs_wait"}
              /\ step' = step /\ task'.terminate_requested_ = task.terminate_requested_
              /\ task.inflight_count_ = 0 \/ task.join_sem_ \in {"null", "given"}
<1> DEFINE Goal ==
      \A d \in Client : pc'[d] = "rs_sem" /\ pc[d] # "rs_sem" =>
        \/ timed_out'
        \/ /\ pc[d] \in {"rs_drain", "rs_wait"}
           /\ step' = step /\ task'.terminate_requested_ = task.terminate_requested_
           /\ task.inflight_count_ = 0 \/ task.join_sem_ \in {"null", "given"}
<1> USE ConfigAssumption DEF Types, TypeOK, Fields
<1>1. ASSUME NEW c \in Client, StartClaim(c) PROVE Goal
  BY <1>1 DEF StartClaim, CanCall, UserCode
<1>2. ASSUME NEW c \in Client, StartFlags(c) PROVE Goal
  BY <1>2 DEF StartFlags, CanCall, UserCode
<1>3. ASSUME NEW c \in Client, StartVersion(c) PROVE Goal
  BY <1>3 DEF StartVersion, Activate, CanCall, UserCode
<1>4. ASSUME NEW c \in Client, StartInflight(c) PROVE Goal
  BY <1>4 DEF StartInflight, CanCall, UserCode
<1>5. ASSUME NEW c \in Client, StartPm(c) PROVE Goal
  BY <1>5 DEF StartPm, CanCall, UserCode
<1>6. ASSUME NEW c \in Client, StartSem(c) PROVE Goal
  BY <1>6 DEF StartSem, StartFails, CanCall, UserCode
<1>7. ASSUME NEW c \in Client, StartTimer(c) PROVE Goal
  BY <1>7 DEF StartTimer, StartFails, CanCall, UserCode
<1>8. ASSUME NEW c \in Client, StartAdd(c) PROVE Goal
  BY <1>8 DEF StartAdd, FetchAdd, CanCall, UserCode
<1>9. ASSUME NEW c \in Client, StartPush(c) PROVE Goal
  BY <1>9 DEF StartPush, PushOk, PushFails, CanCall, UserCode
<1>10. ASSUME NEW c \in Client, StartUndo(c) PROVE Goal
  BY <1>10 DEF StartUndo, FetchAdd, StartFails, CanCall, UserCode
<1>11. ASSUME NEW c \in Client, NotifyCheck(c) PROVE Goal
  BY <1>11 DEF NotifyCheck, BeginCall, CanCall, UserCode
<1>12. ASSUME NEW c \in Client, StopFlag(c) PROVE Goal
  BY <1>12 DEF StopFlag, BeginCall, CanCall, UserCode
<1>13. ASSUME NEW c \in Client, NotifyClear(c) PROVE Goal
  BY <1>13 DEF NotifyClear, CanCall, UserCode
<1>14. ASSUME NEW c \in Client, NotifyBump(c) PROVE Goal
  BY <1>14 DEF NotifyBump, Activate, CanCall, UserCode
<1>15. ASSUME NEW c \in Client, StopCheck(c) PROVE Goal
  BY <1>15 DEF StopCheck, CanCall, UserCode
<1>16. ASSUME NEW c \in Client, CallTimer(c) PROVE Goal
  BY <1>16 DEF CallTimer, TimerStop, TimerIs, SetTimer, CanCall, UserCode
<1>17. ASSUME NEW c \in Client, CallAdd(c) PROVE Goal
  BY <1>17 DEF CallAdd, FetchAdd, CanCall, UserCode
<1>18. ASSUME NEW c \in Client, CallPush(c) PROVE Goal
  BY <1>18 DEF CallPush, PushOk, PushFails, CanCall, UserCode
<1>19. ASSUME NEW c \in Client, ResetClaim(c) PROVE Goal
  BY <1>19 DEF ResetClaim, CanCall, UserCode
<1>20. ASSUME NEW c \in Client, ResetTerminate(c) PROVE Goal
  BY <1>20 DEF ResetTerminate, CanCall, UserCode
<1>21. ASSUME NEW c \in Client, ResetTimerStop(c) PROVE Goal
  BY <1>21 DEF ResetTimerStop, TimerStop, TimerIs, SetTimer, CanCall, UserCode
<1>22. ASSUME NEW c \in Client, ResetTimerDelete(c) PROVE Goal
  BY <1>22 DEF ResetTimerDelete, TimerIs, SetTimer, CanCall, UserCode
<1>23. ASSUME NEW c \in Client, ResetTimerNull(c) PROVE Goal
  BY <1>23 DEF ResetTimerNull, CanCall, UserCode
<1>24. ASSUME NEW c \in Client, ResetDrain(c) PROVE Goal
  BY <1>24 DEF ResetDrain, CanCall, UserCode
<1>25. ASSUME NEW c \in Client, ResetWait(c) PROVE Goal
  BY <1>25 DEF ResetWait, CanCall, UserCode
<1>26. ASSUME NEW c \in Client, ResetSem(c) PROVE Goal
  BY <1>26 DEF ResetSem, CanCall, UserCode
<1>27. ASSUME NEW c \in Client, ResetPm(c) PROVE Goal
  BY <1>27 DEF ResetPm, CanCall, UserCode
<1>28. ASSUME NEW t \in TimerId, TimerFire(t) PROVE Goal
  BY <1>28 DEF TimerFire, CanCall, UserCode
<1>29. CASE CallbackAdd
  BY <1>29 DEF CallbackAdd, FetchAdd, CanCall, UserCode
<1>30. CASE CallbackPush
  BY <1>30 DEF CallbackPush, PushOk, PushFails, CanCall, UserCode
<1>31. CASE StepPop
  BY <1>31 DEF StepPop, CanCall, UserCode
<1>32. CASE StepLoad
  BY <1>32 DEF StepLoad, CanCall, UserCode
<1>33. CASE StepCheck
  BY <1>33 DEF StepCheck, NothingToDo, CanCall, UserCode
<1>34. CASE StepAcquire
  BY <1>34 DEF StepAcquire, CanCall, UserCode
<1>35. CASE StepChoose
  BY <1>35 DEF StepChoose, CanCall, UserCode
<1>36. CASE OnStepReturns
  BY <1>36 DEF OnStepReturns, CanCall, UserCode
<1>37. CASE StepRearm
  BY <1>37 DEF StepRearm, CanCall, UserCode
<1>38. CASE StepTimerStop
  BY <1>38 DEF StepTimerStop, TimerStop, TimerIs, SetTimer, CanCall, UserCode
<1>39. CASE StepTimerStart
  BY <1>39 DEF StepTimerStart, TimerIs, SetTimer, CanCall, UserCode
<1>40. CASE OnStopReturns
  BY <1>40 DEF OnStopReturns, CanCall, UserCode
<1>41. CASE StepDeactivate
  BY <1>41 DEF StepDeactivate, Deactivated, Exchanged, CanCall, UserCode
<1>42. CASE StepRelease
  BY <1>42 DEF StepRelease, Released, CanCall, UserCode
<1>43. CASE StepExit
  BY <1>43 DEF StepExit, Decremented, FetchAdd, CanCall, UserCode
<1>44. CASE StepGiveCheck
  BY <1>44 DEF StepGiveCheck, CanCall, UserCode
<1>45. CASE StepGive
  BY <1>45 DEF StepGive, CanCall, UserCode
<1>46. CASE UNCHANGED vars
  BY <1>46 DEF vars, CanCall, UserCode
<1> QED
  BY <1>1, <1>2, <1>3, <1>4, <1>5, <1>6, <1>7, <1>8, <1>9, <1>10, <1>11, <1>12, <1>13, <1>14,
     <1>15, <1>16, <1>17, <1>18, <1>19, <1>20, <1>21, <1>22, <1>23, <1>24, <1>25, <1>26,
     <1>27, <1>28, <1>29, <1>30, <1>31, <1>32, <1>33, <1>34, <1>35, <1>36, <1>37, <1>38,
     <1>39, <1>40, <1>41, <1>42, <1>43, <1>44, <1>45, <1>46
     DEF Next, Start, Call, Reset, Step

\* A reset that has got past its wait leaves nothing that works.
LEMMA RestStep ==
  ASSUME UsedAsMeant, Types, UseInv, CoverInv, DrainInv, [Next]_vars, Types', UseInv'
  PROVE  RestInv'
<1> SUFFICES ASSUME task'.join_sem_ = "null" \/ \E c \in Client : pc'[c] = "rs_sem", ~timed_out'
             PROVE  (Spent \/ Fresh)'
  BY DEF RestInv
<1>1. ~timed_out
  BY SemGoes
<1>2. ASSUME task.join_sem_ = "null" \/ (\E c \in Client : pc[c] = "rs_sem"), ~task.running_
      PROVE  (Spent \/ Fresh)' \/ Starting'
  BY <1>1, <1>2, RestStays DEF DrainInv, RestInv
<1>3. CASE Starting'
  BY <1>3, StartingFresh
<1>4. CASE ~Starting' /\ task'.join_sem_ = "null"
  <2>1. CASE Starting
    <3>1. Fresh /\ UNCHANGED <<queued, step, callback, timers>> /\ ~task'.running_
          /\ \A c \in Client : pc'[c] \in CallPcs => pc[c] \in CallPcs
      BY <1>4, <2>1, SemGoes, StartingFresh DEF DrainInv
    <3>2. task.running_
      BY <2>1 DEF Starting, UseInv
    <3>3. \A c \in Client : pc'[c] \notin CallPcs
      BY <3>1, <3>2 DEF Fresh
    <3> QED
      BY <3>1, <3>3 DEF Fresh
  <2>2. CASE ~Starting
    <3>1. task.join_sem_ = "null" \/ \E c \in Client : pc[c] = "rs_sem"
      BY <1>4, SemGoes
    <3>2. ~task.running_
      BY <2>2, <3>1 DEF DrainInv, SemInv, UseInv, ResetPcs
    <3> QED
      BY <1>2, <1>4, <3>1, <3>2
  <2> QED
    BY <2>1, <2>2
<1>5. ASSUME ~Starting', NEW c \in Client, pc'[c] = "rs_sem" PROVE (Spent \/ Fresh)'
  <2>1. CASE pc[c] = "rs_sem"
    <3>1. ~task.running_
      BY <2>1 DEF UseInv, ResetPcs
    <3> QED
      BY <1>2, <1>5, <2>1, <3>1
  <2>2. CASE pc[c] # "rs_sem"
    <3>1. /\ pc[c] \in {"rs_drain", "rs_wait"}
          /\ step' = step /\ task'.terminate_requested_ = task.terminate_requested_
          /\ task.inflight_count_ = 0 \/ task.join_sem_ \in {"null", "given"}
      BY <1>5, <2>2, GetsPast
    <3>2. ~task.running_ /\ task.terminate_requested_
      BY <3>1 DEF UseInv, ResetPcs, DrainInv, TermInv
    <3>3. CASE task.inflight_count_ = 0
      <4>1. step.pc \in {"idle", "give_check", "give"}
        <5>1. queued \in Nat /\ ToCount(callback = "push") \in Nat /\ ToCount(Executing) \in {0, 1}
          BY ConfigAssumption DEF Types, TypeOK, ToCount
        <5>2. Count(Client, pc, PushPcs) \in Nat
          BY CountIsNat
        <5>3. ToCount(Executing) = 0
          BY <3>3, <5>1, <5>2 DEF CoverInv, InFlight
        <5> QED
          BY <5>3 DEF ToCount, Executing
      <4> QED
        BY <3>1, <3>2, <4>1 DEF Spent, Calm
    <3>4. CASE task.join_sem_ = "null"
      BY <1>2, <1>5, <3>2, <3>4
    <3>5. CASE task.join_sem_ = "given"
      BY <3>1, <3>5 DEF DrainInv, GivenInv, Spent
    <3> QED
      BY <3>1, <3>3, <3>4, <3>5
  <2> QED
    BY <2>1, <2>2
<1> QED
  BY <1>3, <1>4, <1>5

-----------------------------------------------------------------------------
(* Used as it is meant to be *)

\* The invariant, as far as the main loop's queue may be full.
UsedInv == Types /\ UseInv /\ CoverInv /\ BudgetInv /\ DrainInv

\* Nothing has been used yet.
LEMMA UsedInit == Init => UsedInv
<1> SUFFICES ASSUME Init PROVE UsedInv
  OBVIOUS
<1>1. Types
  BY InitTypes
<1>2. UseInv
  BY DEF Init, UseInv, Busy, StartPcs, ResetPcs
<1>3. Count(Client, pc, PushPcs) = 0 /\ Count(Client, pc, Ahead) = 0
  BY CountNone DEF Init, PushPcs, Ahead, BeforeTimer
<1>4. CoverInv /\ BudgetInv
  BY <1>3 DEF Init, CoverInv, BudgetInv, InFlight, Executing, ToCount
<1>5. DrainInv
  BY DEF Init, DrainInv, SemInv, TermInv, GivenInv, RestInv, Fresh, CallPcs, ResetPcs
<1> QED
  BY <1>1, <1>2, <1>4, <1>5 DEF UsedInv

\* What holds of an object that is used as it is meant, a step at a time.
LEMMA UsedStep ==
  ASSUME UsedAsMeant, RoomToCount, UsedInv, [Next]_vars
  PROVE  UsedInv'
<1> USE DEF UsedInv
<1>1. Types' /\ UseInv'
  BY TypesStep, UseStep
<1>2. CoverInv' /\ BudgetInv'
  BY CoverStep
<1>3. DrainInv'
  BY <1>1, SemStep, TermStep, GivenStep, RestStep DEF DrainInv
<1> QED
  BY <1>1, <1>2, <1>3

\* What holds of an object that is used as it is meant.
LEMMA UsedInvariance ==
  ASSUME UsedAsMeant, RoomToCount
  PROVE  Spec => []UsedInv
<1>1. Init => UsedInv
  BY UsedInit
<1>2. UsedInv /\ [Next]_vars => UsedInv'
  BY UsedStep
<1> QED
  BY <1>1, <1>2, PTL DEF Spec

\* The steps of the property are those of the invariant.
LEMMA StepsCounted == InFlight = StepsInFlight
  BY DEF InFlight, StepsInFlight, Executing, Count, PushPcs

\* reset never overlooks a step that is queued, executing or about to be pushed,
\* even when pushes fail and reset times out.
THEOREM CountCovers ==
  ASSUME UsedAsMeant, RoomToCount
  PROVE  Spec => []InflightCoversSteps
<1>1. UsedInv => InflightCoversSteps
  BY StepsCounted DEF UsedInv, CoverInv, InflightCoversSteps
<1> QED
  BY <1>1, UsedInvariance, PTL

\* Once reset has returned in time, no on_step or on_stop runs until the next
\* start, whether or not steps could be pushed and other resets timed out.
THEOREM NothingAfterReset ==
  ASSUME UsedAsMeant, RoomToCount
  PROVE  Spec => []NoCallbackAfterReset
<1>1. UsedInv => NoCallbackAfterReset
  <2> SUFFICES ASSUME UsedInv, TornDown, ~timed_out PROVE step.pc \notin UserCode
    BY DEF NoCallbackAfterReset
  <2>1. task.join_sem_ = "null"
    BY DEF UsedInv, DrainInv, SemInv, TornDown
  <2>2. Spent \/ Fresh
    BY <2>1 DEF UsedInv, DrainInv, RestInv
  <2> QED
    BY <2>2 DEF Spent, Fresh, Calm, UserCode
<1> QED
  BY <1>1, UsedInvariance, PTL

\* With room in the queue for every step, inflight_count_ is exactly the number
\* of steps queued, executing or about to be pushed.
THEOREM CountExact ==
  ASSUME UsedAsMeant, RoomToCount, RoomToPush
  PROVE  Spec => []InflightExact
<1>1. Init => ExactInv
  <2> SUFFICES ASSUME Init PROVE ExactInv
    OBVIOUS
  <2>1. Count(Client, pc, PushPcs) = 0
    BY CountNone DEF Init, PushPcs
  <2> QED
    BY <2>1 DEF Init, ExactInv, InFlight, Executing, ToCount
<1>2. UsedInv /\ ExactInv /\ [Next]_vars => ExactInv'
  BY ExactStep DEF UsedInv
<1>3. ExactInv => InflightExact
  BY StepsCounted DEF ExactInv, InflightExact
<1> QED
  BY <1>1, <1>2, <1>3, UsedInvariance, PTL DEF Spec

-----------------------------------------------------------------------------
(* What a start or a notify is owed *)

\* Each notify is owed by a version above all those a step has loaded before it.
LEMMA OwedStep ==
  ASSUME UsedAsMeant, RoomToTell, Types, UseInv, OwedInv, [Next]_vars
  PROVE  OwedInv'
<1> USE ConfigAssumption DEF Types, TypeOK, Fields, OwedInv, Sequence, RoomToTell, UserCode
<1>1. ASSUME NEW c \in Client, StartClaim(c) PROVE OwedInv'
  <2>1. Moved(c)
    BY <1>1, ClientMoves
  <2> QED
    BY <1>1, <2>1 DEF StartClaim, Moved, BeforeBump, UserCode, CanCall
<1>2. ASSUME NEW c \in Client, StartFlags(c) PROVE OwedInv'
  <2>1. Moved(c)
    BY <1>2, ClientMoves
  <2> QED
    BY <1>2, <2>1 DEF StartFlags, Moved, BeforeBump, UserCode, CanCall
<1>3. ASSUME NEW c \in Client, StartVersion(c) PROVE OwedInv'
  <2>1. /\ step.pc = "idle" /\ \A d \in Client : d # c => pc[d] = "idle"
    BY <1>3 DEF StartVersion, UseInv, NothingBut, StartPcs
  <2>2. /\ pc' = [pc EXCEPT ![c] = "st_inflight"] /\ task'.sequence_version_ = 1
        /\ UNCHANGED <<step, calls>>
    BY <1>3 DEF StartVersion, Activate
  <2>3. Count(Client, pc', BeforeBump) = 0
    <3>1. \A d \in Client : pc'[d] \notin BeforeBump
      BY <2>1, <2>2 DEF BeforeBump
    <3> QED
      BY <3>1, CountNone
  <2> QED
    BY <2>1, <2>2, <2>3
<1>4. ASSUME NEW c \in Client, StartInflight(c) PROVE OwedInv'
  <2>1. Moved(c)
    BY <1>4, ClientMoves
  <2> QED
    BY <1>4, <2>1 DEF StartInflight, Moved, BeforeBump, UserCode, CanCall
<1>5. ASSUME NEW c \in Client, StartPm(c) PROVE OwedInv'
  <2>1. Moved(c)
    BY <1>5, ClientMoves
  <2> QED
    BY <1>5, <2>1 DEF StartPm, Moved, BeforeBump, UserCode, CanCall
<1>6. ASSUME NEW c \in Client, StartSem(c) PROVE OwedInv'
  <2>1. Moved(c)
    BY <1>6, ClientMoves
  <2> QED
    BY <1>6, <2>1 DEF StartSem, StartFails, Moved, BeforeBump, UserCode, CanCall
<1>7. ASSUME NEW c \in Client, StartTimer(c) PROVE OwedInv'
  <2>1. Moved(c)
    BY <1>7, ClientMoves
  <2> QED
    BY <1>7, <2>1 DEF StartTimer, StartFails, Moved, BeforeBump, UserCode, CanCall
<1>8. ASSUME NEW c \in Client, StartAdd(c) PROVE OwedInv'
  <2>1. Moved(c)
    BY <1>8, ClientMoves
  <2> QED
    BY <1>8, <2>1 DEF StartAdd, FetchAdd, Moved, BeforeBump, UserCode, CanCall
<1>9. ASSUME NEW c \in Client, StartPush(c) PROVE OwedInv'
  <2>1. Moved(c)
    BY <1>9, ClientMoves
  <2> QED
    BY <1>9, <2>1 DEF StartPush, PushOk, PushFails, Moved, BeforeBump, UserCode, CanCall
<1>10. ASSUME NEW c \in Client, StartUndo(c) PROVE OwedInv'
  <2>1. Moved(c)
    BY <1>10, ClientMoves
  <2> QED
    BY <1>10, <2>1 DEF StartUndo, FetchAdd, StartFails, Moved, BeforeBump, UserCode, CanCall
<1>11. ASSUME NEW c \in Client, NotifyCheck(c) PROVE OwedInv'
  <2>1. Moved(c)
    BY <1>11, ClientMoves
  <2> QED
    BY <1>11, <2>1 DEF NotifyCheck, BeginCall, Moved, BeforeBump, UserCode, CanCall
<1>12. ASSUME NEW c \in Client, StopFlag(c) PROVE OwedInv'
  <2>1. Moved(c)
    BY <1>12, ClientMoves
  <2> QED
    BY <1>12, <2>1 DEF StopFlag, BeginCall, Moved, BeforeBump, UserCode, CanCall
<1>13. ASSUME NEW c \in Client, NotifyClear(c) PROVE OwedInv'
  <2>1. Moved(c)
    BY <1>13, ClientMoves
  <2> QED
    BY <1>13, <2>1 DEF NotifyClear, Moved, BeforeBump, UserCode, CanCall
<1>14. ASSUME NEW c \in Client, NotifyBump(c) PROVE OwedInv'
  <2>1. Moved(c)
    BY <1>14, ClientMoves
  <2> QED
    BY <1>14, <2>1 DEF NotifyBump, Activate, Moved, BeforeBump, UserCode, CanCall
<1>15. ASSUME NEW c \in Client, StopCheck(c) PROVE OwedInv'
  <2>1. Moved(c)
    BY <1>15, ClientMoves
  <2> QED
    BY <1>15, <2>1 DEF StopCheck, Moved, BeforeBump, UserCode, CanCall
<1>16. ASSUME NEW c \in Client, CallTimer(c) PROVE OwedInv'
  <2>1. Moved(c)
    BY <1>16, ClientMoves
  <2> QED
    BY <1>16, <2>1 DEF CallTimer, TimerStop, TimerIs, SetTimer, Moved, BeforeBump, UserCode, CanCall
<1>17. ASSUME NEW c \in Client, CallAdd(c) PROVE OwedInv'
  <2>1. Moved(c)
    BY <1>17, ClientMoves
  <2> QED
    BY <1>17, <2>1 DEF CallAdd, FetchAdd, Moved, BeforeBump, UserCode, CanCall
<1>18. ASSUME NEW c \in Client, CallPush(c) PROVE OwedInv'
  <2>1. Moved(c)
    BY <1>18, ClientMoves
  <2> QED
    BY <1>18, <2>1 DEF CallPush, PushOk, PushFails, Moved, BeforeBump, UserCode, CanCall
<1>19. ASSUME NEW c \in Client, ResetClaim(c) PROVE OwedInv'
  <2>1. Moved(c)
    BY <1>19, ClientMoves
  <2> QED
    BY <1>19, <2>1 DEF ResetClaim, Moved, BeforeBump, UserCode, CanCall
<1>20. ASSUME NEW c \in Client, ResetTerminate(c) PROVE OwedInv'
  <2>1. Moved(c)
    BY <1>20, ClientMoves
  <2> QED
    BY <1>20, <2>1 DEF ResetTerminate, Moved, BeforeBump, UserCode, CanCall
<1>21. ASSUME NEW c \in Client, ResetTimerStop(c) PROVE OwedInv'
  <2>1. Moved(c)
    BY <1>21, ClientMoves
  <2> QED
    BY <1>21, <2>1 DEF ResetTimerStop, TimerStop, TimerIs, SetTimer, Moved, BeforeBump, UserCode, CanCall
<1>22. ASSUME NEW c \in Client, ResetTimerDelete(c) PROVE OwedInv'
  <2>1. Moved(c)
    BY <1>22, ClientMoves
  <2> QED
    BY <1>22, <2>1 DEF ResetTimerDelete, TimerIs, SetTimer, Moved, BeforeBump, UserCode, CanCall
<1>23. ASSUME NEW c \in Client, ResetTimerNull(c) PROVE OwedInv'
  <2>1. Moved(c)
    BY <1>23, ClientMoves
  <2> QED
    BY <1>23, <2>1 DEF ResetTimerNull, Moved, BeforeBump, UserCode, CanCall
<1>24. ASSUME NEW c \in Client, ResetDrain(c) PROVE OwedInv'
  <2>1. Moved(c)
    BY <1>24, ClientMoves
  <2> QED
    BY <1>24, <2>1 DEF ResetDrain, Moved, BeforeBump, UserCode, CanCall
<1>25. ASSUME NEW c \in Client, ResetWait(c) PROVE OwedInv'
  <2>1. Moved(c)
    BY <1>25, ClientMoves
  <2> QED
    BY <1>25, <2>1 DEF ResetWait, Moved, BeforeBump, UserCode, CanCall
<1>26. ASSUME NEW c \in Client, ResetSem(c) PROVE OwedInv'
  <2>1. Moved(c)
    BY <1>26, ClientMoves
  <2> QED
    BY <1>26, <2>1 DEF ResetSem, Moved, BeforeBump, UserCode, CanCall
<1>27. ASSUME NEW c \in Client, ResetPm(c) PROVE OwedInv'
  <2>1. Moved(c)
    BY <1>27, ClientMoves
  <2> QED
    BY <1>27, <2>1 DEF ResetPm, Moved, BeforeBump, UserCode, CanCall
<1>28. ASSUME NEW t \in TimerId, TimerFire(t) PROVE OwedInv'
  BY <1>28, CountIsNat DEF TimerFire
<1>29. CASE CallbackAdd
  BY <1>29, CountIsNat DEF CallbackAdd, FetchAdd
<1>30. CASE CallbackPush
  BY <1>30, CountIsNat DEF CallbackPush, PushOk, PushFails
<1>31. CASE StepPop
  BY <1>31, CountIsNat DEF StepPop
<1>32. CASE StepLoad
  <2>1. owed' <=> owed /\ task.sequence_version_ = 0
    BY <1>32, Zenon DEF StepLoad
  <2>2. ~owed'
    BY <2>1
  <2> QED
    BY <1>32, <2>2, CountIsNat DEF StepLoad
<1>33. CASE StepCheck
  BY <1>33, CountIsNat DEF StepCheck, NothingToDo
<1>34. CASE StepAcquire
  BY <1>34, CountIsNat DEF StepAcquire
<1>35. CASE StepChoose
  BY <1>35, CountIsNat DEF StepChoose
<1>36. CASE OnStepReturns
  BY <1>36, CountIsNat DEF OnStepReturns
<1>37. CASE StepRearm
  BY <1>37, CountIsNat DEF StepRearm
<1>38. CASE StepTimerStop
  BY <1>38, CountIsNat DEF StepTimerStop, TimerStop, TimerIs, SetTimer
<1>39. CASE StepTimerStart
  BY <1>39, CountIsNat DEF StepTimerStart, TimerIs, SetTimer
<1>40. CASE OnStopReturns
  BY <1>40, CountIsNat DEF OnStopReturns
<1>41. CASE StepDeactivate
  BY <1>41, CountIsNat DEF StepDeactivate, Deactivated, Exchanged
<1>42. CASE StepRelease
  BY <1>42, CountIsNat DEF StepRelease, Released
<1>43. CASE StepExit
  BY <1>43, CountIsNat DEF StepExit, Decremented, FetchAdd
<1>44. CASE StepGiveCheck
  BY <1>44, CountIsNat DEF StepGiveCheck
<1>45. CASE StepGive
  BY <1>45, CountIsNat DEF StepGive
<1>46. CASE UNCHANGED vars
  BY <1>46, CountIsNat DEF vars
<1> QED
  BY <1>1, <1>2, <1>3, <1>4, <1>5, <1>6, <1>7, <1>8, <1>9, <1>10, <1>11, <1>12, <1>13, <1>14,
     <1>15, <1>16, <1>17, <1>18, <1>19, <1>20, <1>21, <1>22, <1>23, <1>24, <1>25, <1>26,
     <1>27, <1>28, <1>29, <1>30, <1>31, <1>32, <1>33, <1>34, <1>35, <1>36, <1>37, <1>38,
     <1>39, <1>40, <1>41, <1>42, <1>43, <1>44, <1>45, <1>46
     DEF Next, Start, Call, Reset, Step

\* The version changes behind a step's back only by a notify or a start, which
\* are owed a step.
LEMMA UnseenStep ==
  ASSUME UsedAsMeant, Types, UseInv, UnseenInv, [Next]_vars
  PROVE  UnseenInv'
<1> USE ConfigAssumption DEF Types, TypeOK, Fields, UnseenInv, Sequence, UserCode
<1>1. ASSUME NEW c \in Client, StartClaim(c) PROVE UnseenInv'
  BY <1>1 DEF StartClaim
<1>2. ASSUME NEW c \in Client, StartFlags(c) PROVE UnseenInv'
  BY <1>2 DEF StartFlags
<1>3. ASSUME NEW c \in Client, StartVersion(c) PROVE UnseenInv'
  BY <1>3 DEF StartVersion, Activate
<1>4. ASSUME NEW c \in Client, StartInflight(c) PROVE UnseenInv'
  BY <1>4 DEF StartInflight
<1>5. ASSUME NEW c \in Client, StartPm(c) PROVE UnseenInv'
  BY <1>5 DEF StartPm
<1>6. ASSUME NEW c \in Client, StartSem(c) PROVE UnseenInv'
  BY <1>6 DEF StartSem, StartFails
<1>7. ASSUME NEW c \in Client, StartTimer(c) PROVE UnseenInv'
  BY <1>7 DEF StartTimer, StartFails
<1>8. ASSUME NEW c \in Client, StartAdd(c) PROVE UnseenInv'
  BY <1>8 DEF StartAdd, FetchAdd
<1>9. ASSUME NEW c \in Client, StartPush(c) PROVE UnseenInv'
  BY <1>9 DEF StartPush, PushOk, PushFails
<1>10. ASSUME NEW c \in Client, StartUndo(c) PROVE UnseenInv'
  BY <1>10 DEF StartUndo, FetchAdd, StartFails
<1>11. ASSUME NEW c \in Client, NotifyCheck(c) PROVE UnseenInv'
  BY <1>11 DEF NotifyCheck, BeginCall
<1>12. ASSUME NEW c \in Client, StopFlag(c) PROVE UnseenInv'
  BY <1>12 DEF StopFlag, BeginCall
<1>13. ASSUME NEW c \in Client, NotifyClear(c) PROVE UnseenInv'
  BY <1>13 DEF NotifyClear
<1>14. ASSUME NEW c \in Client, NotifyBump(c) PROVE UnseenInv'
  BY <1>14 DEF NotifyBump, Activate
<1>15. ASSUME NEW c \in Client, StopCheck(c) PROVE UnseenInv'
  BY <1>15 DEF StopCheck
<1>16. ASSUME NEW c \in Client, CallTimer(c) PROVE UnseenInv'
  BY <1>16 DEF CallTimer, TimerStop, TimerIs, SetTimer
<1>17. ASSUME NEW c \in Client, CallAdd(c) PROVE UnseenInv'
  BY <1>17 DEF CallAdd, FetchAdd
<1>18. ASSUME NEW c \in Client, CallPush(c) PROVE UnseenInv'
  BY <1>18 DEF CallPush, PushOk, PushFails
<1>19. ASSUME NEW c \in Client, ResetClaim(c) PROVE UnseenInv'
  BY <1>19 DEF ResetClaim
<1>20. ASSUME NEW c \in Client, ResetTerminate(c) PROVE UnseenInv'
  BY <1>20 DEF ResetTerminate
<1>21. ASSUME NEW c \in Client, ResetTimerStop(c) PROVE UnseenInv'
  BY <1>21 DEF ResetTimerStop, TimerStop, TimerIs, SetTimer
<1>22. ASSUME NEW c \in Client, ResetTimerDelete(c) PROVE UnseenInv'
  BY <1>22 DEF ResetTimerDelete, TimerIs, SetTimer
<1>23. ASSUME NEW c \in Client, ResetTimerNull(c) PROVE UnseenInv'
  BY <1>23 DEF ResetTimerNull
<1>24. ASSUME NEW c \in Client, ResetDrain(c) PROVE UnseenInv'
  BY <1>24 DEF ResetDrain
<1>25. ASSUME NEW c \in Client, ResetWait(c) PROVE UnseenInv'
  BY <1>25 DEF ResetWait
<1>26. ASSUME NEW c \in Client, ResetSem(c) PROVE UnseenInv'
  BY <1>26 DEF ResetSem
<1>27. ASSUME NEW c \in Client, ResetPm(c) PROVE UnseenInv'
  BY <1>27 DEF ResetPm
<1>28. ASSUME NEW t \in TimerId, TimerFire(t) PROVE UnseenInv'
  BY <1>28 DEF TimerFire
<1>29. CASE CallbackAdd
  BY <1>29 DEF CallbackAdd, FetchAdd
<1>30. CASE CallbackPush
  BY <1>30 DEF CallbackPush, PushOk, PushFails
<1>31. CASE StepPop
  BY <1>31 DEF StepPop
<1>32. CASE StepLoad
  BY <1>32 DEF StepLoad
<1>33. CASE StepCheck
  BY <1>33 DEF StepCheck, NothingToDo
<1>34. CASE StepAcquire
  BY <1>34 DEF StepAcquire
<1>35. CASE StepChoose
  BY <1>35 DEF StepChoose
<1>36. CASE OnStepReturns
  BY <1>36 DEF OnStepReturns
<1>37. CASE StepRearm
  BY <1>37 DEF StepRearm
<1>38. CASE StepTimerStop
  BY <1>38 DEF StepTimerStop, TimerStop, TimerIs, SetTimer
<1>39. CASE StepTimerStart
  BY <1>39 DEF StepTimerStart, TimerIs, SetTimer
<1>40. CASE OnStopReturns
  BY <1>40 DEF OnStopReturns
<1>41. CASE StepDeactivate
  BY <1>41 DEF StepDeactivate, Deactivated, Exchanged
<1>42. CASE StepRelease
  BY <1>42 DEF StepRelease, Released
<1>43. CASE StepExit
  BY <1>43 DEF StepExit, Decremented, FetchAdd
<1>44. CASE StepGiveCheck
  BY <1>44 DEF StepGiveCheck
<1>45. CASE StepGive
  BY <1>45 DEF StepGive
<1>46. CASE UNCHANGED vars
  BY <1>46 DEF vars
<1> QED
  BY <1>1, <1>2, <1>3, <1>4, <1>5, <1>6, <1>7, <1>8, <1>9, <1>10, <1>11, <1>12, <1>13, <1>14,
     <1>15, <1>16, <1>17, <1>18, <1>19, <1>20, <1>21, <1>22, <1>23, <1>24, <1>25, <1>26,
     <1>27, <1>28, <1>29, <1>30, <1>31, <1>32, <1>33, <1>34, <1>35, <1>36, <1>37, <1>38,
     <1>39, <1>40, <1>41, <1>42, <1>43, <1>44, <1>45, <1>46
     DEF Next, Start, Call, Reset, Step

\* A full queue holds a step: a push that fails is one that was not needed.
LEMMA AnswerStep ==
  ASSUME UsedAsMeant, ~Foreign, Types, UseInv, AnswerInv, [Next]_vars
  PROVE  AnswerInv'
<1> USE ConfigAssumption DEF Types, TypeOK, Fields, AnswerInv, Pushing, StartPcs
<1>1. ASSUME NEW c \in Client, StartClaim(c) PROVE AnswerInv'
  BY <1>1 DEF StartClaim, UserCode
<1>2. ASSUME NEW c \in Client, StartFlags(c) PROVE AnswerInv'
  BY <1>2 DEF StartFlags, UserCode
<1>3. ASSUME NEW c \in Client, StartVersion(c) PROVE AnswerInv'
  BY <1>3 DEF StartVersion, Activate, UserCode
<1>4. ASSUME NEW c \in Client, StartInflight(c) PROVE AnswerInv'
  BY <1>4 DEF StartInflight, UserCode
<1>5. ASSUME NEW c \in Client, StartPm(c) PROVE AnswerInv'
  BY <1>5 DEF StartPm, UserCode
<1>6. ASSUME NEW c \in Client, StartSem(c) PROVE AnswerInv'
  BY <1>6 DEF StartSem, StartFails, UserCode
<1>7. ASSUME NEW c \in Client, StartTimer(c) PROVE AnswerInv'
  BY <1>7 DEF StartTimer, StartFails, UserCode
<1>8. ASSUME NEW c \in Client, StartAdd(c) PROVE AnswerInv'
  BY <1>8 DEF StartAdd, FetchAdd, UserCode
<1>9. ASSUME NEW c \in Client, StartPush(c) PROVE AnswerInv'
  BY <1>9 DEF StartPush, PushOk, PushFails, UserCode
<1>10. ASSUME NEW c \in Client, StartUndo(c) PROVE AnswerInv'
  BY <1>10 DEF StartUndo, FetchAdd, StartFails, UserCode
<1>11. ASSUME NEW c \in Client, NotifyCheck(c) PROVE AnswerInv'
  BY <1>11 DEF NotifyCheck, BeginCall, CanCall, UserCode
<1>12. ASSUME NEW c \in Client, StopFlag(c) PROVE AnswerInv'
  BY <1>12 DEF StopFlag, BeginCall, CanCall, UserCode
<1>13. ASSUME NEW c \in Client, NotifyClear(c) PROVE AnswerInv'
  BY <1>13 DEF NotifyClear, UserCode
<1>14. ASSUME NEW c \in Client, NotifyBump(c) PROVE AnswerInv'
  BY <1>14 DEF NotifyBump, Activate, UserCode
<1>15. ASSUME NEW c \in Client, StopCheck(c) PROVE AnswerInv'
  BY <1>15 DEF StopCheck, UserCode
<1>16. ASSUME NEW c \in Client, CallTimer(c) PROVE AnswerInv'
  BY <1>16 DEF CallTimer, TimerStop, TimerIs, SetTimer, UserCode
<1>17. ASSUME NEW c \in Client, CallAdd(c) PROVE AnswerInv'
  BY <1>17 DEF CallAdd, FetchAdd, UserCode
<1>18. ASSUME NEW c \in Client, CallPush(c) PROVE AnswerInv'
  BY <1>18 DEF CallPush, PushOk, PushFails, UserCode
<1>19. ASSUME NEW c \in Client, ResetClaim(c) PROVE AnswerInv'
  BY <1>19 DEF ResetClaim, UserCode
<1>20. ASSUME NEW c \in Client, ResetTerminate(c) PROVE AnswerInv'
  BY <1>20 DEF ResetTerminate, UserCode
<1>21. ASSUME NEW c \in Client, ResetTimerStop(c) PROVE AnswerInv'
  BY <1>21 DEF ResetTimerStop, TimerStop, TimerIs, SetTimer, UserCode
<1>22. ASSUME NEW c \in Client, ResetTimerDelete(c) PROVE AnswerInv'
  BY <1>22 DEF ResetTimerDelete, TimerIs, SetTimer, UserCode
<1>23. ASSUME NEW c \in Client, ResetTimerNull(c) PROVE AnswerInv'
  BY <1>23 DEF ResetTimerNull, UserCode
<1>24. ASSUME NEW c \in Client, ResetDrain(c) PROVE AnswerInv'
  BY <1>24 DEF ResetDrain, UserCode
<1>25. ASSUME NEW c \in Client, ResetWait(c) PROVE AnswerInv'
  BY <1>25 DEF ResetWait, UserCode
<1>26. ASSUME NEW c \in Client, ResetSem(c) PROVE AnswerInv'
  BY <1>26 DEF ResetSem, UserCode
<1>27. ASSUME NEW c \in Client, ResetPm(c) PROVE AnswerInv'
  BY <1>27 DEF ResetPm, UserCode
<1>28. ASSUME NEW t \in TimerId, TimerFire(t) PROVE AnswerInv'
  BY <1>28 DEF TimerFire, UserCode
<1>29. CASE CallbackAdd
  BY <1>29 DEF CallbackAdd, FetchAdd, UserCode
<1>30. CASE CallbackPush
  BY <1>30 DEF CallbackPush, PushOk, PushFails, UserCode
<1>31. CASE StepPop
  BY <1>31 DEF StepPop, UserCode
<1>32. CASE StepLoad
  <2>1. owed' => task.sequence_version_ = 0
    BY <1>32, Zenon DEF StepLoad
  <2> QED
    BY <1>32, <2>1 DEF StepLoad, UserCode
<1>33. CASE StepCheck
  BY <1>33 DEF StepCheck, NothingToDo, UserCode
<1>34. CASE StepAcquire
  BY <1>34 DEF StepAcquire, UserCode
<1>35. CASE StepChoose
  BY <1>35 DEF StepChoose, UserCode
<1>36. CASE OnStepReturns
  BY <1>36 DEF OnStepReturns, UserCode
<1>37. CASE StepRearm
  BY <1>37 DEF StepRearm, UserCode
<1>38. CASE StepTimerStop
  BY <1>38 DEF StepTimerStop, TimerStop, TimerIs, SetTimer, UserCode
<1>39. CASE StepTimerStart
  BY <1>39 DEF StepTimerStart, TimerIs, SetTimer, UserCode
<1>40. CASE OnStopReturns
  BY <1>40 DEF OnStopReturns, UserCode
<1>41. CASE StepDeactivate
  BY <1>41 DEF StepDeactivate, Deactivated, Exchanged, UserCode
<1>42. CASE StepRelease
  BY <1>42 DEF StepRelease, Released, UserCode
<1>43. CASE StepExit
  BY <1>43 DEF StepExit, Decremented, FetchAdd, UserCode
<1>44. CASE StepGiveCheck
  BY <1>44 DEF StepGiveCheck, UserCode
<1>45. CASE StepGive
  BY <1>45 DEF StepGive, UserCode
<1>46. CASE UNCHANGED vars
  BY <1>46 DEF vars, UserCode
<1> QED
  BY <1>1, <1>2, <1>3, <1>4, <1>5, <1>6, <1>7, <1>8, <1>9, <1>10, <1>11, <1>12, <1>13, <1>14,
     <1>15, <1>16, <1>17, <1>18, <1>19, <1>20, <1>21, <1>22, <1>23, <1>24, <1>25, <1>26,
     <1>27, <1>28, <1>29, <1>30, <1>31, <1>32, <1>33, <1>34, <1>35, <1>36, <1>37, <1>38,
     <1>39, <1>40, <1>41, <1>42, <1>43, <1>44, <1>45, <1>46
     DEF Next, Start, Call, Reset, Step

\* A step either re-arms the timer, is pushed again for a version it has not
\* seen, or ends the sequence by making the version inactive.
LEMMA AliveStep ==
  ASSUME UsedAsMeant, ~Foreign, Types, UseInv, UnseenInv, AnswerInv, AliveInv, [Next]_vars
  PROVE  AliveInv'
<1> USE ConfigAssumption DEF Types, TypeOK, Fields, AliveInv, Pushing, StartPcs
<1>1. ASSUME NEW c \in Client, StartClaim(c) PROVE AliveInv'
  BY <1>1 DEF StartClaim, TimerIs, UserCode
<1>2. ASSUME NEW c \in Client, StartFlags(c) PROVE AliveInv'
  BY <1>2 DEF StartFlags, TimerIs, UserCode
<1>3. ASSUME NEW c \in Client, StartVersion(c) PROVE AliveInv'
  BY <1>3 DEF StartVersion, Activate, TimerIs, UserCode
<1>4. ASSUME NEW c \in Client, StartInflight(c) PROVE AliveInv'
  BY <1>4 DEF StartInflight, TimerIs, UserCode
<1>5. ASSUME NEW c \in Client, StartPm(c) PROVE AliveInv'
  BY <1>5 DEF StartPm, TimerIs, UserCode
<1>6. ASSUME NEW c \in Client, StartSem(c) PROVE AliveInv'
  BY <1>6 DEF StartSem, StartFails, TimerIs, UserCode
<1>7. ASSUME NEW c \in Client, StartTimer(c) PROVE AliveInv'
  BY <1>7 DEF StartTimer, StartFails, TimerIs, UserCode
<1>8. ASSUME NEW c \in Client, StartAdd(c) PROVE AliveInv'
  BY <1>8 DEF StartAdd, FetchAdd, TimerIs, UserCode
<1>9. ASSUME NEW c \in Client, StartPush(c) PROVE AliveInv'
  BY <1>9 DEF StartPush, PushOk, PushFails, TimerIs, UserCode
<1>10. ASSUME NEW c \in Client, StartUndo(c) PROVE AliveInv'
  BY <1>10 DEF StartUndo, FetchAdd, StartFails, TimerIs, UserCode
<1>11. ASSUME NEW c \in Client, NotifyCheck(c) PROVE AliveInv'
  BY <1>11 DEF NotifyCheck, BeginCall, CanCall, TimerIs, UserCode
<1>12. ASSUME NEW c \in Client, StopFlag(c) PROVE AliveInv'
  BY <1>12 DEF StopFlag, BeginCall, CanCall, TimerIs, UserCode
<1>13. ASSUME NEW c \in Client, NotifyClear(c) PROVE AliveInv'
  BY <1>13 DEF NotifyClear, TimerIs, UserCode
<1>14. ASSUME NEW c \in Client, NotifyBump(c) PROVE AliveInv'
  BY <1>14 DEF NotifyBump, Activate, TimerIs, UserCode
<1>15. ASSUME NEW c \in Client, StopCheck(c) PROVE AliveInv'
  BY <1>15 DEF StopCheck, TimerIs, UserCode
<1>16. ASSUME NEW c \in Client, CallTimer(c) PROVE AliveInv'
  BY <1>16 DEF CallTimer, TimerStop, TimerIs, SetTimer, UserCode
<1>17. ASSUME NEW c \in Client, CallAdd(c) PROVE AliveInv'
  BY <1>17 DEF CallAdd, FetchAdd, TimerIs, UserCode
<1>18. ASSUME NEW c \in Client, CallPush(c) PROVE AliveInv'
  BY <1>18 DEF CallPush, PushOk, PushFails, TimerIs, UserCode
<1>19. ASSUME NEW c \in Client, ResetClaim(c) PROVE AliveInv'
  BY <1>19 DEF ResetClaim, TimerIs, UserCode
<1>20. ASSUME NEW c \in Client, ResetTerminate(c) PROVE AliveInv'
  BY <1>20 DEF ResetTerminate, TimerIs, UserCode
<1>21. ASSUME NEW c \in Client, ResetTimerStop(c) PROVE AliveInv'
  <2>1. ~task.running_ /\ task' = task
    BY <1>21 DEF ResetTimerStop, UseInv, ResetPcs
  <2> QED
    BY <2>1
<1>22. ASSUME NEW c \in Client, ResetTimerDelete(c) PROVE AliveInv'
  BY <1>22 DEF ResetTimerDelete, TimerIs, SetTimer, UserCode
<1>23. ASSUME NEW c \in Client, ResetTimerNull(c) PROVE AliveInv'
  <2>1. ~task.running_ /\ task'.running_ = task.running_
    BY <1>23 DEF ResetTimerNull, UseInv, ResetPcs
  <2> QED
    BY <2>1
<1>24. ASSUME NEW c \in Client, ResetDrain(c) PROVE AliveInv'
  BY <1>24 DEF ResetDrain, TimerIs, UserCode
<1>25. ASSUME NEW c \in Client, ResetWait(c) PROVE AliveInv'
  BY <1>25 DEF ResetWait, TimerIs, UserCode
<1>26. ASSUME NEW c \in Client, ResetSem(c) PROVE AliveInv'
  BY <1>26 DEF ResetSem, TimerIs, UserCode
<1>27. ASSUME NEW c \in Client, ResetPm(c) PROVE AliveInv'
  BY <1>27 DEF ResetPm, TimerIs, UserCode
<1>28. ASSUME NEW t \in TimerId, TimerFire(t) PROVE AliveInv'
  BY <1>28 DEF TimerFire, TimerIs, UserCode
<1>29. CASE CallbackAdd
  BY <1>29 DEF CallbackAdd, FetchAdd, TimerIs, UserCode
<1>30. CASE CallbackPush
  BY <1>30 DEF CallbackPush, PushOk, PushFails, TimerIs, UserCode
<1>31. CASE StepPop
  BY <1>31 DEF StepPop, TimerIs, UserCode
<1>32. CASE StepLoad
  BY <1>32 DEF StepLoad, TimerIs, UserCode
<1>33. CASE StepCheck
  BY <1>33 DEF StepCheck, NothingToDo, TimerIs, UserCode, UnseenInv, AnswerInv, Sequence
<1>34. CASE StepAcquire
  BY <1>34 DEF StepAcquire, TimerIs, UserCode
<1>35. CASE StepChoose
  BY <1>35 DEF StepChoose, TimerIs, UserCode
<1>36. CASE OnStepReturns
  BY <1>36 DEF OnStepReturns, TimerIs, UserCode
<1>37. CASE StepRearm
  <2>1. task.running_ /\ ~Starting => TimerLive
    BY DEF UseInv
  <2> QED
    BY <1>37, <2>1 DEF StepRearm, TimerIs, UserCode, Starting, TimerLive
<1>38. CASE StepTimerStop
  BY <1>38 DEF StepTimerStop, TimerStop, TimerIs, SetTimer, UserCode
<1>39. CASE StepTimerStart
  <2>1. task.running_ /\ ~Starting => TimerLive
    BY DEF UseInv
  <2> QED
    <3> DEFINE h == task.timer_handle_
    <3>1. task' = task /\ pc' = pc /\ queued' = queued
      BY <1>39 DEF StepTimerStart
    <3>2. CASE Starting
      BY <3>1, <3>2 DEF Starting
    <3>3. CASE task.running_ /\ ~Starting
      <4>1. h # 0 /\ timers[h] \in {"idle", "armed"}
        BY <2>1, <3>3 DEF TimerLive
      <4>2. h \in TimerId
        BY <4>1 DEF TimerId
      <4>3. timers'[h] = "armed"
        BY <1>39, <4>1, <4>2 DEF StepTimerStart, SetTimer, TimerIs
      <4> QED
        BY <3>1, <4>1, <4>3 DEF TimerIs
    <3>4. CASE ~task.running_
      BY <3>1, <3>4
    <3> QED
      BY <3>2, <3>3, <3>4
<1>40. CASE OnStopReturns
  BY <1>40 DEF OnStopReturns, TimerIs, UserCode
<1>41. CASE StepDeactivate
  BY <1>41 DEF StepDeactivate, Deactivated, Exchanged, TimerIs, UserCode, UnseenInv, AnswerInv,
               Sequence
<1>42. CASE StepRelease
  BY <1>42 DEF StepRelease, Released, TimerIs, UserCode
<1>43. CASE StepExit
  BY <1>43 DEF StepExit, Decremented, FetchAdd, TimerIs, UserCode
<1>44. CASE StepGiveCheck
  BY <1>44 DEF StepGiveCheck, TimerIs, UserCode
<1>45. CASE StepGive
  BY <1>45 DEF StepGive, TimerIs, UserCode
<1>46. CASE UNCHANGED vars
  BY <1>46 DEF vars, TimerIs, UserCode
<1> QED
  BY <1>1, <1>2, <1>3, <1>4, <1>5, <1>6, <1>7, <1>8, <1>9, <1>10, <1>11, <1>12, <1>13, <1>14,
     <1>15, <1>16, <1>17, <1>18, <1>19, <1>20, <1>21, <1>22, <1>23, <1>24, <1>25, <1>26,
     <1>27, <1>28, <1>29, <1>30, <1>31, <1>32, <1>33, <1>34, <1>35, <1>36, <1>37, <1>38,
     <1>39, <1>40, <1>41, <1>42, <1>43, <1>44, <1>45, <1>46
     DEF Next, Start, Call, Reset, Step
\* What is owed is kept until a step answers it, and a sequence goes on until it
\* is stopped.
GoingOnInv == UnseenInv /\ AnswerInv /\ AliveInv

\* A sequence that is not ended has something that will go on with it.
LEMMA GoesOn ==
  ASSUME UsedAsMeant, RoomToCount, ~Foreign
  PROVE  Spec => [](UsedInv /\ GoingOnInv)
<1>1. Init => GoingOnInv
  BY DEF Init, GoingOnInv, UnseenInv, AnswerInv, AliveInv, Sequence, UserCode
<1>2. UsedInv /\ GoingOnInv /\ [Next]_vars => GoingOnInv'
  BY UnseenStep, AnswerStep, AliveStep DEF UsedInv, GoingOnInv
<1> QED
  BY <1>1, <1>2, UsedInvariance, PTL DEF Spec

\* An active sequence of a running task never stalls, wherever notify, stop and
\* the timer interleave with its step: a full queue holds a step already.
THEOREM NeverStalls ==
  ASSUME UsedAsMeant, RoomToCount, ~Foreign
  PROVE  Spec => []SequenceAlive
<1>1. GoingOnInv => SequenceAlive
  BY DEF GoingOnInv, AliveInv, SequenceAlive, Pushing
<1> QED
  BY <1>1, GoesOn, PTL

\* A notify that comes while a step runs, ends its sequence or re-arms the timer
\* is answered by a step that is queued or about to be, as long as the versions
\* outnumber the calls: with fewer, the exchange could take a new version for
\* the old one.
THEOREM NothingLost ==
  ASSUME UsedAsMeant, RoomToCount, RoomToTell, ~Foreign
  PROVE  Spec => []NotifyNotLost
<1>1. Init => OwedInv
  <2> SUFFICES ASSUME Init PROVE OwedInv
    OBVIOUS
  <2>1. Count(Client, pc, BeforeBump) = 0
    BY CountNone DEF Init, BeforeBump
  <2> QED
    BY <2>1 DEF Init, OwedInv, Sequence, UserCode
<1>2. UsedInv /\ OwedInv /\ [Next]_vars => OwedInv'
  BY OwedStep DEF UsedInv
<1>3. OwedInv /\ GoingOnInv => NotifyNotLost
  BY DEF OwedInv, GoingOnInv, AnswerInv, NotifyNotLost, Pushing
<1> QED
  BY <1>1, <1>2, <1>3, UsedInvariance, GoesOn, PTL DEF Spec

-----------------------------------------------------------------------------
(* The life cycle *)

LifeStepped == [Lifecycle!Next]_(Lifecycle!vars)

\* What the owner sees changes with the flags, app_loop_step's place, and the
\* clients that start or reset.
LEMMA NothingSeen ==
  ASSUME step' = step, IsDown' <=> IsDown,
         task'.terminate_requested_ = task.terminate_requested_
  PROVE  LifeStepped
<1>1. Phase' = Phase
  BY DEF Phase
<1>2. Code' = Code /\ Left' = Left
  BY <1>1 DEF Code, Left
<1> QED
  BY <1>1, <1>2 DEF LifeStepped, Lifecycle!vars

\* An object that is down has no step that leads to user code.
LEMMA DownIsCalm ==
  ASSUME UsedInv, IsDown
  PROVE  step.pc \in Calm /\ (step.pc = "check" => task.terminate_requested_)
<1>1. Spent \/ Fresh
  <2>1. CASE Starting
    BY <2>1, StartingFresh DEF UsedInv
  <2>2. CASE ~Starting
    <3>1. task.join_sem_ = "null"
      BY <2>2 DEF UsedInv, DrainInv, SemInv, IsDown, Starting, StartPcs
    <3> QED
      BY <3>1 DEF UsedInv, DrainInv, RestInv, IsDown
  <2> QED
    BY <2>1, <2>2
<1> QED
  BY <1>1 DEF Spent, Fresh, Calm

\* The step leaves the flags and the clients alone.
LEMMA StepLeaves ==
  ASSUME task \in Fields, Step
  PROVE  /\ pc' = pc /\ timed_out' = timed_out /\ task'.running_ = task.running_
         /\ task'.terminate_requested_ = task.terminate_requested_
<1> USE DEF Fields
<1>1. CASE StepPop
  BY <1>1 DEF StepPop
<1>2. CASE StepLoad
  BY <1>2 DEF StepLoad
<1>3. CASE StepCheck
  BY <1>3 DEF StepCheck, NothingToDo
<1>4. CASE StepAcquire
  BY <1>4 DEF StepAcquire
<1>5. CASE StepChoose
  BY <1>5 DEF StepChoose
<1>6. CASE OnStepReturns
  BY <1>6 DEF OnStepReturns
<1>7. CASE StepRearm
  BY <1>7 DEF StepRearm
<1>8. CASE StepTimerStop
  BY <1>8 DEF StepTimerStop, TimerStop, TimerIs, SetTimer
<1>9. CASE StepTimerStart
  BY <1>9 DEF StepTimerStart, TimerIs, SetTimer
<1>10. CASE OnStopReturns
  BY <1>10 DEF OnStopReturns
<1>11. CASE StepDeactivate
  BY <1>11 DEF StepDeactivate, Deactivated, Exchanged
<1>12. CASE StepRelease
  BY <1>12 DEF StepRelease, Released
<1>13. CASE StepExit
  BY <1>13 DEF StepExit, Decremented, FetchAdd
<1>14. CASE StepGiveCheck
  BY <1>14 DEF StepGiveCheck
<1>15. CASE StepGive
  BY <1>15 DEF StepGive
<1> QED
  BY <1>1, <1>2, <1>3, <1>4, <1>5, <1>6, <1>7, <1>8, <1>9, <1>10, <1>11, <1>12, <1>13, <1>14, <1>15
     DEF Step

\* Where app_loop_step begins user code, and what it needs to get there.
Beginning ==
  \/ step'.pc \notin UserCode \cup {"acquire", "choose"}
  \/ step'.pc = "acquire" /\ step.pc = "check" /\ ~task.terminate_requested_
  \/ step'.pc = "choose" /\ step.pc = "acquire"
  \/ step'.pc \in UserCode /\ step.pc = "choose"
  \/ step'.pc = "on_stop" /\ step.pc = "on_step"

\* app_loop_step reads terminate_requested_ in one place before user code.
LEMMA StepMoves ==
  ASSUME Types, Step
  PROVE  Beginning
<1> USE DEF Types, TypeOK, Beginning, UserCode
<1>1. CASE StepPop
  BY <1>1 DEF StepPop
<1>2. CASE StepLoad
  BY <1>2 DEF StepLoad
<1>3. CASE StepCheck
  BY <1>3 DEF StepCheck, NothingToDo
<1>4. CASE StepAcquire
  BY <1>4 DEF StepAcquire
<1>5. CASE StepChoose
  BY <1>5 DEF StepChoose
<1>6. CASE OnStepReturns
  BY <1>6 DEF OnStepReturns
<1>7. CASE StepRearm
  BY <1>7 DEF StepRearm
<1>8. CASE StepTimerStop
  BY <1>8 DEF StepTimerStop, TimerStop, TimerIs, SetTimer
<1>9. CASE StepTimerStart
  BY <1>9 DEF StepTimerStart, TimerIs, SetTimer
<1>10. CASE OnStopReturns
  BY <1>10 DEF OnStopReturns
<1>11. CASE StepDeactivate
  BY <1>11 DEF StepDeactivate, Deactivated, Exchanged
<1>12. CASE StepRelease
  BY <1>12 DEF StepRelease, Released
<1>13. CASE StepExit
  BY <1>13 DEF StepExit, Decremented, FetchAdd
<1>14. CASE StepGiveCheck
  BY <1>14 DEF StepGiveCheck
<1>15. CASE StepGive
  BY <1>15 DEF StepGive
<1> QED
  BY <1>1, <1>2, <1>3, <1>4, <1>5, <1>6, <1>7, <1>8, <1>9, <1>10, <1>11, <1>12, <1>13, <1>14, <1>15
     DEF Step

\* Every step of the object is one of its life, or none: start's reset of the
\* flags brings it up, the flag of reset closes it, and when the last call of a
\* reset in time returns, no step runs the user's code or will.
LEMMA LifeSteps ==
  ASSUME UsedAsMeant, UsedInv, [Next]_vars
  PROVE  LifeStepped
<1>a. /\ UseInv /\ SemInv /\ Types /\ TypeOK /\ task \in Fields
      /\ pc \in [Client -> {"idle"} \cup StartPcs \cup ResetPcs \cup CallPcs]
  BY DEF UsedInv, Types, TypeOK, DrainInv
<1>b. CarefulStart /\ OneOwner
  BY DEF UsedAsMeant
<1> USE DEF Fields, UseInv, Busy, StartPcs, ResetPcs, CallPcs, OneOwner
<1>1. ASSUME NEW c \in Client, StartClaim(c) PROVE LifeStepped
  <2>1. /\ step' = step /\ (IsDown' <=> IsDown)
        /\ task'.terminate_requested_ = task.terminate_requested_
    BY <1>1, <1>a DEF StartClaim, CanCall, Quiescent, IsDown
  <2> QED
    BY <2>1, NothingSeen
<1>2. ASSUME NEW c \in Client, StartFlags(c) PROVE LifeStepped
  <2>1. step.pc = "idle" /\ step' = step
    BY <1>a, <1>2 DEF StartFlags, NothingBut
  <2>2. Code = "none" /\ Code' = "none"
    BY <2>1 DEF Code
  <2>3. ~IsDown' /\ ~task'.terminate_requested_
    BY <1>a, <1>2 DEF StartFlags, IsDown
  <2>4. Phase' = "up" /\ Left' = {"step", "stop"} /\ (Phase = "up" => Left = {"step", "stop"})
    BY <2>3 DEF Phase, Left
  <2> QED
    BY <2>2, <2>4 DEF LifeStepped, Lifecycle!Next, Lifecycle!Start, Lifecycle!Functions,
       Lifecycle!vars
<1>3. ASSUME NEW c \in Client, StartVersion(c) PROVE LifeStepped
  <2>1. /\ step' = step /\ (IsDown' <=> IsDown)
        /\ task'.terminate_requested_ = task.terminate_requested_
    BY <1>3, <1>a DEF StartVersion, Activate, IsDown
  <2> QED
    BY <2>1, NothingSeen
<1>4. ASSUME NEW c \in Client, StartInflight(c) PROVE LifeStepped
  <2>1. /\ step' = step /\ (IsDown' <=> IsDown)
        /\ task'.terminate_requested_ = task.terminate_requested_
    BY <1>4, <1>a DEF StartInflight, IsDown
  <2> QED
    BY <2>1, NothingSeen
<1>5. ASSUME NEW c \in Client, StartPm(c) PROVE LifeStepped
  <2>1. /\ step' = step /\ (IsDown' <=> IsDown)
        /\ task'.terminate_requested_ = task.terminate_requested_
    BY <1>5, <1>a DEF StartPm, IsDown
  <2> QED
    BY <2>1, NothingSeen
<1>6. ASSUME NEW c \in Client, StartSem(c) PROVE LifeStepped
  <2>1. /\ step' = step /\ (IsDown' <=> IsDown)
        /\ task'.terminate_requested_ = task.terminate_requested_
    BY <1>6, <1>a DEF StartSem, StartFails, IsDown
  <2> QED
    BY <2>1, NothingSeen
<1>7. ASSUME NEW c \in Client, StartTimer(c) PROVE LifeStepped
  <2>1. /\ step' = step /\ (IsDown' <=> IsDown)
        /\ task'.terminate_requested_ = task.terminate_requested_
    BY <1>7, <1>a DEF StartTimer, StartFails, IsDown
  <2> QED
    BY <2>1, NothingSeen
<1>8. ASSUME NEW c \in Client, StartAdd(c) PROVE LifeStepped
  <2>1. /\ step' = step /\ (IsDown' <=> IsDown)
        /\ task'.terminate_requested_ = task.terminate_requested_
    BY <1>8, <1>a DEF StartAdd, FetchAdd, IsDown
  <2> QED
    BY <2>1, NothingSeen
<1>9. ASSUME NEW c \in Client, StartPush(c) PROVE LifeStepped
  <2>1. /\ step' = step /\ (IsDown' <=> IsDown)
        /\ task'.terminate_requested_ = task.terminate_requested_
    BY <1>9, <1>a DEF StartPush, PushOk, PushFails, IsDown
  <2> QED
    BY <2>1, NothingSeen
<1>10. ASSUME NEW c \in Client, StartUndo(c) PROVE LifeStepped
  <2>1. /\ step' = step /\ (IsDown' <=> IsDown)
        /\ task'.terminate_requested_ = task.terminate_requested_
    BY <1>10, <1>a DEF StartUndo, FetchAdd, StartFails, IsDown
  <2> QED
    BY <2>1, NothingSeen
<1>11. ASSUME NEW c \in Client, NotifyCheck(c) PROVE LifeStepped
  <2>1. /\ step' = step /\ task'.running_ = task.running_ /\ timed_out' = timed_out
        /\ task'.terminate_requested_ = task.terminate_requested_
    BY <1>11, <1>a DEF NotifyCheck
  <2>2. pc[c] = "idle" /\ (\A d \in Client \ {c} : pc'[d] = pc[d]) /\ pc'[c] \in {"idle",
     "clear", "bump", "check"}
    BY <1>11, <1>a DEF NotifyCheck, BeginCall, CanCall
  <2>3. IsDown' <=> IsDown
    BY <2>1, <2>2 DEF IsDown
  <2> QED
    BY <2>1, <2>3, NothingSeen
<1>12. ASSUME NEW c \in Client, StopFlag(c) PROVE LifeStepped
  <2>1. /\ step' = step /\ task'.running_ = task.running_ /\ timed_out' = timed_out
        /\ task'.terminate_requested_ = task.terminate_requested_
    BY <1>12, <1>a DEF StopFlag
  <2>2. pc[c] = "idle" /\ (\A d \in Client \ {c} : pc'[d] = pc[d]) /\ pc'[c] \in {"idle",
     "clear", "bump", "check"}
    BY <1>12, <1>a DEF StopFlag, BeginCall, CanCall
  <2>3. IsDown' <=> IsDown
    BY <2>1, <2>2 DEF IsDown
  <2> QED
    BY <2>1, <2>3, NothingSeen
<1>13. ASSUME NEW c \in Client, NotifyClear(c) PROVE LifeStepped
  <2>1. /\ step' = step /\ (IsDown' <=> IsDown)
        /\ task'.terminate_requested_ = task.terminate_requested_
    BY <1>13, <1>a DEF NotifyClear, IsDown
  <2> QED
    BY <2>1, NothingSeen
<1>14. ASSUME NEW c \in Client, NotifyBump(c) PROVE LifeStepped
  <2>1. /\ step' = step /\ (IsDown' <=> IsDown)
        /\ task'.terminate_requested_ = task.terminate_requested_
    BY <1>14, <1>a DEF NotifyBump, Activate, IsDown
  <2> QED
    BY <2>1, NothingSeen
<1>15. ASSUME NEW c \in Client, StopCheck(c) PROVE LifeStepped
  <2>1. /\ step' = step /\ (IsDown' <=> IsDown)
        /\ task'.terminate_requested_ = task.terminate_requested_
    BY <1>15, <1>a DEF StopCheck, IsDown
  <2> QED
    BY <2>1, NothingSeen
<1>16. ASSUME NEW c \in Client, CallTimer(c) PROVE LifeStepped
  <2>1. /\ step' = step /\ (IsDown' <=> IsDown)
        /\ task'.terminate_requested_ = task.terminate_requested_
    BY <1>16, <1>a DEF CallTimer, TimerStop, TimerIs, SetTimer, IsDown
  <2> QED
    BY <2>1, NothingSeen
<1>17. ASSUME NEW c \in Client, CallAdd(c) PROVE LifeStepped
  <2>1. /\ step' = step /\ (IsDown' <=> IsDown)
        /\ task'.terminate_requested_ = task.terminate_requested_
    BY <1>17, <1>a DEF CallAdd, FetchAdd, IsDown
  <2> QED
    BY <2>1, NothingSeen
<1>18. ASSUME NEW c \in Client, CallPush(c) PROVE LifeStepped
  <2>1. /\ step' = step /\ (IsDown' <=> IsDown)
        /\ task'.terminate_requested_ = task.terminate_requested_
    BY <1>18, <1>a DEF CallPush, PushOk, PushFails, IsDown
  <2> QED
    BY <2>1, NothingSeen
<1>19. ASSUME NEW c \in Client, ResetClaim(c) PROVE LifeStepped
  <2>1. /\ step' = step /\ (IsDown' <=> IsDown)
        /\ task'.terminate_requested_ = task.terminate_requested_
    BY <1>19, <1>a, <1>b DEF ResetClaim, CanCall, NothingBut, UserCode, IsDown
  <2> QED
    BY <2>1, NothingSeen
<1>20. ASSUME NEW c \in Client, ResetTerminate(c) PROVE LifeStepped
  <2>1. step' = step /\ ~IsDown /\ ~IsDown' /\ task'.terminate_requested_
    BY <1>a, <1>20 DEF ResetTerminate, IsDown
  <2>2. CASE task.terminate_requested_
    BY <2>1, <2>2, NothingSeen
  <2>3. CASE ~task.terminate_requested_
    <3>1. Phase = "up" /\ Phase' = "closing" /\ Code' = Code
      BY <2>1, <2>3 DEF Phase, Code
    <3>2. Left' \subseteq Lifecycle!Behind(Code)
      BY <2>1, <3>1 DEF Left, Code, Lifecycle!Behind, Lifecycle!Functions
    <3> QED
      BY <3>1, <3>2 DEF LifeStepped, Lifecycle!Next, Lifecycle!Close
  <2> QED
    BY <2>2, <2>3
<1>21. ASSUME NEW c \in Client, ResetTimerStop(c) PROVE LifeStepped
  <2>1. /\ step' = step /\ (IsDown' <=> IsDown)
        /\ task'.terminate_requested_ = task.terminate_requested_
    BY <1>21, <1>a DEF ResetTimerStop, TimerStop, TimerIs, SetTimer, IsDown
  <2> QED
    BY <2>1, NothingSeen
<1>22. ASSUME NEW c \in Client, ResetTimerDelete(c) PROVE LifeStepped
  <2>1. /\ step' = step /\ (IsDown' <=> IsDown)
        /\ task'.terminate_requested_ = task.terminate_requested_
    BY <1>22, <1>a DEF ResetTimerDelete, TimerIs, SetTimer, IsDown
  <2> QED
    BY <2>1, NothingSeen
<1>23. ASSUME NEW c \in Client, ResetTimerNull(c) PROVE LifeStepped
  <2>1. /\ step' = step /\ (IsDown' <=> IsDown)
        /\ task'.terminate_requested_ = task.terminate_requested_
    BY <1>23, <1>a DEF ResetTimerNull, IsDown
  <2> QED
    BY <2>1, NothingSeen
<1>24. ASSUME NEW c \in Client, ResetDrain(c) PROVE LifeStepped
  <2>1. /\ step' = step /\ (IsDown' <=> IsDown)
        /\ task'.terminate_requested_ = task.terminate_requested_
    BY <1>24, <1>a DEF ResetDrain, IsDown
  <2> QED
    BY <2>1, NothingSeen
<1>25. ASSUME NEW c \in Client, ResetWait(c) PROVE LifeStepped
  <2>1. /\ step' = step /\ (IsDown' <=> IsDown)
        /\ task'.terminate_requested_ = task.terminate_requested_
    BY <1>25, <1>a DEF ResetWait, IsDown
  <2> QED
    BY <2>1, NothingSeen
<1>26. ASSUME NEW c \in Client, ResetSem(c) PROVE LifeStepped
  <2>1. /\ step' = step /\ (IsDown' <=> IsDown)
        /\ task'.terminate_requested_ = task.terminate_requested_
    BY <1>26, <1>a DEF ResetSem, IsDown
  <2> QED
    BY <2>1, NothingSeen
<1>27. ASSUME NEW c \in Client, ResetPm(c) PROVE LifeStepped
  <2>1. /\ step' = step /\ ~IsDown /\ ~task.running_ /\ (timed_out' <=> timed_out)
        /\ task'.terminate_requested_ = task.terminate_requested_
    BY <1>a, <1>27 DEF ResetPm, IsDown
  <2>2. CASE timed_out
    BY <2>1, <2>2, NothingSeen DEF IsDown
  <2>3. CASE ~timed_out
    <3>1. task.join_sem_ = "null"
      BY <1>a, <2>1, <1>27 DEF ResetPm, SemInv
    <3>2. step.pc \in Calm
      BY <2>3, <3>1 DEF UsedInv, DrainInv, RestInv, Spent, Fresh, Calm
    <3>3. Code = "none" /\ Code' = "none"
      BY <2>1, <3>2 DEF Code, Calm
    <3>4. IsDown'
      BY <1>a, <2>1, <2>3, <1>27 DEF ResetPm, IsDown
    <3>5. Phase # "down" /\ Phase' = "down" /\ Left' = {}
      BY <2>1, <3>4 DEF Phase, Left
    <3> QED
      BY <3>3, <3>5 DEF LifeStepped, Lifecycle!Next, Lifecycle!Down
  <2> QED
    BY <2>2, <2>3
<1>28. ASSUME NEW t \in TimerId, TimerFire(t) PROVE LifeStepped
  <2>1. /\ step' = step /\ (IsDown' <=> IsDown)
        /\ task'.terminate_requested_ = task.terminate_requested_
    BY <1>28, <1>a DEF TimerFire, IsDown
  <2> QED
    BY <2>1, NothingSeen
<1>29. CASE CallbackAdd
  <2>1. /\ step' = step /\ (IsDown' <=> IsDown)
        /\ task'.terminate_requested_ = task.terminate_requested_
    BY <1>29, <1>a DEF CallbackAdd, FetchAdd, IsDown
  <2> QED
    BY <2>1, NothingSeen
<1>30. CASE CallbackPush
  <2>1. /\ step' = step /\ (IsDown' <=> IsDown)
        /\ task'.terminate_requested_ = task.terminate_requested_
    BY <1>30, <1>a DEF CallbackPush, PushOk, PushFails, IsDown
  <2> QED
    BY <2>1, NothingSeen
<1>31. CASE Step
  <2>1. /\ pc' = pc /\ timed_out' = timed_out /\ task'.running_ = task.running_
        /\ task'.terminate_requested_ = task.terminate_requested_
    BY <1>31, <1>a, StepLeaves
  <2>2. (IsDown' <=> IsDown) /\ Phase' = Phase
    BY <2>1 DEF IsDown, Phase
  <2>3. CASE IsDown
    <3>1. step.pc \in Calm /\ (step.pc = "check" => task.terminate_requested_)
      BY <2>3, DownIsCalm DEF UsedInv
    <3>2. step'.pc \notin UserCode
      BY <1>31, <1>a, <3>1, StepMoves DEF UserCode, Calm, Beginning
    <3>3. Code = "none" /\ Code' = "none"
      BY <3>1, <3>2 DEF Code, Calm, UserCode
    <3>4. Phase = "down" /\ Left = {} /\ Left' = {}
      BY <2>2, <2>3 DEF Phase, Left
    <3> QED
      BY <2>2, <3>3, <3>4 DEF LifeStepped, Lifecycle!vars
  <2>4. CASE ~IsDown /\ ~task.terminate_requested_
    <3>1. Phase = "up" /\ Left = Lifecycle!Functions /\ Left' = Lifecycle!Functions
      BY <2>2, <2>4 DEF Phase, Left, Lifecycle!Functions
    <3> QED
      BY <1>31, <1>a, <2>2, <3>1, StepMoves
         DEF Beginning, Code, UserCode, LifeStepped, Lifecycle!Next, Lifecycle!Begin,
            Lifecycle!End,
             Lifecycle!vars, Lifecycle!Functions
  <2>5. CASE ~IsDown /\ task.terminate_requested_
    <3>1. Phase = "closing" /\ Phase' = "closing"
      BY <2>2, <2>5 DEF Phase
    <3> QED
      BY <1>31, <1>a, <2>2, <2>5, <3>1, StepMoves
         DEF Beginning, Code, Left, UserCode, LifeStepped, Lifecycle!Next, Lifecycle!Begin,
            Lifecycle!End,
             Lifecycle!PassOver, Lifecycle!vars, Lifecycle!Functions, Lifecycle!Behind
  <2> QED
    BY <2>3, <2>4, <2>5
<1>32. CASE UNCHANGED vars
  <2>1. /\ step' = step /\ (IsDown' <=> IsDown)
        /\ task'.terminate_requested_ = task.terminate_requested_
    BY <1>32, <1>a DEF vars, IsDown
  <2> QED
    BY <2>1, NothingSeen
<1> QED
  BY <1>1, <1>2, <1>3, <1>4, <1>5, <1>6, <1>7, <1>8, <1>9, <1>10, <1>11, <1>12, <1>13, <1>14,
     <1>15, <1>16, <1>17, <1>18, <1>19, <1>20, <1>21, <1>22, <1>23, <1>24, <1>25, <1>26,
     <1>27, <1>28, <1>29, <1>30, <1>31, <1>32 DEF Next, Start, Call, Reset

\* An object that has been constructed is down.
LEMMA LifeBegins == Init => Lifecycle!Init
BY DEF Init, Lifecycle!Init, IsDown, Phase, Code, Left, StartPcs, ResetPcs

\* The flags, the count, the semaphore and the timer keep what a task promises to
\* who owns it: between a reset that has returned in time and the next start no
\* user code runs, and behind terminate_requested_ the step under way goes on to
\* at most one on_step and one on_stop, however full the main loop's queue is.
THEOREM ImplementsLifecycle ==
  ASSUME UsedAsMeant, RoomToCount
  PROVE  Spec => ImplementsTaskLifecycle
<1>1. Init => Lifecycle!Init
  BY LifeBegins
<1>2. UsedInv /\ [Next]_vars => [Lifecycle!Next]_(Lifecycle!vars)
  BY LifeSteps DEF LifeStepped
<1> QED
  BY <1>1, <1>2, UsedInvariance, PTL DEF Spec, ImplementsTaskLifecycle, Lifecycle!Spec
=============================================================================
