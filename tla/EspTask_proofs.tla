--------------------------- MODULE EspTask_proofs ---------------------------
(***************************************************************************)
(* Proofs about EspTask for every number of clients and bound, for both    *)
(* kinds of task.  But for the types they rest on CarefulStart: start      *)
(* waits until nothing of an earlier use is left.                          *)
(*                                                                         *)
(* JoinBarrier is not inductive: what makes it true is that a thread that  *)
(* may still run user code is the one of task_handle_, or is about to be,  *)
(* and that the semaphore reset joins on is given behind such code only.   *)
(***************************************************************************)
EXTENDS EspTask, TLAPS

Busy == StartPcs \cup ResetPcs
BeforeCreate == {"st_flags", "st_hook", "st_sems", "st_create"}

\* Before, or behind, the last thing the thread does to the object's semaphores.
Over == {"none", "dead", "term_null"}

\* One client starts or resets at a time, and creates a thread when there is none.
OneBusy == \A c, d \in Client : pc[c] \in Busy /\ pc[d] \in Busy => c = d
FreshStart == \A c \in Client : pc[c] \in BeforeCreate => \A t \in Thread : Gone(t)
OneAlive == \A t, u \in Thread : ~Gone(t) /\ ~Gone(u) => t = u
OnlyCreated == \A c \in Client : pc[c] = "st_store" =>
                 \A t \in Thread : ~Gone(t) => t = new_handle[c]

UseInv == OneBusy /\ FreshStart /\ OneAlive /\ OnlyCreated

\* A thread that may still run the user's functions is known to reset.
Known == \A t \in Thread : thread[t].pc \notin Over =>
           task.task_handle_ = t \/ \E c \in Client : pc[c] = "st_store" /\ new_handle[c] = t

\* reset passes its join when nobody may run them, and the semaphore says so.
Joined == task.join_sem_ # "empty" \/ (\E c \in Client : pc[c] \in {"rs_null", "rs_release"}) =>
            \A t \in Thread : thread[t].pc \in Over
Emptied == \A c \in Client : pc[c] = "st_create" => task.join_sem_ = "empty"

JoinInv == Known /\ Joined /\ Emptied

\* The locks are held by the thread between its acquire and its release, or are
\* left by a thread that reset has deleted and are about to be dropped.
HeldByOne == task.pm.held > 0 =>
  /\ task.pm.on
  /\ \/ \E t \in Thread : ~Gone(t)
     \/ \E c \in Client : pc[c] \in {"rs_null", "rs_release"}

\* Where a thread is outside of the two.
Outside == {"begin", "acquire", "wait", "term_copy", "term_give", "term_null"}
NotHeld == \A t \in Thread :
  thread[t].pc \in Outside \/ (thread[t].pc = "top" /\ ~thread[t].active) => task.pm.held = 0
Active == \A t \in Thread :
  thread[t].pc \in {"stop_check", "on_step", "arm", "hw_wait", "disarm", "nap"} =>
    thread[t].active

PmInv == HeldByOne /\ NotHeld /\ Active

\* What all of this rests on, together.
IInv == TypeOK /\ UseInv /\ JoinInv /\ PmInv

\* The range of the threads' and the clients' places, as TypeOK has it.
ThreadPc == {"none", "top", "acquire", "stop_check", "arm", "hw_wait", "disarm", "nap",
             "release", "wait", "exit_release", "begin", "term_release", "term_copy",
             "term_give", "term_null", "dead"} \cup UserCode
ClientPc == {"idle", "st_spin", "give", "killed"} \cup StartPcs \cup ResetPcs
Threads == [Thread -> [pc : ThreadPc, active : BOOLEAN, j_sem : BOOLEAN]]

-----------------------------------------------------------------------------
(* Types *)

\* The object as it is constructed, before anybody has started it.
LEMMA InitTypes == Init => TypeOK
<1> USE ConfigAssumption
<1> SUFFICES ASSUME Init PROVE TypeOK
  OBVIOUS
<1>1. task \in Fields
  <2>1. NoPm \in [on : BOOLEAN, held : 0..1]
    BY DEF NoPm
  <2> QED
    BY <2>1 DEF Init, Fields
<1>2. kind \in {"plain", "yielding"}
  BY DEF Init
<1>3. starts \in 0..MaxStarts /\ calls \in 0..MaxCalls
  BY DEF Init
<1>4. thread \in Threads
  BY DEF Init, Threads, ThreadPc
<1> QED
  BY <1>1, <1>2, <1>3, <1>4 DEF Init, TypeOK, NullHandle, Threads, ThreadPc

\* What the helpers of the model leave in the object's fields: a semaphore that
\* is given is one that is there, the timer is never armed by disarming it, and
\* the locks are held once or not at all.
LEMMA HelperTypes ==
  ASSUME task \in Fields
  PROVE  /\ GiveSync \/ TakeSync \/ Disarm \/ UNCHANGED task => task' \in Fields
         /\ Acquired \/ Released => task' \in Fields
<1>1. task.pm \in [on : BOOLEAN, held : 0..1]
  BY DEF Fields
<1>2. ASSUME GiveSync \/ TakeSync \/ Disarm \/ UNCHANGED task PROVE task' \in Fields
  BY <1>2 DEF GiveSync, Given, TakeSync, Disarm, Fields
<1>3. ASSUME Acquired PROVE task' \in Fields
  <2>1. [task.pm EXCEPT !.held = IF task.pm.on /\ @ = 0 THEN 1 ELSE @]
          \in [on : BOOLEAN, held : 0..1]
    BY <1>1
  <2> QED
    BY <1>3 DEF Fields, Acquired
<1>4. ASSUME Released PROVE task' \in Fields
  <2>1. [task.pm EXCEPT !.held = IF task.pm.on /\ @ > 0 THEN @ - 1 ELSE @]
          \in [on : BOOLEAN, held : 0..1]
    BY <1>1
  <2> QED
    BY <1>4 DEF Fields, Released
<1> QED
  BY <1>2, <1>3, <1>4

\* A thread or a client that moves on to a place of its own stays in range.
LEMMA PlaceTypes ==
  /\ thread \in Threads =>
       \A h \in Thread, k, l \in ThreadPc, a \in BOOLEAN :
         Run(h, k, l) \/ RunActive(h, k, l, a) => thread' \in Threads
  /\ pc \in [Client -> ClientPc] =>
       \A c \in Client, l \in ClientPc : Goto(c, l) => pc' \in [Client -> ClientPc]
BY DEF Threads, Run, RunActive, Goto

\* No handler leaves a field outside the range its C++ type and use give it.
LEMMA TypeStep == TypeOK /\ [Next]_vars => TypeOK'
<1> SUFFICES ASSUME TypeOK, [Next]_vars PROVE TypeOK'
  OBVIOUS
<1> DEFINE InRange == /\ task \in Fields /\ thread \in Threads
                      /\ pc \in [Client -> ClientPc]
                      /\ new_handle \in [Client -> Thread \cup {NullHandle}]
                      /\ starts \in 0..MaxStarts /\ calls \in 0..MaxCalls
                      /\ kind \in {"plain", "yielding"}
                      /\ orphan \in BOOLEAN /\ callback \in {"idle", "notify"}
<1>a. /\ InRange
      /\ MaxStarts \in Nat /\ MaxCalls \in Nat
  BY ConfigAssumption DEF TypeOK, Threads, ThreadPc, ClientPc
<1> SUFFICES InRange'
  BY DEF TypeOK, Threads, ThreadPc, ClientPc
<1>1. ASSUME NEW c \in Client, StartClaim(c) PROVE InRange'
  BY <1>a, <1>1 DEF StartClaim, Goto, Fields, ClientPc, StartPcs
<1>2. ASSUME NEW c \in Client, StartSpin(c) PROVE InRange'
  BY <1>a, <1>2 DEF StartSpin, Move, Goto, InObject, Fields, ClientPc, StartPcs, ResetPcs,
     NullHandle, StartingFlag
<1>3. ASSUME NEW c \in Client, StartFlags(c) PROVE InRange'
  BY <1>a, <1>3 DEF StartFlags, Move, Goto, InObject, Fields, ClientPc, StartPcs, ResetPcs,
     NullHandle, StartingFlag
<1>4. ASSUME NEW c \in Client, StartHook(c) PROVE InRange'
  <2>1. task' \in Fields
    <3>0. task.pm \in [on : BOOLEAN, held : 0..1]
      BY <1>a DEF Fields
    <3>1. NoPm \in [on : BOOLEAN, held : 0..1]
      BY DEF NoPm
    <3>2. [task.pm EXCEPT !.on = TRUE] \in [on : BOOLEAN, held : 0..1]
      BY <3>0
    <3>3. task.timer \in {"null", "idle", "armed"}
      BY <1>a DEF Fields
    <3>4. PICK timer \in {"null", "idle", "armed"}, pm \in [on : BOOLEAN, held : 0..1] :
            task' = [task EXCEPT !.timer = timer, !.pm = pm]
      BY <3>1, <3>2, <3>3, <1>4 DEF StartHook
    <3> QED
      BY <1>a, <3>4 DEF Fields
  <2> QED
    BY <1>a, <2>1, <1>4 DEF StartHook, Move, Goto, InObject, ClientPc, StartPcs
<1>5. ASSUME NEW c \in Client, StartHookFails(c) PROVE InRange'
  BY <1>a, <1>5 DEF StartHookFails, Move, Goto, InObject, Fields, ClientPc
<1>6. ASSUME NEW c \in Client, StartSems(c) PROVE InRange'
  <2>1. PICK sync \in {"null", "empty"}, join \in {"null", "empty"} :
          \/ task' = [task EXCEPT !.sync_sem_ = sync, !.join_sem_ = join]
          \/ task' = [task EXCEPT !.sync_sem_ = sync, !.join_sem_ = join,
                                  !.task_handle_ = NullHandle]
    BY <1>a, <1>6 DEF StartSems, Fields
  <2>2. task' \in Fields
    BY <1>a, <2>1 DEF Fields, NullHandle, StartingFlag
  <2> QED
    BY <1>a, <2>2, <1>6 DEF StartSems, Goto, EnterReset, InObject, ClientPc, StartPcs,
       ResetPcs
<1>7. ASSUME NEW c \in Client, StartCreate(c) PROVE InRange'
  <2>1. task' \in Fields
    BY <1>a, <1>7 DEF StartCreate, Fields
  <2>2. thread' \in Threads
    BY <1>a, <1>7 DEF StartCreate, Threads, ThreadPc
  <2> QED
    BY <1>a, <2>1, <2>2, <1>7 DEF StartCreate, Goto, EnterReset, ClientPc, StartPcs, ResetPcs
<1>8. ASSUME NEW c \in Client, StartStore(c) PROVE InRange'
  BY <1>a, <1>8 DEF StartStore, Move, Goto, Fields, ClientPc
<1>9. ASSUME NEW c \in Client, Notify(c) PROVE InRange'
  <2>1. task' \in Fields
    BY <1>a, <1>9 DEF Notify, BeginCall, Fields
  <2> QED
    BY <1>a, <2>1, <1>9 DEF Notify, BeginCall, Move, Goto, ClientPc
<1>10. ASSUME NEW c \in Client, RequestStop(c) PROVE InRange'
  <2>1. task' \in Fields
    BY <1>a, <1>10 DEF RequestStop, BeginCall, Fields
  <2> QED
    BY <1>a, <2>1, <1>10 DEF RequestStop, BeginCall, Move, Goto, ClientPc
<1>11. ASSUME NEW c \in Client, NotifyGive(c) PROVE InRange'
  BY <1>a, <1>11, HelperTypes DEF NotifyGive, Move, Goto, InObject, ClientPc
<1>12. ASSUME NEW c \in Client, ResetBegin(c) PROVE InRange'
  BY <1>a, <1>12 DEF ResetBegin, Goto, InObject, EnterReset, InPlace, ClientPc, ResetPcs
<1>13. ASSUME NEW c \in Client, ResetTimerStop(c) PROVE InRange'
  BY <1>a, <1>13, HelperTypes DEF ResetTimerStop, Move, Goto, InObject, ClientPc, ResetPcs
<1>14. ASSUME NEW c \in Client, ResetTimerDelete(c) PROVE InRange'
  BY <1>a, <1>14 DEF ResetTimerDelete, Move, Goto, Fields, ClientPc, ResetPcs
<1>15. ASSUME NEW c \in Client, ResetCheck(c) PROVE InRange'
  BY <1>a, <1>15 DEF ResetCheck, Move, Goto, InObject, Fields, ClientPc, StartPcs, ResetPcs,
     NullHandle, StartingFlag
<1>16. ASSUME NEW c \in Client, ResetGive(c) PROVE InRange'
  BY <1>a, <1>16, HelperTypes DEF ResetGive, Move, Goto, InObject, AfterGive, ClientPc,
     ResetPcs
<1>17. ASSUME NEW c \in Client, ResetJoin(c) PROVE InRange'
  BY <1>a, <1>17 DEF ResetJoin, Move, Goto, InObject, Fields, ClientPc, ResetPcs
<1>18. ASSUME NEW c \in Client, ResetKill(c) PROVE InRange'
  <2>1. thread' \in Threads
    BY <1>a, <1>18 DEF ResetKill, Threads, ThreadPc
  <2> QED
    BY <1>a, <2>1, <1>18 DEF ResetKill, Move, Goto, ClientPc, ResetPcs
<1>19. ASSUME NEW c \in Client, ResetNull(c) PROVE InRange'
  BY <1>a, <1>19 DEF ResetNull, Move, Goto, InObject, Fields, ClientPc, ResetPcs
<1>20. ASSUME NEW c \in Client, ResetRelease(c) PROVE InRange'
  <2>1. NoPm \in [on : BOOLEAN, held : 0..1]
    BY DEF NoPm
  <2>2. task' \in Fields
    BY <1>a, <2>1, <1>20 DEF ResetRelease, Fields
  <2> QED
    BY <1>a, <2>2, <1>20 DEF ResetRelease, Move, Goto, InObject, ClientPc
<1>21. ASSUME NEW c \in Client, ResetTimeout(c) PROVE InRange'
  BY <1>a, <1>21 DEF ResetTimeout, Move, Goto, InObject, InPlace, ClientPc, ResetPcs
<1>22. CASE TimerFire
  BY <1>a, <1>22, HelperTypes DEF TimerFire
<1>23. CASE CallbackNotify
  BY <1>a, <1>23, HelperTypes DEF CallbackNotify
<1>24. ASSUME NEW h \in Thread, LoopTop(h) PROVE InRange'
  BY <1>a, <1>24, PlaceTypes DEF LoopTop, ByThread, AfterTop, ByThreadInPlace, ThreadPc,
     UserCode
<1>25. ASSUME NEW h \in Thread, LoopAcquire(h) PROVE InRange'
  BY <1>a, <1>25, PlaceTypes, HelperTypes DEF LoopAcquire, ByThread, ThreadPc, UserCode
<1>26. ASSUME NEW h \in Thread, LoopStopCheck(h) PROVE InRange'
  BY <1>a, <1>26, PlaceTypes DEF LoopStopCheck, ByThread, ByThreadInPlace, ThreadPc, UserCode
<1>27. ASSUME NEW h \in Thread, OnStepReturns(h) PROVE InRange'
  BY <1>a, <1>27, PlaceTypes DEF OnStepReturns, ByThread, ByThreadInPlace, ThreadPc, UserCode
<1>28. ASSUME NEW h \in Thread, LoopArm(h) PROVE InRange'
  BY <1>a, <1>28, PlaceTypes DEF LoopArm, ByThread, ThreadPc, UserCode, Fields
<1>29. ASSUME NEW h \in Thread, LoopHwWait(h) PROVE InRange'
  BY <1>a, <1>29, PlaceTypes, HelperTypes DEF LoopHwWait, ByThread, ThreadPc
<1>30. ASSUME NEW h \in Thread, LoopDisarm(h) PROVE InRange'
  BY <1>a, <1>30, PlaceTypes, HelperTypes DEF LoopDisarm, ByThread, ThreadPc
<1>31. ASSUME NEW h \in Thread, LoopNap(h) PROVE InRange'
  BY <1>a, <1>31, PlaceTypes DEF LoopNap, ByThread, ThreadPc, UserCode, Fields
<1>32. ASSUME NEW h \in Thread, OnStopReturns(h) PROVE InRange'
  BY <1>a, <1>32, PlaceTypes DEF OnStopReturns, ByThread, ByThreadInPlace, ThreadPc, UserCode
<1>33. ASSUME NEW h \in Thread, LoopRelease(h) PROVE InRange'
  BY <1>a, <1>33, PlaceTypes, HelperTypes DEF LoopRelease, ByThread, ThreadPc, UserCode
<1>34. ASSUME NEW h \in Thread, LoopWait(h) PROVE InRange'
  BY <1>a, <1>34, PlaceTypes, HelperTypes DEF LoopWait, ByThread, ThreadPc
<1>35. ASSUME NEW h \in Thread, ExitStopReturns(h) PROVE InRange'
  BY <1>a, <1>35, PlaceTypes DEF ExitStopReturns, ByThread, ByThreadInPlace, ThreadPc,
     UserCode
<1>36. ASSUME NEW h \in Thread, ExitRelease(h) PROVE InRange'
  BY <1>a, <1>36, PlaceTypes, HelperTypes DEF ExitRelease, ByThread, ThreadPc
<1>37. ASSUME NEW h \in Thread, PlainBegin(h) PROVE InRange'
  BY <1>a, <1>37, PlaceTypes, HelperTypes DEF PlainBegin, ByThread, ThreadPc, UserCode
<1>38. ASSUME NEW h \in Thread, PlainWoken(h) PROVE InRange'
  BY <1>a, <1>38, PlaceTypes, HelperTypes DEF PlainWoken, ByThread, ThreadPc, UserCode
<1>39. ASSUME NEW h \in Thread, PlainReturns(h) PROVE InRange'
  BY <1>a, <1>39, PlaceTypes, HelperTypes DEF PlainReturns, ByThread, ThreadPc, UserCode
<1>40. ASSUME NEW h \in Thread, TermRelease(h) PROVE InRange'
  BY <1>a, <1>40, PlaceTypes, HelperTypes DEF TermRelease, ByThread, ThreadPc, UserCode
<1>41. ASSUME NEW h \in Thread, TermCopy(h) PROVE InRange'
  <2>1. thread' \in Threads
    BY <1>a, <1>41 DEF TermCopy, Threads, ThreadPc
  <2> QED
    BY <1>a, <2>1, <1>41 DEF TermCopy, ByThreadInPlace, ByThread
<1>42. ASSUME NEW h \in Thread, TermGive(h) PROVE InRange'
  BY <1>a, <1>42, PlaceTypes DEF TermGive, ByThread, ThreadPc, UserCode, Fields, Given
<1>43. ASSUME NEW h \in Thread, TermNull(h) PROVE InRange'
  BY <1>a, <1>43, PlaceTypes DEF TermNull, ByThread, ThreadPc, UserCode, Fields
<1>44. ASSUME NEW h \in Thread, PlainWaits(h) PROVE InRange'
  BY <1>a, <1>44, PlaceTypes DEF PlainWaits, ByThread, ByThreadInPlace, ThreadPc, UserCode
<1>45. CASE UNCHANGED vars
  BY <1>45, <1>a DEF vars
<1> QED
  BY <1>1, <1>2, <1>3, <1>4, <1>5, <1>6, <1>7, <1>8, <1>9, <1>10, <1>11, <1>12, <1>13,
     <1>14, <1>15, <1>16, <1>17, <1>18, <1>19, <1>20, <1>21, <1>22, <1>23, <1>24, <1>25,
     <1>26, <1>27, <1>28, <1>29, <1>30, <1>31, <1>32, <1>33, <1>34, <1>35, <1>36, <1>37,
     <1>38, <1>39, <1>40, <1>41, <1>42, <1>43, <1>44, <1>45
     DEF Next, Start, Reset, Trampoline

\* Whatever the clients do, a start that does not wait for what is left of an
\* earlier use and a reset that times out included, every field of
\* esp_task.hpp keeps the range its C++ type and use give it, and a lock that is
\* not there, or held already, is not acquired a second time.
THEOREM TypeCorrect == Spec => []TypeOK
<1> QED
  BY InitTypes, TypeStep, PTL DEF Spec

-----------------------------------------------------------------------------
(* What a thread leaves alone *)

Own(h) == /\ ~Gone(h) /\ thread'[h].pc # "none"
          /\ \A u \in Thread \ {h} : thread'[u] = thread[u]
          /\ pc' = pc /\ new_handle' = new_handle

\* Before terminate_from_task gives the semaphore.
NotOver(h) == /\ thread[h].pc \notin Over
              /\ task'.task_handle_ = task.task_handle_
              /\ task'.join_sem_ = task.join_sem_

\* A thread moves nobody but itself, and until it ends in terminate_from_task it
\* touches neither task_handle_ nor join_sem_.
LEMMA ThreadFrame ==
  ASSUME TypeOK, NEW h \in Thread, Trampoline(h) \/ PlainWaits(h)
  PROVE  Own(h) /\ (TermGive(h) \/ TermNull(h) \/ NotOver(h))
<1>a. thread \in Threads /\ task \in Fields
  BY DEF TypeOK, Threads, ThreadPc
<1> USE DEF Own, NotOver, Gone, Over
<1>1. CASE LoopTop(h)
  BY <1>1 DEF LoopTop, ByThread, Run, AfterTop, ByThreadInPlace
<1>2. CASE LoopAcquire(h)
  BY <1>a, <1>2 DEF LoopAcquire, ByThread, RunActive, Acquired, Threads
<1>3. CASE LoopStopCheck(h)
  BY <1>3 DEF LoopStopCheck, ByThread, Run, ByThreadInPlace
<1>4. CASE OnStepReturns(h)
  BY <1>a, <1>4 DEF OnStepReturns, ByThread, Run, ByThreadInPlace, Threads
<1>5. CASE LoopArm(h)
  BY <1>5 DEF LoopArm, ByThread, Run
<1>6. CASE LoopHwWait(h)
  BY <1>6 DEF LoopHwWait, ByThread, Run, TakeSync
<1>7. CASE LoopDisarm(h)
  BY <1>7 DEF LoopDisarm, ByThread, Run, Disarm
<1>8. CASE LoopNap(h)
  BY <1>8 DEF LoopNap, ByThread, Run
<1>9. CASE OnStopReturns(h)
  BY <1>9 DEF OnStopReturns, ByThread, Run, ByThreadInPlace
<1>10. CASE LoopRelease(h)
  BY <1>a, <1>10 DEF LoopRelease, ByThread, RunActive, Released, Threads
<1>11. CASE LoopWait(h)
  BY <1>11 DEF LoopWait, ByThread, Run, TakeSync
<1>12. CASE ExitStopReturns(h)
  BY <1>12 DEF ExitStopReturns, ByThread, Run, ByThreadInPlace
<1>13. CASE ExitRelease(h)
  BY <1>13 DEF ExitRelease, ByThread, Run, Released
<1>14. CASE PlainBegin(h)
  BY <1>a, <1>14 DEF PlainBegin, ByThread, RunActive, Acquired, Threads
<1>15. CASE PlainWoken(h)
  BY <1>15 DEF PlainWoken, ByThread, Run, TakeSync
<1>16. CASE PlainReturns(h)
  BY <1>16 DEF PlainReturns, ByThread, Run, Released
<1>17. CASE TermRelease(h)
  BY <1>a, <1>17 DEF TermRelease, ByThread, RunActive, Released, Threads
<1>18. CASE TermCopy(h)
  BY <1>a, <1>18 DEF TermCopy, ByThread, ByThreadInPlace, Threads
<1>19. CASE TermGive(h)
  BY <1>19 DEF TermGive, ByThread, Run
<1>20. CASE TermNull(h)
  BY <1>20 DEF TermNull, ByThread, Run
<1>21. CASE PlainWaits(h)
  BY <1>21 DEF PlainWaits, ByThread, Run, ByThreadInPlace
<1> QED
  BY <1>1, <1>2, <1>3, <1>4, <1>5, <1>6, <1>7, <1>8, <1>9, <1>10, <1>11, <1>12, <1>13,
     <1>14, <1>15, <1>16, <1>17, <1>18, <1>19, <1>20, <1>21
     DEF Trampoline

-----------------------------------------------------------------------------
(* Who starts, who resets, and how many threads there are *)

\* Nobody has started, and there is no thread.
LEMMA UseInit == Init => UseInv
BY DEF Init, UseInv, OneBusy, FreshStart, OneAlive, OnlyCreated, Gone, Busy, StartPcs,
       ResetPcs

\* start_internal claims the flag when there is no thread and nobody else is
\* starting or resetting; who has got past xTaskCreate has made the only thread.
LEMMA UseStep ==
  ASSUME CarefulStart, TypeOK, UseInv, [Next]_vars
  PROVE  UseInv'
<1>a. /\ new_handle \in [Client -> Thread \cup {NullHandle}]
      /\ pc \in [Client -> ClientPc]
      /\ thread \in Threads
  BY DEF TypeOK, Threads, ThreadPc, ClientPc
<1> USE DEF UseInv, OneBusy, FreshStart, OneAlive, OnlyCreated, Gone, Busy, BeforeCreate,
            StartPcs, ResetPcs
<1>1. ASSUME NEW c \in Client, StartClaim(c) PROVE UseInv'
  BY <1>a, <1>1 DEF StartClaim, Goto, Starting, Resetting, Quiescent
<1>2. ASSUME NEW c \in Client, StartSpin(c) PROVE UseInv'
  BY <1>2 DEF StartSpin, Move, Goto, InObject
<1>3. ASSUME NEW c \in Client, StartFlags(c) PROVE UseInv'
  BY <1>3 DEF StartFlags, Move, Goto, InObject
<1>4. ASSUME NEW c \in Client, StartHook(c) PROVE UseInv'
  BY <1>4 DEF StartHook, Move, Goto, InObject
<1>5. ASSUME NEW c \in Client, StartHookFails(c) PROVE UseInv'
  BY <1>5 DEF StartHookFails, Move, Goto, InObject
<1>6. ASSUME NEW c \in Client, StartSems(c) PROVE UseInv'
  BY <1>a, <1>6 DEF StartSems, Goto, InObject, EnterReset
<1>7. ASSUME NEW c \in Client, StartCreate(c) PROVE UseInv'
  BY <1>a, <1>7 DEF StartCreate, Goto, EnterReset, Threads
<1>8. ASSUME NEW c \in Client, StartStore(c) PROVE UseInv'
  BY <1>a, <1>8 DEF StartStore, Move, Goto
<1>9. ASSUME NEW c \in Client, Notify(c) PROVE UseInv'
  BY <1>9 DEF Notify, Move, Goto, BeginCall
<1>10. ASSUME NEW c \in Client, RequestStop(c) PROVE UseInv'
  BY <1>10 DEF RequestStop, Move, Goto, BeginCall
<1>11. ASSUME NEW c \in Client, NotifyGive(c) PROVE UseInv'
  BY <1>11 DEF NotifyGive, Move, Goto, InObject
<1>12. ASSUME NEW c \in Client, ResetBegin(c) PROVE UseInv'
  BY <1>12 DEF ResetBegin, Goto, InObject, EnterReset, InPlace, Starting, Resetting
<1>13. ASSUME NEW c \in Client, ResetTimerStop(c) PROVE UseInv'
  BY <1>13 DEF ResetTimerStop, Move, Goto, InObject
<1>14. ASSUME NEW c \in Client, ResetTimerDelete(c) PROVE UseInv'
  BY <1>14 DEF ResetTimerDelete, Move, Goto
<1>15. ASSUME NEW c \in Client, ResetCheck(c) PROVE UseInv'
  BY <1>15 DEF ResetCheck, Move, Goto, InObject
<1>16. ASSUME NEW c \in Client, ResetGive(c) PROVE UseInv'
  BY <1>16 DEF ResetGive, Move, Goto, InObject, AfterGive
<1>17. ASSUME NEW c \in Client, ResetJoin(c) PROVE UseInv'
  BY <1>17 DEF ResetJoin, Move, Goto, InObject
<1>18. ASSUME NEW c \in Client, ResetKill(c) PROVE UseInv'
  BY <1>18 DEF ResetKill, Move, Goto
<1>19. ASSUME NEW c \in Client, ResetNull(c) PROVE UseInv'
  BY <1>19 DEF ResetNull, Move, Goto, InObject
<1>20. ASSUME NEW c \in Client, ResetRelease(c) PROVE UseInv'
  BY <1>20 DEF ResetRelease, Move, Goto, InObject
<1>21. ASSUME NEW c \in Client, ResetTimeout(c) PROVE UseInv'
  BY <1>21 DEF ResetTimeout, Move, Goto, InObject, InPlace
<1>22. CASE TimerFire \/ CallbackNotify \/ UNCHANGED vars
  BY <1>22 DEF TimerFire, CallbackNotify, vars
<1>23. ASSUME NEW h \in Thread, Trampoline(h) \/ PlainWaits(h) PROVE UseInv'
  BY <1>23, ThreadFrame DEF Own
<1> QED
  BY <1>1, <1>2, <1>3, <1>4, <1>5, <1>6, <1>7, <1>8, <1>9, <1>10, <1>11, <1>12, <1>13,
     <1>14, <1>15, <1>16, <1>17, <1>18, <1>19, <1>20, <1>21, <1>22, <1>23
     DEF Next, Start, Reset

-----------------------------------------------------------------------------
(* Whom reset waits for *)

\* No thread, and nothing to join.
LEMMA JoinInit == Init => JoinInv
BY DEF Init, JoinInv, Known, Joined, Emptied, Over

\* terminate_from_task gives the semaphore after the thread's last user function
\* and before it clears task_handle_; start_internal empties it and creates the
\* thread while there is no other; reset stops waiting when it is given, when it
\* has deleted the thread, or when there is none.
LEMMA JoinStep ==
  ASSUME CarefulStart, TypeOK, UseInv, JoinInv, [Next]_vars
  PROVE  JoinInv'
<1>a. /\ pc \in [Client -> ClientPc]
      /\ new_handle \in [Client -> Thread \cup {NullHandle}]
      /\ thread \in Threads /\ task \in Fields
      /\ NullHandle \notin Thread /\ StartingFlag \notin Thread
  BY DEF TypeOK, Threads, ThreadPc, ClientPc, Thread, NullHandle, StartingFlag
<1>b. Known /\ Joined /\ Emptied /\ OneBusy /\ FreshStart /\ OneAlive /\ OnlyCreated
  BY DEF UseInv, JoinInv
<1> USE DEF JoinInv, Known, Joined, Emptied, OneBusy, FreshStart, OneAlive, OnlyCreated,
            Gone, Over, Busy, BeforeCreate, StartPcs, ResetPcs
<1>1. ASSUME NEW c \in Client, StartClaim(c) PROVE JoinInv'
  BY <1>a, <1>1 DEF StartClaim, Goto, Starting
<1>2. ASSUME NEW c \in Client, StartSpin(c) PROVE JoinInv'
  BY <1>2 DEF StartSpin, Move, Goto, InObject
<1>3. ASSUME NEW c \in Client, StartFlags(c) PROVE JoinInv'
  BY <1>3 DEF StartFlags, Move, Goto, InObject
<1>4. ASSUME NEW c \in Client, StartHook(c) PROVE JoinInv'
  BY <1>4 DEF StartHook, Move, Goto, InObject
<1>5. ASSUME NEW c \in Client, StartHookFails(c) PROVE JoinInv'
  BY <1>b, <1>5 DEF StartHookFails, Move, Goto, InObject
<1>6. ASSUME NEW c \in Client, StartSems(c) PROVE JoinInv'
  <2>1. \A t \in Thread : Gone(t) /\ Gone(t)'
    BY <1>b, <1>6 DEF StartSems, InObject
  <2>2. Known' /\ Joined'
    BY <2>1
  <2>3. \A d \in Client \ {c} : pc'[d] # "st_create"
    BY <1>a, <1>b, <1>6 DEF StartSems, Goto, EnterReset
  <2>4. pc'[c] = "st_create" => task'.join_sem_ = "empty"
    <3>1. PICK sync \in {"null", "empty"}, join \in {"null", "empty"} :
            \/ EnterReset(c)
            \/ join = "empty" /\ task' = [task EXCEPT !.sync_sem_ = sync, !.join_sem_ = join]
      BY <1>a, <1>6 DEF StartSems, Fields
    <3>2. CASE EnterReset(c)
      BY <1>a, <3>2 DEF EnterReset, Goto
    <3>3. CASE ~EnterReset(c)
      BY <1>a, <3>1, <3>3 DEF Fields
    <3> QED
      BY <3>2, <3>3
  <2> QED
    BY <2>2, <2>3, <2>4
<1>7. ASSUME NEW c \in Client, StartCreate(c) PROVE JoinInv'
  BY <1>a, <1>b, <1>7 DEF StartCreate, Goto, EnterReset, Threads
<1>8. ASSUME NEW c \in Client, StartStore(c) PROVE JoinInv'
  BY <1>b, <1>8 DEF StartStore, Move, Goto
<1>9. ASSUME NEW c \in Client, Notify(c) PROVE JoinInv'
  BY <1>9 DEF Notify, Move, Goto, BeginCall
<1>10. ASSUME NEW c \in Client, RequestStop(c) PROVE JoinInv'
  BY <1>10 DEF RequestStop, Move, Goto, BeginCall
<1>11. ASSUME NEW c \in Client, NotifyGive(c) PROVE JoinInv'
  BY <1>11 DEF NotifyGive, Move, Goto, InObject, GiveSync
<1>12. ASSUME NEW c \in Client, ResetBegin(c) PROVE JoinInv'
  BY <1>12 DEF ResetBegin, Goto, InObject, EnterReset, InPlace
<1>13. ASSUME NEW c \in Client, ResetTimerStop(c) PROVE JoinInv'
  BY <1>13 DEF ResetTimerStop, Move, Goto, InObject, Disarm
<1>14. ASSUME NEW c \in Client, ResetTimerDelete(c) PROVE JoinInv'
  BY <1>14 DEF ResetTimerDelete, Move, Goto
<1>15. ASSUME NEW c \in Client, ResetCheck(c) PROVE JoinInv'
  BY <1>a, <1>b, <1>15 DEF ResetCheck, Move, Goto, InObject
<1>16. ASSUME NEW c \in Client, ResetGive(c) PROVE JoinInv'
  BY <1>16 DEF ResetGive, Move, Goto, InObject, AfterGive, GiveSync
<1>17. ASSUME NEW c \in Client, ResetJoin(c) PROVE JoinInv'
  BY <1>17 DEF ResetJoin, InObject
<1>18. ASSUME NEW c \in Client, ResetKill(c) PROVE JoinInv'
  BY <1>b, <1>18 DEF ResetKill, Move, Goto
<1>19. ASSUME NEW c \in Client, ResetNull(c) PROVE JoinInv'
  BY <1>19 DEF ResetNull, Move, Goto, InObject
<1>20. ASSUME NEW c \in Client, ResetRelease(c) PROVE JoinInv'
  BY <1>b, <1>20 DEF ResetRelease, Move, Goto, InObject
<1>21. ASSUME NEW c \in Client, ResetTimeout(c) PROVE JoinInv'
  BY <1>21 DEF ResetTimeout, Move, Goto, InObject, InPlace
<1>22. CASE TimerFire \/ CallbackNotify \/ UNCHANGED vars
  BY <1>a, <1>22 DEF TimerFire, CallbackNotify, Disarm, GiveSync, vars, Fields
<1>23. ASSUME NEW h \in Thread, Trampoline(h) \/ PlainWaits(h) PROVE JoinInv'
  <2>1. Own(h)
    BY <1>23, ThreadFrame
  <2>2. CASE TermGive(h)
    BY <1>a, <1>b, <2>1, <2>2 DEF Own, TermGive, Run, Threads
  <2>3. CASE TermNull(h)
    BY <1>b, <2>1, <2>3 DEF Own, TermNull, Run
  <2>4. CASE NotOver(h)
    BY <2>1, <2>4 DEF Own, NotOver
  <2> QED
    BY <1>23, <2>2, <2>3, <2>4, ThreadFrame
<1> QED
  BY <1>1, <1>2, <1>3, <1>4, <1>5, <1>6, <1>7, <1>8, <1>9, <1>10, <1>11, <1>12, <1>13,
     <1>14, <1>15, <1>16, <1>17, <1>18, <1>19, <1>20, <1>21, <1>22, <1>23
     DEF Next, Start, Reset

-----------------------------------------------------------------------------
(* The power-management locks *)

\* There are no locks yet.
LEMMA PmInit == Init => PmInv
BY DEF Init, PmInv, HeldByOne, NotHeld, Active, NoPm

\* A thread acquires the locks when its sequence becomes active and releases them
\* behind it; on_task_claimed sees to them when there is no thread, and reset
\* deletes them, held or not, behind its join.
LEMMA PmStep ==
  ASSUME CarefulStart, TypeOK, UseInv, JoinInv, PmInv, [Next]_vars
  PROVE  PmInv'
<1>a. /\ pc \in [Client -> ClientPc]
      /\ thread \in Threads /\ task \in Fields
  BY DEF TypeOK, Threads, ThreadPc, ClientPc
<1>b. task.pm \in [on : BOOLEAN, held : 0..1]
  BY <1>a DEF Fields
<1>c. task.pm.held \in {0, 1}
  BY <1>b
<1>d. OneBusy /\ FreshStart /\ OneAlive
  BY DEF UseInv
<1> USE DEF PmInv, HeldByOne, NotHeld, Active, OneBusy, FreshStart, OneAlive, Gone, Outside,
            Busy, BeforeCreate, StartPcs, ResetPcs
<1>1. ASSUME NEW c \in Client, StartClaim(c) PROVE PmInv'
  BY <1>a, <1>1 DEF StartClaim, Goto, Fields
<1>2. ASSUME NEW c \in Client, StartSpin(c) PROVE PmInv'
  BY <1>2 DEF StartSpin, Move, Goto, InObject
<1>3. ASSUME NEW c \in Client, StartFlags(c) PROVE PmInv'
  BY <1>d, <1>3 DEF StartFlags, Move, InObject
<1>4. ASSUME NEW c \in Client, StartHook(c) PROVE PmInv'
  BY <1>a, <1>d, <1>4 DEF StartHook, Move, InObject, NoPm, Fields
<1>5. ASSUME NEW c \in Client, StartHookFails(c) PROVE PmInv'
  BY <1>d, <1>5 DEF StartHookFails, Move, InObject
<1>6. ASSUME NEW c \in Client, StartSems(c) PROVE PmInv'
  BY <1>a, <1>c, <1>d, <1>6 DEF StartSems, Goto, InObject, EnterReset, Fields, Threads
<1>7. ASSUME NEW c \in Client, StartCreate(c) PROVE PmInv'
  BY <1>a, <1>d, <1>7 DEF StartCreate, Fields, Threads
<1>8. ASSUME NEW c \in Client, StartStore(c) PROVE PmInv'
  BY <1>d, <1>8 DEF StartStore, Move
<1>9. ASSUME NEW c \in Client, Notify(c) PROVE PmInv'
  BY <1>9 DEF Notify, Move, Goto, BeginCall
<1>10. ASSUME NEW c \in Client, RequestStop(c) PROVE PmInv'
  BY <1>10 DEF RequestStop, Move, Goto, BeginCall
<1>11. ASSUME NEW c \in Client, NotifyGive(c) PROVE PmInv'
  BY <1>11 DEF NotifyGive, Move, Goto, InObject, GiveSync
<1>12. ASSUME NEW c \in Client, ResetBegin(c) PROVE PmInv'
  BY <1>12 DEF ResetBegin, Goto, InObject, EnterReset, InPlace
<1>13. ASSUME NEW c \in Client, ResetTimerStop(c) PROVE PmInv'
  BY <1>d, <1>13 DEF ResetTimerStop, Move, InObject, Disarm
<1>14. ASSUME NEW c \in Client, ResetTimerDelete(c) PROVE PmInv'
  BY <1>d, <1>14 DEF ResetTimerDelete, Move
<1>15. ASSUME NEW c \in Client, ResetCheck(c) PROVE PmInv'
  BY <1>d, <1>15 DEF ResetCheck, Move, InObject
<1>16. ASSUME NEW c \in Client, ResetGive(c) PROVE PmInv'
  BY <1>d, <1>16 DEF ResetGive, Move, InObject, GiveSync
<1>17. ASSUME NEW c \in Client, ResetJoin(c) PROVE PmInv'
  BY <1>d, <1>17 DEF ResetJoin, Move, InObject
<1>18. ASSUME NEW c \in Client, ResetKill(c) PROVE PmInv'
  BY <1>a, <1>18 DEF ResetKill, Move, Goto
<1>19. ASSUME NEW c \in Client, ResetNull(c) PROVE PmInv'
  BY <1>19 DEF ResetNull, Move, Goto, InObject
<1>20. ASSUME NEW c \in Client, ResetRelease(c) PROVE PmInv'
  BY <1>20 DEF ResetRelease, InObject, NoPm
<1>21. ASSUME NEW c \in Client, ResetTimeout(c) PROVE PmInv'
  BY <1>d, <1>21 DEF ResetTimeout, Move, InObject, InPlace
<1>22. CASE TimerFire \/ CallbackNotify \/ UNCHANGED vars
  BY <1>a, <1>22 DEF TimerFire, CallbackNotify, Disarm, GiveSync, vars, Fields
<1>23. ASSUME NEW h \in Thread, LoopTop(h) PROVE PmInv'
  BY <1>23 DEF LoopTop, Run, AfterTop, ByThreadInPlace
<1>24. ASSUME NEW h \in Thread, LoopAcquire(h) PROVE PmInv'
  BY <1>a, <1>c, <1>d, <1>24 DEF LoopAcquire, ByThread, RunActive, Acquired, Fields, Threads
<1>25. ASSUME NEW h \in Thread, LoopStopCheck(h) PROVE PmInv'
  BY <1>25 DEF LoopStopCheck, Run, ByThreadInPlace
<1>26. ASSUME NEW h \in Thread, OnStepReturns(h) PROVE PmInv'
  BY <1>a, <1>26 DEF OnStepReturns, Run, ByThreadInPlace, Threads
<1>27. ASSUME NEW h \in Thread, LoopArm(h) PROVE PmInv'
  BY <1>27 DEF LoopArm, Run
<1>28. ASSUME NEW h \in Thread, LoopHwWait(h) PROVE PmInv'
  BY <1>28 DEF LoopHwWait, Run, TakeSync
<1>29. ASSUME NEW h \in Thread, LoopDisarm(h) PROVE PmInv'
  BY <1>29 DEF LoopDisarm, Run, Disarm
<1>30. ASSUME NEW h \in Thread, LoopNap(h) PROVE PmInv'
  BY <1>30 DEF LoopNap, Run
<1>31. ASSUME NEW h \in Thread, OnStopReturns(h) PROVE PmInv'
  BY <1>31 DEF OnStopReturns, Run, ByThreadInPlace
<1>32. ASSUME NEW h \in Thread, LoopRelease(h) PROVE PmInv'
  BY <1>a, <1>32 DEF LoopRelease, RunActive, Released, Fields, Threads
<1>33. ASSUME NEW h \in Thread, LoopWait(h) PROVE PmInv'
  BY <1>33 DEF LoopWait, Run, TakeSync
<1>34. ASSUME NEW h \in Thread, ExitStopReturns(h) PROVE PmInv'
  BY <1>34 DEF ExitStopReturns, Run, ByThreadInPlace
<1>35. ASSUME NEW h \in Thread, ExitRelease(h) PROVE PmInv'
  BY <1>a, <1>35 DEF ExitRelease, Run, Released, Fields
<1>36. ASSUME NEW h \in Thread, PlainBegin(h) PROVE PmInv'
  BY <1>a, <1>c, <1>d, <1>36 DEF PlainBegin, RunActive, Acquired, Fields, Threads
<1>37. ASSUME NEW h \in Thread, PlainWoken(h) PROVE PmInv'
  BY <1>37 DEF PlainWoken, Run, TakeSync
<1>38. ASSUME NEW h \in Thread, PlainReturns(h) PROVE PmInv'
  BY <1>a, <1>38 DEF PlainReturns, Run, Released, Fields
<1>39. ASSUME NEW h \in Thread, TermRelease(h) PROVE PmInv'
  BY <1>a, <1>39 DEF TermRelease, RunActive, Released, Fields, Threads
<1>40. ASSUME NEW h \in Thread, TermCopy(h) PROVE PmInv'
  BY <1>a, <1>40 DEF TermCopy, ByThreadInPlace, Threads
<1>41. ASSUME NEW h \in Thread, TermGive(h) PROVE PmInv'
  BY <1>41 DEF TermGive, Run
<1>42. ASSUME NEW h \in Thread, TermNull(h) PROVE PmInv'
  BY <1>42 DEF TermNull, Run
<1>43. ASSUME NEW h \in Thread, PlainWaits(h) PROVE PmInv'
  BY <1>43 DEF PlainWaits, Run, ByThreadInPlace
<1> QED
  BY <1>1, <1>2, <1>3, <1>4, <1>5, <1>6, <1>7, <1>8, <1>9, <1>10, <1>11, <1>12, <1>13,
     <1>14, <1>15, <1>16, <1>17, <1>18, <1>19, <1>20, <1>21, <1>22, <1>23, <1>24, <1>25,
     <1>26, <1>27, <1>28, <1>29, <1>30, <1>31, <1>32, <1>33, <1>34, <1>35, <1>36, <1>37,
     <1>38, <1>39, <1>40, <1>41, <1>42, <1>43
     DEF Next, Start, Reset, Trampoline

-----------------------------------------------------------------------------
(* The properties *)

\* All of it holds at once when start waits for what is left of an earlier use.
LEMMA Inductive ==
  ASSUME CarefulStart
  PROVE  /\ Init => IInv
         /\ IInv /\ [Next]_vars => IInv'
<1>1. Init => IInv
  BY InitTypes, UseInit, JoinInit, PmInit DEF IInv
<1>2. IInv /\ [Next]_vars => IInv'
  BY TypeStep, UseStep, JoinStep, PmStep DEF IInv
<1> QED
  BY <1>1, <1>2

\* The invariant in which the three properties below are contained: one client
\* at a time starts or resets, the one thread that may run the user's functions
\* is the one of task_handle_, and join_sem_ and the locks go with its place.
THEOREM Invariance ==
  ASSUME CarefulStart
  PROVE  Spec => []IInv
<1>1. Init => IInv
  BY Inductive
<1>2. IInv /\ [Next]_vars => IInv'
  BY Inductive
<1> QED
  BY <1>1, <1>2, PTL DEF Spec

\* What reset promises to who destroys the data behind it: with task_handle_ back
\* at nullptr and no start or reset under way no user function is running, also
\* behind a reset that timed out and deleted the thread.
THEOREM JoinIsBarrier ==
  ASSUME CarefulStart
  PROVE  Spec => []JoinBarrier
<1>1. IInv => JoinBarrier
  <2> SUFFICES ASSUME IInv, TornDown, NEW t \in Thread
               PROVE  thread[t].pc \notin UserCode
    BY DEF JoinBarrier
  <2>1. thread[t].pc \in Over
    <3>1. task.task_handle_ # t
      BY DEF TornDown, NullHandle, Thread
    <3>2. \A c \in Client : pc[c] # "st_store"
      BY DEF TornDown, Starting, StartPcs
    <3> QED
      BY <3>1, <3>2 DEF IInv, JoinInv, Known
  <2> QED
    BY <2>1 DEF Over, UserCode
<1>2. Spec => []IInv
  BY Invariance
<1> QED
  BY <1>1, <1>2, PTL

\* The compare-and-swap of start_internal: however many clients start the task
\* and however often, two threads never run the user's functions.
THEOREM OneThreadOnly ==
  ASSUME CarefulStart
  PROVE  Spec => []OneThread
<1>1. IInv => OneThread
  BY DEF IInv, UseInv, OneAlive, OneThread, Gone, UserCode
<1>2. Spec => []IInv
  BY Invariance
<1> QED
  BY <1>1, <1>2, PTL

\* The release of the locks in YieldingTask's loop and in terminate_from_task:
\* a thread that waits to be woken, or is about to end, keeps none of them.
THEOREM IdleReleases ==
  ASSUME CarefulStart
  PROVE  Spec => []IdleReleasesPm
<1>1. IInv => IdleReleasesPm
  BY DEF IInv, PmInv, NotHeld, Outside, IdleReleasesPm
<1>2. Spec => []IInv
  BY Invariance
<1> QED
  BY <1>1, <1>2, PTL

-----------------------------------------------------------------------------
(* The life cycle *)

\* A thread goes to sleep when its sequence has ended.
WaitIdle == \A t \in Thread : thread[t].pc = "wait" => ~thread[t].active

\* While somebody starts, task_handle_ is the flag; only a thread that has ended
\* already, before its creator has stored the handle, takes it away.
Claimed == \A c \in Client : pc[c] \in StartPcs /\ task.task_handle_ # StartingFlag =>
             pc[c] = "st_store" /\ \A t \in Thread : Gone(t)
Created == \A c \in Client : pc[c] = "st_store" => new_handle[c] \in Thread

\* Nobody is asked to terminate before start is over.
NotYetAsked == \A c \in Client :
  pc[c] \in StartPcs \ {"st_flags"} => ~task.terminate_requested_

LifeInv == WaitIdle /\ Claimed /\ Created /\ NotYetAsked

\* A thread leaves terminate_requested_ to the clients, task_handle_ but for the
\* last line of terminate_from_task, and is not active when it goes to sleep.
LEMMA ThreadLeaves ==
  ASSUME TypeOK, NEW h \in Thread, Trampoline(h) \/ PlainWaits(h)
  PROVE  /\ task'.terminate_requested_ = task.terminate_requested_
         /\ TermNull(h) \/ task'.task_handle_ = task.task_handle_
         /\ thread'[h].pc = "wait" => ~thread'[h].active
<1>a. thread \in Threads /\ task \in Fields
  BY DEF TypeOK, Threads, ThreadPc
<1>1. CASE LoopTop(h)
  BY <1>a, <1>1 DEF LoopTop, ByThread, Run, AfterTop, ByThreadInPlace
<1>2. CASE LoopAcquire(h)
  BY <1>a, <1>2 DEF LoopAcquire, ByThread, RunActive, Acquired, Threads
<1>3. CASE LoopStopCheck(h)
  BY <1>a, <1>3 DEF LoopStopCheck, ByThread, Run, ByThreadInPlace
<1>4. CASE OnStepReturns(h)
  BY <1>a, <1>4 DEF OnStepReturns, ByThread, Run, ByThreadInPlace, Threads
<1>5. CASE LoopArm(h)
  BY <1>a, <1>5 DEF LoopArm, ByThread, Run
<1>6. CASE LoopHwWait(h)
  BY <1>a, <1>6 DEF LoopHwWait, ByThread, Run, TakeSync
<1>7. CASE LoopDisarm(h)
  BY <1>a, <1>7 DEF LoopDisarm, ByThread, Run, Disarm
<1>8. CASE LoopNap(h)
  BY <1>a, <1>8 DEF LoopNap, ByThread, Run
<1>9. CASE OnStopReturns(h)
  BY <1>a, <1>9 DEF OnStopReturns, ByThread, Run, ByThreadInPlace
<1>10. CASE LoopRelease(h)
  BY <1>a, <1>10 DEF LoopRelease, ByThread, RunActive, Released, Threads
<1>11. CASE LoopWait(h)
  BY <1>a, <1>11 DEF LoopWait, ByThread, Run, TakeSync, Threads
<1>12. CASE ExitStopReturns(h)
  BY <1>a, <1>12 DEF ExitStopReturns, ByThread, Run, ByThreadInPlace
<1>13. CASE ExitRelease(h)
  BY <1>a, <1>13 DEF ExitRelease, ByThread, Run, Released
<1>14. CASE PlainBegin(h)
  BY <1>a, <1>14 DEF PlainBegin, ByThread, RunActive, Acquired, Threads
<1>15. CASE PlainWoken(h)
  BY <1>a, <1>15 DEF PlainWoken, ByThread, Run, TakeSync
<1>16. CASE PlainReturns(h)
  BY <1>a, <1>16 DEF PlainReturns, ByThread, Run, Released
<1>17. CASE TermRelease(h)
  BY <1>a, <1>17 DEF TermRelease, ByThread, RunActive, Released, Threads
<1>18. CASE TermCopy(h)
  BY <1>a, <1>18 DEF TermCopy, ByThread, ByThreadInPlace, Threads
<1>19. CASE TermGive(h)
  BY <1>a, <1>19 DEF TermGive, ByThread, Run, Given
<1>20. CASE TermNull(h)
  BY <1>a, <1>20 DEF TermNull, ByThread, Run
<1>21. CASE PlainWaits(h)
  BY <1>a, <1>21 DEF PlainWaits, ByThread, Run, ByThreadInPlace
<1> QED
  BY <1>1, <1>2, <1>3, <1>4, <1>5, <1>6, <1>7, <1>8, <1>9, <1>10, <1>11, <1>12, <1>13,
     <1>14, <1>15, <1>16, <1>17, <1>18, <1>19, <1>20, <1>21
     DEF Trampoline

\* Nobody has started.
LEMMA LifeInit == Init => LifeInv
BY DEF Init, LifeInv, WaitIdle, Claimed, Created, NotYetAsked, StartPcs

\* The loop waits when it has made the sequence inactive; the flag is set by the
\* compare-and-swap and stays until the handle is stored or start fails, and
\* start's own reset of terminate_requested_ comes before the thread's creation.
LEMMA LifeStep ==
  ASSUME CarefulStart, IInv, LifeInv, [Next]_vars
  PROVE  LifeInv'
<1>a. /\ pc \in [Client -> ClientPc]
      /\ new_handle \in [Client -> Thread \cup {NullHandle}]
      /\ thread \in Threads /\ task \in Fields
      /\ NullHandle \notin Thread /\ StartingFlag \notin Thread /\ NullHandle # StartingFlag
  BY DEF IInv, TypeOK, Threads, ThreadPc, ClientPc, Thread, NullHandle, StartingFlag
<1>b. OneBusy /\ FreshStart /\ OneAlive /\ OnlyCreated
  BY DEF IInv, UseInv
<1> USE DEF LifeInv, WaitIdle, Claimed, Created, NotYetAsked, OneBusy, FreshStart, OneAlive,
            OnlyCreated, Gone, Busy, BeforeCreate, StartPcs, ResetPcs
<1>1. ASSUME NEW c \in Client, StartClaim(c) PROVE LifeInv'
  BY <1>1, <1>a, <1>b DEF StartClaim, Goto, Starting, Resetting, Quiescent, Fields
<1>2. ASSUME NEW c \in Client, StartSpin(c) PROVE LifeInv'
  BY <1>2, <1>a, <1>b DEF StartSpin, Move, Goto, InObject
<1>3. ASSUME NEW c \in Client, StartFlags(c) PROVE LifeInv'
  BY <1>3, <1>a, <1>b DEF StartFlags, Move, Goto, InObject
<1>4. ASSUME NEW c \in Client, StartHook(c) PROVE LifeInv'
  BY <1>4, <1>a, <1>b DEF StartHook, Move, Goto, InObject, NoPm
<1>5. ASSUME NEW c \in Client, StartHookFails(c) PROVE LifeInv'
  BY <1>5, <1>a, <1>b DEF StartHookFails, Move, Goto, InObject
<1>6. ASSUME NEW c \in Client, StartSems(c) PROVE LifeInv'
  <2>1. thread' = thread /\ new_handle' = new_handle
    BY <1>6 DEF StartSems, InObject
  <2>2. PICK sync \in {"null", "empty"}, join \in {"null", "empty"} :
          \/ /\ task' = [task EXCEPT !.sync_sem_ = sync, !.join_sem_ = join]
             /\ Goto(c, "st_create")
          \/ EnterReset(c) /\ task' = [task EXCEPT !.sync_sem_ = sync, !.join_sem_ = join,
                                                   !.task_handle_ = NullHandle]
    BY <1>a, <1>6 DEF StartSems, Fields
  <2>3. pc[c] = "st_sems"
    BY <1>6 DEF StartSems
  <2>4. CASE EnterReset(c)
    BY <1>a, <1>b, <2>1, <2>3, <2>4 DEF Goto, EnterReset
  <2>5. CASE ~EnterReset(c)
    BY <1>a, <1>b, <2>1, <2>2, <2>3, <2>5 DEF Goto, Fields
  <2> QED
    BY <2>4, <2>5
<1>7. ASSUME NEW c \in Client, StartCreate(c) PROVE LifeInv'
  BY <1>7, <1>a, <1>b DEF StartCreate, Goto, EnterReset, Fields, Threads
<1>8. ASSUME NEW c \in Client, StartStore(c) PROVE LifeInv'
  BY <1>8, <1>a, <1>b DEF StartStore, Move, Goto
<1>9. ASSUME NEW c \in Client, Notify(c) PROVE LifeInv'
  BY <1>9, <1>a, <1>b DEF Notify, Move, Goto, BeginCall
<1>10. ASSUME NEW c \in Client, RequestStop(c) PROVE LifeInv'
  BY <1>10, <1>a, <1>b DEF RequestStop, Move, Goto, BeginCall
<1>11. ASSUME NEW c \in Client, NotifyGive(c) PROVE LifeInv'
  BY <1>11, <1>a, <1>b DEF NotifyGive, Move, Goto, InObject, GiveSync, Given
<1>12. ASSUME NEW c \in Client, ResetBegin(c) PROVE LifeInv'
  BY <1>12, <1>a, <1>b DEF ResetBegin, Goto, InObject, EnterReset, InPlace
<1>13. ASSUME NEW c \in Client, ResetTimerStop(c) PROVE LifeInv'
  BY <1>13, <1>a, <1>b DEF ResetTimerStop, Move, Goto, InObject, Disarm
<1>14. ASSUME NEW c \in Client, ResetTimerDelete(c) PROVE LifeInv'
  BY <1>14, <1>a, <1>b DEF ResetTimerDelete, Move, Goto
<1>15. ASSUME NEW c \in Client, ResetCheck(c) PROVE LifeInv'
  BY <1>15, <1>a, <1>b DEF ResetCheck, Move, Goto, InObject
<1>16. ASSUME NEW c \in Client, ResetGive(c) PROVE LifeInv'
  BY <1>16, <1>a, <1>b DEF ResetGive, Move, Goto, InObject, AfterGive, GiveSync, Given
<1>17. ASSUME NEW c \in Client, ResetJoin(c) PROVE LifeInv'
  BY <1>17, <1>a, <1>b DEF ResetJoin, Move, Goto, InObject
<1>18. ASSUME NEW c \in Client, ResetKill(c) PROVE LifeInv'
  BY <1>18, <1>a, <1>b DEF ResetKill, Move, Goto
<1>19. ASSUME NEW c \in Client, ResetNull(c) PROVE LifeInv'
  BY <1>19, <1>a, <1>b DEF ResetNull, Move, Goto, InObject
<1>20. ASSUME NEW c \in Client, ResetRelease(c) PROVE LifeInv'
  BY <1>20, <1>a, <1>b DEF ResetRelease, Move, Goto, InObject, NoPm
<1>21. ASSUME NEW c \in Client, ResetTimeout(c) PROVE LifeInv'
  BY <1>21, <1>a, <1>b DEF ResetTimeout, Move, Goto, InObject, InPlace
<1>22. CASE TimerFire
  BY <1>22, <1>a, <1>b DEF TimerFire, Disarm, Fields
<1>23. CASE CallbackNotify
  BY <1>23, <1>a, <1>b DEF CallbackNotify, GiveSync, Given
<1>24. ASSUME NEW h \in Thread, Trampoline(h) \/ PlainWaits(h) PROVE LifeInv'
  <2>1. Own(h) /\ (TermNull(h) \/ task'.task_handle_ = task.task_handle_)
    BY <1>24, ThreadFrame, ThreadLeaves DEF IInv
  <2>2. WaitIdle' /\ Created' /\ NotYetAsked'
    BY <1>24, <2>1, ThreadLeaves DEF IInv, Own
  <2>3. CASE TermNull(h)
    BY <1>a, <1>b, <2>1, <2>3 DEF Own, TermNull, Run, Threads
  <2>4. CASE task'.task_handle_ = task.task_handle_
    BY <2>1, <2>2, <2>4 DEF Own
  <2> QED
    BY <2>1, <2>2, <2>3, <2>4
<1>25. CASE UNCHANGED vars
  BY <1>25 DEF vars
<1> QED
  BY <1>1, <1>2, <1>3, <1>4, <1>5, <1>6, <1>7, <1>8, <1>9, <1>10, <1>11, <1>12, <1>13,
     <1>14, <1>15, <1>16, <1>17, <1>18, <1>19, <1>20, <1>21, <1>22, <1>23, <1>24, <1>25
     DEF Next, Start, Reset

\* The user's function a thread at p runs.
CodeAt(p) == CASE p \in {"on_step", "func", "func_wait"} -> "step"
               [] p \in {"on_stop", "exit_stop"} -> "stop"
               [] OTHER -> "none"

LifeStepped == [Lifecycle!Next]_(Lifecycle!vars)

\* What the owner sees changes with task_handle_, the two flags and the threads.
LEMMA NothingSeen ==
  ASSUME thread' = thread, IsDown' <=> IsDown,
         task'.terminate_requested_ = task.terminate_requested_
  PROVE  LifeStepped
<1>1. Phase' = Phase
  BY DEF Phase
<1>2. Code' = Code
  BY DEF Code, Runs
<1>3. Left' = Left
  BY <1>1 DEF Left, MayBegin
<1> QED
  BY <1>1, <1>2, <1>3 DEF LifeStepped, Lifecycle!vars

\* An object that loses its handle when no user function runs is down.
LEMMA GoesDown ==
  ASSUME IsDown', \A t \in Thread : thread[t].pc \notin UserCode /\ thread'[t].pc \notin UserCode
  PROVE  LifeStepped
<1>1. Code = "none" /\ Code' = "none"
  BY DEF Code, Runs, UserCode
<1>2. Phase' = "down" /\ Left' = {}
  BY DEF Phase, Left
<1>3. CASE IsDown
  BY <1>1, <1>2, <1>3 DEF Phase, Left, LifeStepped, Lifecycle!vars
<1>4. CASE ~IsDown
  BY <1>1, <1>2, <1>4 DEF Phase, LifeStepped, Lifecycle!Next, Lifecycle!Down
<1> QED
  BY <1>3, <1>4

\* An object that comes up with its threads all gone, or one that has begun none.
LEMMA ComesUp ==
  ASSUME IsDown, ~IsDown', ~task'.terminate_requested_, \A t \in Thread : Gone(t),
         thread' = thread
  PROVE  LifeStepped
<1>1. Code = "none" /\ Code' = "none"
  BY DEF Code, Runs, Gone
<1>2. Phase = "down" /\ Phase' = "up" /\ Left' = {"step", "stop"}
  BY DEF Phase, Left
<1> QED
  BY <1>1, <1>2 DEF LifeStepped, Lifecycle!Next, Lifecycle!Start, Lifecycle!Functions

\* With one thread alive what is seen is what that thread does.
LEMMA OneSeen ==
  ASSUME OneAlive, NEW h \in Thread, Own(h), thread \in Threads
  PROVE  /\ Code = CodeAt(thread[h].pc) /\ Code' = CodeAt(thread'[h].pc)
         /\ Phase = "closing" => Left = MayBegin(h)
         /\ Phase' = "closing" => Left' = MayBegin(h)'
<1>1. \A u \in Thread \ {h} : Gone(u) /\ Gone(u)'
  BY DEF OneAlive, Own, Gone
<1>2. \A u \in Thread \ {h} : MayBegin(u) = {} /\ MayBegin(u)' = {}
  BY <1>1 DEF MayBegin, Gone
<1>3. /\ \A codes \in SUBSET UserCode : Runs(codes) <=> thread[h].pc \in codes
      /\ \A codes \in SUBSET UserCode : Runs(codes)' <=> thread'[h].pc \in codes
  BY <1>1 DEF Runs, Gone, UserCode
<1>4. Code = CodeAt(thread[h].pc) /\ Code' = CodeAt(thread'[h].pc)
  <2>1. {"on_step", "func", "func_wait"} \in SUBSET UserCode
        /\ {"on_stop", "exit_stop"} \in SUBSET UserCode
    BY DEF UserCode
  <2> QED
    BY <1>3, <2>1 DEF Code, CodeAt
<1>5. UNION {MayBegin(t) : t \in Thread} = MayBegin(h)
  BY <1>2
<1>6. UNION {MayBegin(t)' : t \in Thread} = MayBegin(h)'
  BY <1>2
<1> QED
  BY <1>4, <1>5, <1>6 DEF Left

\* A live thread that is not at its last line belongs to an object that is not
\* down, and stays in the phase it is in.
LEMMA ThreadUp ==
  ASSUME IInv, LifeInv, NEW h \in Thread, thread[h].pc \notin Over
  PROVE  ~IsDown
<1>1. \A c \in Client : pc[c] # "st_flags"
  BY DEF IInv, UseInv, FreshStart, BeforeCreate, Gone, Over
<1>2. task.task_handle_ # NullHandle
  <2>1. CASE task.task_handle_ = h
    BY <2>1 DEF Thread, NullHandle
  <2>2. CASE task.task_handle_ # h
    <3>1. PICK c \in Client : pc[c] = "st_store"
      BY <2>2 DEF IInv, JoinInv, Known
    <3>2. task.task_handle_ = StartingFlag
      BY <3>1 DEF LifeInv, Claimed, StartPcs, Gone, Over
    <3> QED
      BY <3>2 DEF StartingFlag, NullHandle
  <2> QED
    BY <2>1, <2>2
<1> QED
  BY <1>1, <1>2 DEF IsDown

\* What the owner sees of a thread's step: a function that begins, where it may,
\* one that ends, or nothing but less that may follow.
ThreadStep(h) ==
  \/ /\ CodeAt(thread'[h].pc) \in {"none", CodeAt(thread[h].pc)}
     /\ task.terminate_requested_ => MayBegin(h)' \subseteq MayBegin(h)
  \/ \E f \in Lifecycle!Functions :
       /\ CodeAt(thread'[h].pc) = f /\ CodeAt(thread[h].pc) \notin {"stop", f}
       /\ task.terminate_requested_ =>
            f \in MayBegin(h) /\ MayBegin(h)' \subseteq Lifecycle!Behind(f)

\* The loop looks at terminate_requested_ between any two sequences, and at
\* stop_requested_ before each step; the trampoline calls its function once.
LEMMA ThreadSteps ==
  ASSUME IInv, LifeInv, NEW h \in Thread, Trampoline(h) \/ PlainWaits(h)
  PROVE  ThreadStep(h)
<1>a. thread \in Threads /\ Active /\ WaitIdle
  BY DEF IInv, TypeOK, Threads, ThreadPc, PmInv, LifeInv
<1> USE DEF Active, WaitIdle, Threads, CodeAt, MayBegin, ThreadStep, Lifecycle!Functions,
            Lifecycle!Behind
<1>1. CASE LoopTop(h)
  BY <1>a, <1>1 DEF LoopTop, Run, AfterTop
<1>2. CASE LoopAcquire(h)
  BY <1>a, <1>2 DEF LoopAcquire, RunActive
<1>3. CASE LoopStopCheck(h)
  BY <1>a, <1>3 DEF LoopStopCheck, Run
<1>4. CASE OnStepReturns(h)
  BY <1>a, <1>4 DEF OnStepReturns, Run
<1>5. CASE LoopArm(h)
  BY <1>a, <1>5 DEF LoopArm, Run
<1>6. CASE LoopHwWait(h)
  BY <1>a, <1>6 DEF LoopHwWait, Run
<1>7. CASE LoopDisarm(h)
  BY <1>a, <1>7 DEF LoopDisarm, Run, Disarm
<1>8. CASE LoopNap(h)
  BY <1>a, <1>8 DEF LoopNap, Run
<1>9. CASE OnStopReturns(h)
  BY <1>a, <1>9 DEF OnStopReturns, Run
<1>10. CASE LoopRelease(h)
  BY <1>a, <1>10 DEF LoopRelease, RunActive
<1>11. CASE LoopWait(h)
  BY <1>a, <1>11 DEF LoopWait, Run
<1>12. CASE ExitStopReturns(h)
  BY <1>a, <1>12 DEF ExitStopReturns, Run
<1>13. CASE ExitRelease(h)
  BY <1>a, <1>13 DEF ExitRelease, Run
<1>14. CASE PlainBegin(h)
  BY <1>a, <1>14 DEF PlainBegin, RunActive
<1>15. CASE PlainWoken(h)
  BY <1>a, <1>15 DEF PlainWoken, Run
<1>16. CASE PlainReturns(h)
  BY <1>a, <1>16 DEF PlainReturns, Run
<1>17. CASE TermRelease(h)
  BY <1>a, <1>17 DEF TermRelease, RunActive
<1>18. CASE TermCopy(h)
  BY <1>a, <1>18 DEF TermCopy, ByThread
<1>19. CASE TermGive(h)
  BY <1>a, <1>19 DEF TermGive, Run
<1>20. CASE TermNull(h)
  BY <1>a, <1>20 DEF TermNull, Run
<1>21. CASE PlainWaits(h)
  BY <1>a, <1>21 DEF PlainWaits, Run
<1> QED
  BY <1>1, <1>2, <1>3, <1>4, <1>5, <1>6, <1>7, <1>8, <1>9, <1>10, <1>11, <1>12, <1>13,
     <1>14, <1>15, <1>16, <1>17, <1>18, <1>19, <1>20, <1>21
     DEF Trampoline

\* Every step of the object is one of its life, or none: a start that succeeds
\* brings it up, reset's check closes it, and its null store finds no function.
LEMMA LifeSteps ==
  ASSUME CarefulStart, IInv, LifeInv, [Next]_vars
  PROVE  LifeStepped
<1>a. /\ pc \in [Client -> ClientPc]
      /\ new_handle \in [Client -> Thread \cup {NullHandle}]
      /\ thread \in Threads /\ task \in Fields
      /\ NullHandle \notin Thread /\ StartingFlag \notin Thread /\ NullHandle # StartingFlag
  BY DEF IInv, TypeOK, Threads, ThreadPc, ClientPc, Thread, NullHandle, StartingFlag
<1>b. OneBusy /\ FreshStart /\ OneAlive
  BY DEF IInv, UseInv
<1> USE DEF OneBusy, FreshStart, Gone, Busy, BeforeCreate, StartPcs, ResetPcs
<1>1. ASSUME NEW c \in Client, StartClaim(c) PROVE LifeStepped
  <2>1. /\ thread' = thread
        /\ task'.terminate_requested_ = task.terminate_requested_
    BY <1>a, <1>1 DEF StartClaim, Fields
  <2>2. CASE task.task_handle_ = NullHandle
    <3>1. pc'[c] = "st_flags"
      BY <1>a, <1>1, <2>2 DEF StartClaim, Goto
    <3> QED
      BY <2>1, <2>2, <3>1, NothingSeen DEF IsDown
  <2>3. CASE task.task_handle_ # NullHandle
    <3>1. task' = task /\ \A d \in Client : pc'[d] = "st_flags" <=> pc[d] = "st_flags"
      BY <1>a, <1>1, <2>3 DEF StartClaim, Goto
    <3> QED
      BY <2>1, <3>1, NothingSeen DEF IsDown
  <2> QED
    BY <2>2, <2>3
<1>2. ASSUME NEW c \in Client, StartSpin(c) PROVE LifeStepped
  <2>1. /\ thread' = thread /\ (IsDown' <=> IsDown)
        /\ task'.terminate_requested_ = task.terminate_requested_
    BY <1>a, <1>b, <1>2 DEF StartSpin, Move, Goto, InObject, IsDown
  <2> QED
    BY <2>1, NothingSeen
<1>3. ASSUME NEW c \in Client, StartFlags(c) PROVE LifeStepped
  <2>1. IsDown /\ \A t \in Thread : Gone(t)
    BY <1>b, <1>3 DEF StartFlags, Move, IsDown
  <2>2. task.task_handle_ = StartingFlag
    BY <1>3 DEF StartFlags, Move, LifeInv, Claimed
  <2>3. \A d \in Client : pc'[d] # "st_flags"
    BY <1>a, <1>b, <1>3 DEF StartFlags, Move, Goto
  <2>4. task'.task_handle_ = StartingFlag /\ ~task'.terminate_requested_ /\ thread' = thread
    BY <1>a, <2>2, <1>3 DEF StartFlags, InObject, Fields
  <2> QED
    BY <1>a, <2>1, <2>3, <2>4, ComesUp DEF IsDown
<1>4. ASSUME NEW c \in Client, StartHook(c) PROVE LifeStepped
  <2>1. /\ thread' = thread /\ (IsDown' <=> IsDown)
        /\ task'.terminate_requested_ = task.terminate_requested_
    BY <1>a, <1>b, <1>4 DEF StartHook, Move, Goto, InObject, NoPm, IsDown
  <2> QED
    BY <2>1, NothingSeen
<1>5. ASSUME NEW c \in Client, StartHookFails(c) PROVE LifeStepped
  <2>1. task'.task_handle_ = NullHandle /\ thread' = thread
    BY <1>a, <1>5 DEF StartHookFails, InObject, Fields
  <2>2. \A t \in Thread : Gone(t)
    BY <1>b, <1>5 DEF StartHookFails, Move
  <2> QED
    BY <2>1, <2>2, GoesDown DEF IsDown, UserCode
<1>6. ASSUME NEW c \in Client, StartSems(c) PROVE LifeStepped
  <2>1. thread' = thread /\ (\A t \in Thread : Gone(t)) /\ pc[c] = "st_sems"
    BY <1>b, <1>6 DEF StartSems, InObject
  <2>2. PICK sync \in {"null", "empty"}, join \in {"null", "empty"} :
          \/ /\ task' = [task EXCEPT !.sync_sem_ = sync, !.join_sem_ = join]
             /\ Goto(c, "st_create")
          \/ task' = [task EXCEPT !.sync_sem_ = sync, !.join_sem_ = join,
                                  !.task_handle_ = NullHandle]
    BY <1>a, <1>6 DEF StartSems, Fields
  <2>3. CASE task'.task_handle_ = NullHandle
    BY <2>1, <2>3, GoesDown DEF IsDown, UserCode
  <2>4. CASE task'.task_handle_ # NullHandle
    <3>1. /\ task'.task_handle_ = task.task_handle_
          /\ task'.terminate_requested_ = task.terminate_requested_
          /\ \A d \in Client : pc'[d] = "st_flags" <=> pc[d] = "st_flags"
      BY <1>a, <2>1, <2>2, <2>4 DEF Goto, Fields
    <3> QED
      BY <2>1, <3>1, NothingSeen DEF IsDown
  <2> QED
    BY <2>3, <2>4
<1>7. ASSUME NEW c \in Client, StartCreate(c) PROVE LifeStepped
  <2>1. (\A t \in Thread : Gone(t)) /\ pc[c] = "st_create"
    BY <1>b, <1>7 DEF StartCreate
  <2>2. CASE task'.task_handle_ = NullHandle /\ thread' = thread
    BY <2>1, <2>2, GoesDown DEF IsDown, UserCode
  <2>3. CASE task' = task /\ Goto(c, "st_store")
    <3>1. \A t \in Thread : thread'[t].pc \in {"none", "dead", "begin", "top"}
      BY <1>a, <2>1, <2>2, <1>7 DEF StartCreate, Threads
    <3>2. Code = "none" /\ Code' = "none"
      BY <2>1, <3>1 DEF Code, Runs
    <3>3. ~task.terminate_requested_ /\ task.task_handle_ = StartingFlag
      BY <2>1 DEF LifeInv, NotYetAsked, Claimed
    <3>4. \A d \in Client : pc[d] # "st_flags" /\ pc'[d] # "st_flags"
      BY <1>a, <1>b, <2>1, <2>3 DEF Goto
    <3>5. ~IsDown /\ ~IsDown'
      BY <1>a, <2>3, <3>3, <3>4 DEF IsDown
    <3>6. Phase = "up" /\ Phase' = "up" /\ Left' = Left
      BY <2>3, <3>3, <3>5 DEF Phase, Left
    <3> QED
      BY <3>2, <3>6 DEF LifeStepped, Lifecycle!vars
  <2> QED
    BY <1>a, <1>7, <2>2, <2>3 DEF StartCreate, Fields
<1>8. ASSUME NEW c \in Client, StartStore(c) PROVE LifeStepped
  <2>1. /\ pc[c] = "st_store" /\ new_handle[c] \in Thread
        /\ ~task.terminate_requested_
        /\ task.task_handle_ # StartingFlag => \A t \in Thread : Gone(t)
    BY <1>8 DEF StartStore, Move, LifeInv, Created, NotYetAsked, Claimed
  <2>2. \A d \in Client : pc[d] # "st_flags" /\ pc'[d] # "st_flags"
    BY <1>a, <1>b, <1>8 DEF StartStore, Move, Goto
  <2>3. /\ task'.task_handle_ \in Thread /\ thread' = thread
        /\ task'.terminate_requested_ = task.terminate_requested_
    BY <1>a, <2>1, <1>8 DEF StartStore, Fields
  <2>4. ~IsDown'
    BY <1>a, <2>2, <2>3 DEF IsDown
  <2>5. CASE IsDown
    BY <1>a, <2>1, <2>2, <2>3, <2>4, <2>5, ComesUp DEF IsDown
  <2>6. CASE ~IsDown
    BY <2>3, <2>4, <2>6, NothingSeen
  <2> QED
    BY <2>5, <2>6
<1>9. ASSUME NEW c \in Client, Notify(c) PROVE LifeStepped
  <2>1. /\ thread' = thread /\ (IsDown' <=> IsDown)
        /\ task'.terminate_requested_ = task.terminate_requested_
    BY <1>a, <1>b, <1>9 DEF Notify, Move, Goto, BeginCall, IsDown
  <2> QED
    BY <2>1, NothingSeen
<1>10. ASSUME NEW c \in Client, RequestStop(c) PROVE LifeStepped
  <2>1. /\ thread' = thread /\ (IsDown' <=> IsDown)
        /\ task'.terminate_requested_ = task.terminate_requested_
    BY <1>a, <1>b, <1>10 DEF RequestStop, Move, Goto, BeginCall, IsDown
  <2> QED
    BY <2>1, NothingSeen
<1>11. ASSUME NEW c \in Client, NotifyGive(c) PROVE LifeStepped
  <2>1. /\ thread' = thread /\ (IsDown' <=> IsDown)
        /\ task'.terminate_requested_ = task.terminate_requested_
    BY <1>a, <1>b, <1>11 DEF NotifyGive, Move, Goto, InObject, GiveSync, Given, IsDown
  <2> QED
    BY <2>1, NothingSeen
<1>12. ASSUME NEW c \in Client, ResetBegin(c) PROVE LifeStepped
  <2>1. /\ thread' = thread /\ (IsDown' <=> IsDown)
        /\ task'.terminate_requested_ = task.terminate_requested_
    BY <1>a, <1>b, <1>12 DEF ResetBegin, Goto, InObject, EnterReset, InPlace, IsDown
  <2> QED
    BY <2>1, NothingSeen
<1>13. ASSUME NEW c \in Client, ResetTimerStop(c) PROVE LifeStepped
  <2>1. /\ thread' = thread /\ (IsDown' <=> IsDown)
        /\ task'.terminate_requested_ = task.terminate_requested_
    BY <1>a, <1>b, <1>13 DEF ResetTimerStop, Move, Goto, InObject, Disarm, IsDown
  <2> QED
    BY <2>1, NothingSeen
<1>14. ASSUME NEW c \in Client, ResetTimerDelete(c) PROVE LifeStepped
  <2>1. /\ thread' = thread /\ (IsDown' <=> IsDown)
        /\ task'.terminate_requested_ = task.terminate_requested_
    BY <1>a, <1>b, <1>14 DEF ResetTimerDelete, Move, Goto, IsDown
  <2> QED
    BY <2>1, NothingSeen
<1>15. ASSUME NEW c \in Client, ResetCheck(c) PROVE LifeStepped
  <2>1. \A d \in Client : pc[d] # "st_flags" /\ pc'[d] # "st_flags"
    BY <1>a, <1>b, <1>15 DEF ResetCheck, Move, Goto
  <2>2. thread' = thread /\ task'.task_handle_ = task.task_handle_
    BY <1>15 DEF ResetCheck, InObject
  <2>3. IsDown' <=> IsDown
    BY <2>1, <2>2 DEF IsDown
  <2>4. CASE IsDown \/ task.terminate_requested_
    <3>1. task'.terminate_requested_ = task.terminate_requested_
      BY <1>a, <2>1, <2>4, <1>15 DEF ResetCheck, IsDown, Fields
    <3> QED
      BY <2>2, <2>3, <3>1, NothingSeen
  <2>5. CASE ~IsDown /\ ~task.terminate_requested_
    <3>1. Phase = "up" /\ Phase' = "closing"
      <4>1. task'.terminate_requested_
        BY <1>a, <2>5, <1>15 DEF ResetCheck, IsDown, Fields
      <4> QED
        BY <2>3, <2>5, <4>1 DEF Phase
    <3>2. Code' = Code
      BY <2>2 DEF Code, Runs
    <3>3. Left' \in SUBSET Lifecycle!Behind(Code)
      <4>1. \A t \in Thread : MayBegin(t)' = MayBegin(t)
        BY <2>2 DEF MayBegin
      <4>2. Left' = UNION {MayBegin(t) : t \in Thread}
        BY <3>1, <4>1 DEF Left
      <4>3. \A t \in Thread : MayBegin(t) \subseteq Lifecycle!Behind(Code)
        BY <1>b DEF MayBegin, OneAlive, Code, Runs, Lifecycle!Behind, Lifecycle!Functions
      <4> QED
        BY <4>2, <4>3
    <3> QED
      BY <3>1, <3>2, <3>3 DEF LifeStepped, Lifecycle!Next, Lifecycle!Close
  <2> QED
    BY <2>4, <2>5
<1>16. ASSUME NEW c \in Client, ResetGive(c) PROVE LifeStepped
  <2>1. /\ thread' = thread /\ (IsDown' <=> IsDown)
        /\ task'.terminate_requested_ = task.terminate_requested_
    BY <1>a, <1>b, <1>16 DEF ResetGive, Move, Goto, InObject, AfterGive, GiveSync, Given, IsDown
  <2> QED
    BY <2>1, NothingSeen
<1>17. ASSUME NEW c \in Client, ResetJoin(c) PROVE LifeStepped
  <2>1. /\ thread' = thread /\ (IsDown' <=> IsDown)
        /\ task'.terminate_requested_ = task.terminate_requested_
    BY <1>a, <1>b, <1>17 DEF ResetJoin, Move, Goto, InObject, IsDown
  <2> QED
    BY <2>1, NothingSeen
<1>18. ASSUME NEW c \in Client, ResetKill(c) PROVE LifeStepped
  <2>1. \A d \in Client : pc[d] # "st_flags" /\ pc'[d] # "st_flags"
    BY <1>a, <1>b, <1>18 DEF ResetKill, Move, Goto
  <2>2. task' = task /\ Phase' = Phase
    BY <2>1, <1>18 DEF ResetKill, Phase, IsDown
  <2>3. CASE task.task_handle_ \notin Thread
    <3>1. thread' = thread
      BY <1>a, <1>18, <2>3 DEF ResetKill, Threads
    <3> QED
      BY <2>1, <2>2, <3>1, NothingSeen DEF IsDown
  <2>4. CASE task.task_handle_ \in Thread
    <3>1. \A t \in Thread : thread'[t] =
            IF t = task.task_handle_ THEN [thread[t] EXCEPT !.pc = "dead"] ELSE thread[t]
      BY <1>18 DEF ResetKill
    <3>2. \A t \in Thread : thread'[t].pc \in Over
      <4>1. \A t \in Thread : thread[t].pc \notin Over => t = task.task_handle_
        BY <1>b, <1>18 DEF ResetKill, Move, IInv, JoinInv, Known
      <4> QED
        BY <1>a, <3>1, <4>1 DEF Threads, Over
    <3>3. Code' = "none" /\ \A t \in Thread : MayBegin(t)' = {}
      BY <3>2 DEF Code, Runs, MayBegin, Over
    <3>4. Phase # "down" /\ Left' \in IF Phase = "up" THEN {Lifecycle!Functions} ELSE {{}}
      BY <1>a, <2>1, <2>2, <2>4, <3>3 DEF Phase, Left, Lifecycle!Functions, IsDown
    <3>5. Phase = "up" => Left = Lifecycle!Functions
      BY DEF Left, Lifecycle!Functions
    <3>6. Phase = "closing" \/ Phase = "up"
      BY <3>4 DEF Phase
    <3> QED
      BY <2>2, <3>3, <3>4, <3>5, <3>6
         DEF LifeStepped, Lifecycle!Next, Lifecycle!End, Lifecycle!PassOver, Lifecycle!vars
  <2> QED
    BY <2>3, <2>4
<1>19. ASSUME NEW c \in Client, ResetNull(c) PROVE LifeStepped
  <2>1. task'.task_handle_ = NullHandle /\ thread' = thread
    BY <1>a, <1>19 DEF ResetNull, InObject, Fields
  <2>2. \A t \in Thread : thread[t].pc \in Over
    BY <1>19 DEF ResetNull, Move, IInv, JoinInv, Joined
  <2> QED
    BY <2>1, <2>2, GoesDown DEF IsDown, UserCode, Over
<1>20. ASSUME NEW c \in Client, ResetRelease(c) PROVE LifeStepped
  <2>1. /\ thread' = thread /\ (IsDown' <=> IsDown)
        /\ task'.terminate_requested_ = task.terminate_requested_
    BY <1>a, <1>b, <1>20 DEF ResetRelease, Move, Goto, InObject, NoPm, IsDown
  <2> QED
    BY <2>1, NothingSeen
<1>21. ASSUME NEW c \in Client, ResetTimeout(c) PROVE LifeStepped
  <2>1. /\ thread' = thread /\ (IsDown' <=> IsDown)
        /\ task'.terminate_requested_ = task.terminate_requested_
    BY <1>a, <1>b, <1>21 DEF ResetTimeout, Move, Goto, InObject, InPlace, IsDown
  <2> QED
    BY <2>1, NothingSeen
<1>22. CASE TimerFire \/ CallbackNotify \/ UNCHANGED vars
  <2>1. /\ thread' = thread /\ (IsDown' <=> IsDown)
        /\ task'.terminate_requested_ = task.terminate_requested_
    BY <1>a, <1>22 DEF TimerFire, CallbackNotify, Disarm, GiveSync, vars, IsDown, Fields
  <2> QED
    BY <2>1, NothingSeen
<1>23. ASSUME NEW h \in Thread, Trampoline(h) \/ PlainWaits(h) PROVE LifeStepped
  <2>1. Own(h) /\ task'.terminate_requested_ = task.terminate_requested_
    BY <1>23, ThreadFrame, ThreadLeaves DEF IInv
  <2>2. CASE TermNull(h)
    <3>1. task'.task_handle_ = NullHandle
      BY <1>a, <2>2 DEF TermNull, Fields
    <3>2. \A t \in Thread : thread[t].pc \in Over /\ thread'[t].pc \in Over
      BY <1>a, <1>b, <2>1, <2>2 DEF TermNull, Run, Over, OneAlive, Own, Threads
    <3> QED
      BY <3>1, <3>2, GoesDown DEF IsDown, UserCode, Over
  <2>3. CASE ~TermNull(h)
    <3>1. task'.task_handle_ = task.task_handle_ /\ (IsDown' <=> IsDown)
      BY <1>23, <2>1, <2>3, ThreadLeaves DEF IInv, IsDown, Own
    <3>2. Phase' = Phase
      BY <2>1, <3>1 DEF Phase
    <3>3. thread[h].pc \notin Over
      BY <1>23, <2>3, ThreadFrame DEF IInv, TermGive, Run, NotOver, Over
    <3>4. ~IsDown
      BY <3>3, ThreadUp
    <3>5. /\ Code = CodeAt(thread[h].pc) /\ Code' = CodeAt(thread'[h].pc)
          /\ Phase = "closing" => Left = MayBegin(h)
          /\ Phase' = "closing" => Left' = MayBegin(h)'
      BY <1>a, <1>b, <2>1, OneSeen
    <3>6. ThreadStep(h)
      BY <1>23, ThreadSteps
    <3>7. CASE ~task.terminate_requested_
      <4>1. Phase = "up" /\ Left = Lifecycle!Functions /\ Left' = Lifecycle!Functions
        BY <3>2, <3>4, <3>7 DEF Phase, Left, Lifecycle!Functions
      <4> QED
        BY <3>2, <3>5, <3>6, <4>1
           DEF ThreadStep, CodeAt, LifeStepped, Lifecycle!Next, Lifecycle!Begin, Lifecycle!End,
               Lifecycle!vars, Lifecycle!Functions
    <3>8. CASE task.terminate_requested_
      <4>1. /\ Phase = "closing" /\ Phase' = "closing"
            /\ Left = MayBegin(h) /\ Left' = MayBegin(h)'
        BY <3>2, <3>4, <3>5, <3>8 DEF Phase
      <4> QED
        BY <3>5, <3>6, <3>8, <4>1
           DEF ThreadStep, LifeStepped, Lifecycle!Next, Lifecycle!Begin, Lifecycle!End,
               Lifecycle!PassOver, Lifecycle!vars, Lifecycle!Functions, CodeAt
    <3> QED
      BY <3>7, <3>8
  <2> QED
    BY <2>2, <2>3
<1> QED
  BY <1>1, <1>2, <1>3, <1>4, <1>5, <1>6, <1>7, <1>8, <1>9, <1>10, <1>11, <1>12, <1>13,
     <1>14, <1>15, <1>16, <1>17, <1>18, <1>19, <1>20, <1>21, <1>22, <1>23
     DEF Next, Start, Reset

\* An object that has been constructed is down.
LEMMA LifeBegins == Init => Lifecycle!Init
BY DEF Init, Lifecycle!Init, IsDown, Phase, Code, Runs, Left

\* EspTask and YieldingTask keep what they promise to who owns the object and the
\* data behind it: no user function runs while task_handle_ is nullptr, one runs
\* at a time, and a thread that reset has asked to terminate, wherever it was,
\* begins at most one step and one stop more before the handle is null again.
THEOREM ImplementsLifecycle ==
  ASSUME CarefulStart
  PROVE  Spec => ImplementsTaskLifecycle
<1>1. Init => IInv /\ LifeInv /\ Lifecycle!Init
  BY Inductive, LifeInit, LifeBegins
<1>2. IInv /\ LifeInv /\ [Next]_vars => (IInv /\ LifeInv)'
  BY Inductive, LifeStep
<1>3. IInv /\ LifeInv /\ [Next]_vars => [Lifecycle!Next]_(Lifecycle!vars)
  BY LifeSteps DEF LifeStepped
<1> QED
  BY <1>1, <1>2, <1>3, PTL DEF Spec, ImplementsTaskLifecycle, Lifecycle!Spec
=============================================================================
