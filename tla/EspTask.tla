------------------------------ MODULE EspTask ------------------------------
(***************************************************************************)
(* EspTaskBase of src/espbase/esp_task.{hpp,cpp} with its two kinds of     *)
(* task: EspTask ("plain": one function, then the thread ends itself) and  *)
(* YieldingTask ("yielding": src/espbase/yielding_task.hpp, a step         *)
(* function called over and over until reset ends the thread).             *)
(*                                                                         *)
(* Threads are numbered in the order of their creation; task_handle_ is    *)
(* NullHandle, StartingFlag or a thread.  Clients run start, notify,       *)
(* request_stop and reset.  Every access to a shared field, every          *)
(* semaphore, timer and task call is a step of its own.                    *)
(***************************************************************************)
EXTENDS Integers, FiniteSets

CONSTANTS
  Client,        \* the threads that use the task object
  Starters,      \* the clients that call start
  Resetters,     \* the clients that call reset
  Callers,       \* the clients that call notify and request_stop
  Kinds,         \* the kinds of task explored, of "plain" and "yielding"
  MayTimeOut,    \* may reset's two-second wait for the thread time out?
  CarefulStart,  \* does start wait until nothing of an earlier use is left?
  MaxStarts,     \* bound: calls of start
  MaxCalls       \* bound: calls of notify and request_stop

ASSUME ConfigAssumption ==
  /\ Starters \cup Resetters \cup Callers \subseteq Client
  /\ Kinds \subseteq {"plain", "yielding"}
  /\ {MayTimeOut, CarefulStart} \subseteq BOOLEAN
  /\ MaxStarts \in Nat \ {0}
  /\ MaxCalls \in Nat

Thread == 1..MaxStarts
NullHandle == 0
StartingFlag == -1
NoPm == [on |-> FALSE, held |-> 0]

VARIABLES
  kind,          \* which derived class the object has
  task,          \* the object's fields
  orphan,        \* an armed timer whose handle is lost
  callback,      \* the esp_timer task: "idle" or "notify"
  thread,        \* where each thread is, its is_active and its j_sem
  pc,            \* where each client is
  new_handle,    \* start_internal's local
  starts, calls  \* bounded counts of what the clients have called

vars == <<kind, task, orphan, callback, thread, pc, new_handle, starts, calls>>

\* pm stands for the PM locks: do they exist, and how often they are held; timer
\* for timer_handle_, the hardware wake-up timer.
Fields == [task_handle_ : Thread \cup {NullHandle, StartingFlag},
           stop_requested_ : BOOLEAN, terminate_requested_ : BOOLEAN,
           sync_sem_ : {"null", "empty", "given"}, join_sem_ : {"null", "empty", "given"},
           pm : [on : BOOLEAN, held : 0..1], timer : {"null", "idle", "armed"}]

Init == /\ kind \in Kinds
        /\ task = [task_handle_ |-> NullHandle, stop_requested_ |-> FALSE,
                   terminate_requested_ |-> FALSE, sync_sem_ |-> "null",
                   join_sem_ |-> "null", pm |-> NoPm, timer |-> "null"]
        /\ orphan = FALSE
        /\ callback = "idle"
        /\ thread = [t \in Thread |-> [pc |-> "none", active |-> FALSE, j_sem |-> FALSE]]
        /\ pc = [c \in Client |-> "idle"]
        /\ new_handle = [c \in Client |-> NullHandle]
        /\ starts = 0 /\ calls = 0

-----------------------------------------------------------------------------
StartPcs == {"st_flags", "st_hook", "st_sems", "st_create", "st_store"}
ResetPcs == {"rs_timer_stop", "rs_timer_delete", "rs_check", "rs_give", "rs_join", "rs_kill",
             "rs_null", "rs_release"}

\* The user's functions: steps, stop functions, and a plain task's function.
UserCode == {"on_step", "on_stop", "exit_stop", "func", "func_wait"}

Goto(c, l) == pc' = [pc EXCEPT ![c] = l]
Move(c, k, l) == pc[c] = k /\ Goto(c, l)

Gone(t) == thread[t].pc \in {"none", "dead"}

Quiescent == /\ \A t \in Thread : Gone(t)
             /\ callback = "idle"
             /\ task.timer # "armed"
             /\ ~orphan

Starting == \E c \in Client : pc[c] \in StartPcs
Resetting == \E c \in Client : pc[c] \in ResetPcs

\* xSemaphoreGive on a binary semaphore.
Given(sem) == IF sem = "null" THEN "null" ELSE "given"

\* xSemaphoreGive(sync_sem_), by whoever notifies.
GiveSync == task' = [task EXCEPT !.sync_sem_ = Given(@)]

\* esp_timer_stop: an error, which is ignored, unless the timer is armed.
Disarm == task' = [task EXCEPT !.timer = IF @ = "armed" THEN "idle" ELSE @]

\* reset is virtual: YieldingTask::reset sees to its timer first.
EnterReset(c) == Goto(c, IF kind = "yielding" THEN "rs_timer_stop" ELSE "rs_check")

\* A step of a client that touches the object only, or nothing but its place.
InObject == UNCHANGED <<kind, orphan, callback, thread, new_handle, starts, calls>>
InPlace == task' = task /\ InObject

-----------------------------------------------------------------------------
(* start_internal *)

\* Faulty variant: a start in progress is taken for no start at all.
StartClaimIgnoresFlag(c) ==
  /\ c \in Starters
  /\ Move(c, "idle", "st_flags")
  /\ starts < MaxStarts
  /\ task.task_handle_ \notin Thread
  /\ ~Resetting
  /\ starts' = starts + 1
  /\ task' = [task EXCEPT !.task_handle_ = StartingFlag]
  /\ UNCHANGED <<kind, orphan, callback, thread, new_handle, calls>>

\* The compare-and-swap of the starting flag.  The loser waits and notifies the
\* task (notify_if_started), or returns an error.
StartClaim(c) ==
  /\ c \in Starters
  /\ pc[c] = "idle"
  /\ starts < MaxStarts
  /\ CarefulStart =>
       ~Resetting /\ (task.task_handle_ = NullHandle => Quiescent /\ ~Starting)
  /\ starts' = starts + 1
  /\ \/ /\ task.task_handle_ = NullHandle
        /\ task' = [task EXCEPT !.task_handle_ = StartingFlag]
        /\ Goto(c, "st_flags")
     \/ /\ task.task_handle_ # NullHandle
        /\ Goto(c, "st_spin") \/ UNCHANGED pc
        /\ UNCHANGED task
  /\ UNCHANGED <<kind, orphan, callback, thread, new_handle, calls>>

\* The spinlock ends when the handle is no longer the flag; then notify(true).
StartSpin(c) ==
  /\ Move(c, "st_spin", "give")
  /\ task.task_handle_ # StartingFlag
  /\ task' = [task EXCEPT !.stop_requested_ = FALSE]
  /\ InObject

StartFlags(c) ==
  /\ Move(c, "st_flags", "st_hook")
  /\ task' = [task EXCEPT !.stop_requested_ = FALSE, !.terminate_requested_ = FALSE]
  /\ InObject

\* on_task_claimed: a yielding task creates its hardware timer, or drops it,
\* as its configuration says.  Then the PM locks are enabled, or disabled.
StartHook(c) ==
  /\ Move(c, "st_hook", "st_sems")
  /\ \E timer \in IF kind = "plain" THEN {task.timer}
                   ELSE {"null", IF task.timer = "null" THEN "idle" ELSE task.timer},
        pm \in {NoPm, [task.pm EXCEPT !.on = TRUE]} :
       task' = [task EXCEPT !.timer = timer, !.pm = pm]
  /\ InObject

\* The timer cannot be created, which ends start.
StartHookFails(c) ==
  /\ Move(c, "st_hook", "idle")
  /\ kind = "yielding"
  /\ task.timer = "null"
  /\ task' = [task EXCEPT !.task_handle_ = NullHandle]
  /\ InObject

\* A missing semaphore is created, an old one is emptied.  Without both of them
\* start fails, and resets.
StartSems(c) ==
  /\ pc[c] = "st_sems"
  /\ \E sync \in IF task.sync_sem_ = "null" THEN {"null", "empty"} ELSE {"empty"},
        join \in IF task.join_sem_ = "null" THEN {"null", "empty"} ELSE {"empty"} :
       LET fields == [task EXCEPT !.sync_sem_ = sync, !.join_sem_ = join]
       IN  IF "null" \in {sync, join}
           THEN task' = [fields EXCEPT !.task_handle_ = NullHandle] /\ EnterReset(c)
           ELSE task' = fields /\ Goto(c, "st_create")
  /\ InObject

\* xTaskCreatePinnedToCore: from here on the thread runs.
StartCreate(c) ==
  /\ pc[c] = "st_create"
  /\ \/ \E t \in Thread :
          /\ thread[t].pc = "none"
          /\ \A u \in 1..(t - 1) : thread[u].pc # "none"
          /\ thread' = [thread EXCEPT ![t].pc = IF kind = "plain" THEN "begin" ELSE "top"]
          /\ new_handle' = [new_handle EXCEPT ![c] = t]
          /\ Goto(c, "st_store")
          /\ UNCHANGED task
     \/ /\ task' = [task EXCEPT !.task_handle_ = NullHandle]
        /\ EnterReset(c)
        /\ UNCHANGED <<thread, new_handle>>
  /\ UNCHANGED <<kind, orphan, callback, starts, calls>>

StartStore(c) ==
  /\ Move(c, "st_store", "idle")
  /\ task' = [task EXCEPT !.task_handle_ = new_handle[c]]
  /\ new_handle' = [new_handle EXCEPT ![c] = NullHandle]
  /\ UNCHANGED <<kind, orphan, callback, thread, starts, calls>>

Start(c) == \/ StartSpin(c) \/ StartFlags(c) \/ StartHook(c) \/ StartHookFails(c)
            \/ StartSems(c) \/ StartCreate(c) \/ StartStore(c)

-----------------------------------------------------------------------------
(* notify and request_stop *)

\* Both set the flag first and then give the semaphore.  Under CarefulStart no
\* call begins while the semaphore it uses is created or deleted.
BeginCall(c, stop) ==
  /\ c \in Callers
  /\ CarefulStart => ~Starting /\ ~Resetting
  /\ calls < MaxCalls
  /\ calls' = calls + 1
  /\ task' = [task EXCEPT !.stop_requested_ = stop]
  /\ Move(c, "idle", "give")
  /\ UNCHANGED <<kind, orphan, callback, thread, new_handle, starts>>

\* notify(clear_stop)
Notify(c) == \E stop \in {FALSE, task.stop_requested_} : BeginCall(c, stop)

RequestStop(c) == BeginCall(c, TRUE)

NotifyGive(c) ==
  /\ Move(c, "give", "idle")
  /\ GiveSync
  /\ InObject

-----------------------------------------------------------------------------
(* reset *)

ResetBegin(c) ==
  /\ c \in Resetters
  /\ pc[c] = "idle"
  /\ CarefulStart => ~Starting /\ ~Resetting
  /\ EnterReset(c)
  /\ InPlace

\* YieldingTask::reset: esp_timer_stop, then esp_timer_delete (which fails on an
\* armed timer, and is ignored) and the null store.
ResetTimerStop(c) ==
  /\ Move(c, "rs_timer_stop", "rs_timer_delete")
  /\ Disarm
  /\ InObject

ResetTimerDelete(c) ==
  /\ Move(c, "rs_timer_delete", "rs_check")
  /\ task' = [task EXCEPT !.timer = "null"]
  /\ orphan' = (orphan \/ task.timer = "armed")
  /\ UNCHANGED <<kind, callback, thread, new_handle, starts, calls>>

\* Is there a thread?  Then ask it to terminate.
ResetCheck(c) ==
  /\ Move(c, "rs_check", IF task.task_handle_ = NullHandle THEN "rs_release" ELSE "rs_give")
  /\ task' = [task EXCEPT !.terminate_requested_ = @ \/ task.task_handle_ # NullHandle]
  /\ InObject

AfterGive == IF task.join_sem_ # "null" THEN "rs_join" ELSE "rs_null"

\* Faulty variant: the flag is all that the thread is told.
ResetGiveForgotten(c) == Move(c, "rs_give", AfterGive) /\ InPlace

ResetGive(c) ==
  /\ Move(c, "rs_give", AfterGive)
  /\ GiveSync
  /\ InObject

\* Faulty variant: the wait returns at once.
ResetJoinSkipped(c) == Move(c, "rs_join", "rs_null") /\ InPlace

\* xSemaphoreTake(join_sem_, 2000 ms): in time, or not.
ResetJoin(c) ==
  /\ Move(c, "rs_join", "rs_null")
  /\ task.join_sem_ = "given"
  /\ task' = [task EXCEPT !.join_sem_ = "empty"]
  /\ InObject

ResetTimeout(c) ==
  /\ Move(c, "rs_join", "rs_kill")
  /\ MayTimeOut
  /\ task.join_sem_ = "empty"
  /\ InPlace

\* vTaskDelete(task_handle_): deleting nullptr is deleting the caller, and that
\* is what it is when the thread ends between the timeout and this load.
ResetKill(c) ==
  /\ Move(c, "rs_kill", IF task.task_handle_ \in Thread THEN "rs_null" ELSE "killed")
  /\ thread' = [t \in Thread |-> IF t = task.task_handle_ THEN [thread[t] EXCEPT !.pc = "dead"]
                                ELSE thread[t]]
  /\ UNCHANGED <<kind, task, orphan, callback, new_handle, starts, calls>>

ResetNull(c) ==
  /\ Move(c, "rs_null", "rs_release")
  /\ task' = [task EXCEPT !.task_handle_ = NullHandle]
  /\ InObject

\* The semaphores are deleted, and the PM locks.
ResetRelease(c) ==
  /\ Move(c, "rs_release", "idle")
  /\ task' = [task EXCEPT !.sync_sem_ = "null", !.join_sem_ = "null", !.pm = NoPm]
  /\ InObject

Reset(c) == \/ ResetTimerStop(c) \/ ResetTimerDelete(c) \/ ResetCheck(c) \/ ResetGive(c)
            \/ ResetJoin(c) \/ ResetKill(c) \/ ResetNull(c) \/ ResetRelease(c)

-----------------------------------------------------------------------------
(* The hardware timer, whose callback is notify() in the esp_timer task *)

TimerFire ==
  /\ callback = "idle"
  /\ \/ task.timer = "armed" /\ Disarm /\ UNCHANGED orphan
     \/ orphan /\ orphan' = FALSE /\ UNCHANGED task
  /\ callback' = "notify"
  /\ UNCHANGED <<kind, thread, pc, new_handle, starts, calls>>

CallbackNotify ==
  /\ callback = "notify"
  /\ GiveSync
  /\ callback' = "idle"
  /\ UNCHANGED <<kind, orphan, thread, pc, new_handle, starts, calls>>

-----------------------------------------------------------------------------
(* The threads *)

Run(t, k, l) == thread[t].pc = k /\ thread' = [thread EXCEPT ![t].pc = l]

\* The same for a step that makes the sequence active, or ends it.
RunActive(t, k, l, active) ==
  /\ thread[t].pc = k
  /\ thread' = [thread EXCEPT ![t].pc = l, ![t].active = active]

\* A thread touches the object and its own position, or its position only.
ByThread == UNCHANGED <<kind, orphan, callback, pc, new_handle, starts, calls>>
ByThreadInPlace == task' = task /\ ByThread

\* xSemaphoreTake(sync_sem_, portMAX_DELAY)
TakeSync == /\ task.sync_sem_ = "given"
            /\ task' = [task EXCEPT !.sync_sem_ = "empty"]

AfterTop(t, next) == IF task.terminate_requested_
                     THEN IF thread[t].active THEN "exit_stop" ELSE "term_release"
                     ELSE IF thread[t].active THEN next ELSE "acquire"

\* Faulty variant: stop requests are looked for on wakeup only.
LoopTopSkipsStop(t) == Run(t, "top", AfterTop(t, "on_step")) /\ ByThreadInPlace

\* YieldingTask: the loop's condition, then the transition to active.
LoopTop(t) == Run(t, "top", AfterTop(t, "stop_check")) /\ ByThreadInPlace

\* acquire_if_enabled and release: of a lock that is there, once.
Acquired == task' = [task EXCEPT !.pm.held = IF task.pm.on /\ @ = 0 THEN 1 ELSE @]

\* Faulty variant: acquired_ is not looked at.
ReleasedUnchecked == task' = [task EXCEPT !.pm.held = IF task.pm.on THEN @ - 1 ELSE @]

Released == task' = [task EXCEPT !.pm.held = IF task.pm.on /\ @ > 0 THEN @ - 1 ELSE @]

LoopAcquire(t) ==
  /\ RunActive(t, "acquire", "stop_check", TRUE)
  /\ Acquired
  /\ ByThread

LoopStopCheck(t) ==
  /\ Run(t, "stop_check", IF task.stop_requested_ THEN "on_stop" ELSE "on_step")
  /\ ByThreadInPlace

\* The step function returns a delay, or nothing: the natural end.
OnStepReturns(t) ==
  /\ \/ Run(t, "on_step", IF task.timer # "null" THEN "arm" ELSE "nap")
     \/ Run(t, "on_step", "on_stop")
  /\ ByThreadInPlace

\* esp_timer_start_once fails, and is ignored, on a timer reset has deleted.
LoopArm(t) ==
  /\ Run(t, "arm", "hw_wait")
  /\ task' = [task EXCEPT !.timer = IF @ = "idle" THEN "armed" ELSE @]
  /\ ByThread

\* The wait for the hardware timer's notify, or anybody's.
LoopHwWait(t) ==
  /\ Run(t, "hw_wait", "disarm")
  /\ TakeSync
  /\ ByThread

LoopDisarm(t) ==
  /\ Run(t, "disarm", "top")
  /\ Disarm
  /\ ByThread

\* The wait with a tick timeout ends with or without a notification.
LoopNap(t) ==
  /\ Run(t, "nap", "top")
  /\ task' = [task EXCEPT !.sync_sem_ = IF @ = "given" THEN "empty" ELSE @]
  /\ ByThread

OnStopReturns(t) == Run(t, "on_stop", "release") /\ ByThreadInPlace

\* Faulty variant: the sequence ends with the locks held.
LoopReleaseForgotten(t) == RunActive(t, "release", "wait", FALSE) /\ ByThreadInPlace

\* Idle: the locks are released and the thread waits to be notified.
LoopRelease(t) ==
  /\ RunActive(t, "release", "wait", FALSE)
  /\ Released
  /\ ByThread

LoopWait(t) ==
  /\ Run(t, "wait", "top")
  /\ TakeSync
  /\ ByThread

\* A terminating active thread runs the stop function and releases the locks.
ExitStopReturns(t) == Run(t, "exit_stop", "exit_release") /\ ByThreadInPlace

ExitRelease(t) ==
  /\ Run(t, "exit_release", "term_release")
  /\ Released
  /\ ByThread

\* EspTask: the trampoline takes the locks and calls the function.
PlainBegin(t) ==
  /\ RunActive(t, "begin", "func", TRUE)
  /\ Acquired
  /\ ByThread

\* A function that has not been told to terminate may wait for a notification.
PlainWaits(t) ==
  /\ Run(t, "func", "func_wait")
  /\ ~task.terminate_requested_
  /\ ByThreadInPlace

PlainWoken(t) ==
  /\ Run(t, "func_wait", "func")
  /\ TakeSync
  /\ ByThread

PlainReturns(t) ==
  /\ Run(t, "func", "term_release")
  /\ Released
  /\ ByThread

\* terminate_from_task
TermRelease(t) ==
  /\ RunActive(t, "term_release", "term_copy", FALSE)
  /\ Released
  /\ ByThread

\* The semaphore's handle is copied to the thread's stack.
TermCopy(t) ==
  /\ thread[t].pc = "term_copy"
  /\ thread' = [thread EXCEPT ![t].pc = "term_give", ![t].j_sem = (task.join_sem_ # "null")]
  /\ ByThreadInPlace

TermGive(t) ==
  /\ Run(t, "term_give", "term_null")
  /\ task' = [task EXCEPT !.join_sem_ = IF thread[t].j_sem THEN Given(@) ELSE @]
  /\ ByThread

\* task_handle_.store(nullptr), then vTaskDelete(nullptr).
TermNull(t) ==
  /\ Run(t, "term_null", "dead")
  /\ task' = [task EXCEPT !.task_handle_ = NullHandle]
  /\ ByThread

Trampoline(t) ==
  \/ LoopTop(t) \/ LoopAcquire(t) \/ LoopStopCheck(t) \/ OnStepReturns(t)
  \/ LoopArm(t) \/ LoopHwWait(t) \/ LoopDisarm(t) \/ LoopNap(t)
  \/ OnStopReturns(t) \/ LoopRelease(t) \/ LoopWait(t)
  \/ ExitStopReturns(t) \/ ExitRelease(t)
  \/ PlainBegin(t) \/ PlainWoken(t) \/ PlainReturns(t)
  \/ TermRelease(t) \/ TermCopy(t) \/ TermGive(t) \/ TermNull(t)

-----------------------------------------------------------------------------
Next == \/ \E c \in Client :
             \/ StartClaim(c) \/ Start(c)
             \/ Notify(c) \/ RequestStop(c) \/ NotifyGive(c)
             \/ ResetBegin(c) \/ Reset(c) \/ ResetTimeout(c)
        \/ TimerFire \/ CallbackNotify
        \/ \E t \in Thread : Trampoline(t) \/ PlainWaits(t)

\* Threads and calls in progress are scheduled, the user's functions return, a
\* plain function does so once it is told to terminate, armed timers go off.
\* Nothing is assumed of reset's timeout: what needs it to end is no join.
Fairness == /\ \A c \in Client : WF_vars(Start(c) \/ NotifyGive(c) \/ Reset(c))
            /\ \A t \in Thread : WF_vars(Trampoline(t))
            /\ WF_vars(TimerFire)
            /\ WF_vars(CallbackNotify)

Spec == Init /\ [][Next]_vars

FairSpec == Spec /\ Fairness

-----------------------------------------------------------------------------
\* Every field keeps the range its C++ type and use give it.
TypeOK ==
  /\ kind \in {"plain", "yielding"}
  /\ task \in Fields
  /\ orphan \in BOOLEAN
  /\ callback \in {"idle", "notify"}
  /\ thread \in [Thread -> [pc : {"none", "top", "acquire", "stop_check", "arm", "hw_wait",
                                 "disarm", "nap", "release", "wait", "exit_release", "begin",
                                 "term_release", "term_copy", "term_give", "term_null", "dead"}
                                \cup UserCode,
                           active : BOOLEAN, j_sem : BOOLEAN]]
  /\ pc \in [Client -> {"idle", "st_spin", "give", "killed"} \cup StartPcs \cup ResetPcs]
  /\ new_handle \in [Client -> Thread \cup {NullHandle}]
  /\ starts \in 0..MaxStarts
  /\ calls \in 0..MaxCalls

\* reset has returned, or no thread was ever started.
TornDown == task.task_handle_ = NullHandle /\ ~Starting /\ ~Resetting

\* Once reset has returned no user function is running, even when it had to
\* delete the thread: the data the functions use may be destroyed.
JoinBarrier == TornDown => \A t \in Thread : thread[t].pc \notin UserCode

\* At most one thread of the object runs the user's functions, whoever started
\* it and however often: the losers of the race, and a start after a reset.
OneThread == \A t, u \in Thread : {thread[t].pc, thread[u].pc} \subseteq UserCode => t = u

\* A handle that is left in task_handle_ is that of a live thread: running()
\* tells the truth, and notifying "the existing task" reaches one.
HandleIsAlive ==
  task.task_handle_ \in Thread /\ ~Resetting => ~Gone(task.task_handle_)

\* An idle yielding task holds no power-management lock.
IdleReleasesPm ==
  \A t \in Thread : thread[t].pc \in {"wait", "term_give", "term_null"} => task.pm.held = 0

\* A requested stop ends the sequence of a yielding task, wherever its thread
\* was when it was asked: it goes idle, unless the request is withdrawn.
StopServed ==
  kind = "yielding" /\ task.stop_requested_ ~> \/ ~task.stop_requested_
     \/ \A t \in Thread : thread[t].active => Gone(t)

\* reset gets its join: the thread it wakes sees the flag and ends.
ResetReturns ==
  \A c \in Client : pc[c] = "rs_join" ~> pc[c] \in {"idle", "killed"}
-----------------------------------------------------------------------------
(* The life of the object, as its owner sees it *)

\* Down while task_handle_ is nullptr, until a start sets the flags.
IsDown == task.task_handle_ = NullHandle \/ \E c \in Client : pc[c] = "st_flags"

Phase == CASE IsDown -> "down"
           [] ~IsDown /\ task.terminate_requested_ -> "closing"
           [] ~IsDown /\ ~task.terminate_requested_ -> "up"

Runs(codes) == \E t \in Thread : thread[t].pc \in codes

Code == CASE Runs({"on_step", "func", "func_wait"}) -> "step"
          [] Runs({"on_stop", "exit_stop"}) -> "stop"
          [] OTHER -> "none"

\* What a thread may still begin when it has been asked to terminate.
MayBegin(t) ==
  CASE thread[t].pc \in {"begin", "acquire", "stop_check"} -> {"step", "stop"}
    [] thread[t].pc \in {"on_step", "arm", "hw_wait", "disarm", "nap"} -> {"stop"}
    [] thread[t].pc = "top" /\ thread[t].active -> {"stop"}
    [] OTHER -> {}

Left == CASE Phase = "up" -> {"step", "stop"}
          [] Phase = "closing" -> UNION {MayBegin(t) : t \in Thread}
          [] OTHER -> {}

Lifecycle == INSTANCE TaskLifecycle WITH phase <- Phase, code <- Code, left <- Left

\* The handle, the flags and the thread's loop implement the life cycle: with
\* task_handle_ at nullptr no user function runs, and a thread that is asked to
\* terminate, wherever it is, begins at most one step and one stop more.
ImplementsTaskLifecycle == Lifecycle!Spec
=============================================================================
