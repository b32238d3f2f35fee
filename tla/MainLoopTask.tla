---------------------------- MODULE MainLoopTask ----------------------------
(***************************************************************************)
(* MainLoopTaskBase of src/espbase/main_loop_task.{hpp,cpp}: a sequence of *)
(* steps that run on the main loop, started, notified, stopped and torn    *)
(* down by other threads, and paced by an esp_timer.                       *)
(*                                                                         *)
(* The threads are the clients (one of which, Loop, is the main loop's own *)
(* thread calling from inside on_step or on_stop), the main loop running   *)
(* app_loop_step, and the esp_timer task running the timer's callback.     *)
(* Every read and write of a shared field, every esp_timer and semaphore   *)
(* call is a step of its own; a field read into a condition is read once.  *)
(*                                                                         *)
(* The main loop's queue appears as the number of this task's steps in it  *)
(* (they are all alike); MainLoop.tla models the queue itself.             *)
(***************************************************************************)
EXTENDS Integers, FiniteSets

CONSTANTS
  Client,         \* the threads that use the task
  Loop,           \* the client that is the main loop's thread
  Starters,       \* the clients that call start
  Resetters,      \* the clients that call reset
  Callers,        \* the clients that call notify and politely_request_stop
  QueueSize,      \* room for this task's steps in the main loop's queue
  Foreign,        \* may other commands fill that queue at any time?
  MayTimeOut,     \* may reset's wait for the semaphore time out?
  CarefulStart,   \* does start wait until nothing of an earlier use is left?
  UsePmLock,      \* do the configurations ask for a power-management lock?
  MaxStarts,      \* bound: calls of start
  MaxCalls,       \* bound: calls of notify and politely_request_stop
  MaxVersion,     \* the largest uint32_t
  CounterModulus  \* 2^32: inflight_count_ wraps

ASSUME ConfigAssumption ==
  /\ IsFiniteSet(Client)
  /\ Loop \in Client
  /\ Starters \subseteq Client
  /\ Resetters \subseteq Client
  /\ Callers \subseteq Client
  /\ QueueSize \in Nat \ {0}
  /\ {Foreign, MayTimeOut, CarefulStart, UsePmLock} \subseteq BOOLEAN
  /\ MaxStarts \in Nat
  /\ MaxCalls \in Nat
  /\ MaxVersion \in Nat \ {0}
  /\ CounterModulus \in Nat \ {0}

VARIABLES
  task,        \* the object's fields
  timers,      \* the esp_timers: "none", "idle", "armed" or "deleted"
  callback,    \* what the esp_timer task does: "idle", "add" or "push"
  queued,      \* steps of this task in the main loop's queue
  step,        \* where app_loop_step is, and its current_version
  pc,          \* where each client is
  starts, calls,  \* bounded counts of what the clients have called
  owed,        \* history: a start or notify no step has answered yet
  stopped_at,  \* history: the version of the latest on_stop, 0 after a later
               \* start or notify
  timed_out    \* history: some reset gave up waiting

external == <<timers, callback, queued, step>>
counts == <<starts, calls>>
history == <<owed, stopped_at, timed_out>>

vars == <<task, external, pc, counts, history>>

TimerId == 1..MaxStarts

\* sequence_version_ 0 is an inactive sequence; timer_handle_ is 0 for nullptr
\* and k for the timer created by the k-th start; pm stands for the PM locks.
Fields == [running_ : BOOLEAN, stop_requested_ : BOOLEAN, terminate_requested_ : BOOLEAN,
           sequence_version_ : 0..MaxVersion, inflight_count_ : 0..(CounterModulus - 1),
           timer_handle_ : 0..MaxStarts, join_sem_ : {"null", "empty", "given"},
           pm : {"off", "enabled", "held"}]

Init == /\ task = [running_ |-> FALSE, stop_requested_ |-> FALSE,
                   terminate_requested_ |-> FALSE, sequence_version_ |-> 0,
                   inflight_count_ |-> 0, timer_handle_ |-> 0, join_sem_ |-> "null",
                   pm |-> "off"]
        /\ timers = [t \in TimerId |-> "none"]
        /\ callback = "idle"
        /\ queued = 0
        /\ step = [pc |-> "idle", version |-> 0]
        /\ pc = [c \in Client |-> "idle"]
        /\ starts = 0 /\ calls = 0
        /\ owed = FALSE /\ stopped_at = 0 /\ timed_out = FALSE

-----------------------------------------------------------------------------
\* Where a thread is inside start, inside reset, or inside a call that pushes.
StartPcs == {"st_flags", "st_version", "st_inflight", "st_pm", "st_sem",
             "st_timer", "st_add", "st_push", "st_undo"}
ResetPcs == {"rs_terminate", "rs_timer_stop", "rs_timer_delete", "rs_timer_null",
             "rs_drain", "rs_wait", "rs_sem", "rs_pm"}
CallPcs == {"clear", "bump", "check", "timer", "add", "push"}

\* The user's code, which may call back into the task.
UserCode == {"on_step", "on_stop"}

Goto(c, l) == pc' = [pc EXCEPT ![c] = l]
Move(c, k, l) == pc[c] = k /\ Goto(c, l)

\* The loop's thread calls only from inside on_step or on_stop.
CanCall(c) == /\ pc[c] = "idle"
              /\ c = Loop => step.pc \in UserCode

\* inflight_count_.fetch_add(n) on a uint32_t.
FetchAdd(n) == [task EXCEPT !.inflight_count_ = (@ + n) % CounterModulus]

TimerIs(state) == task.timer_handle_ # 0 /\ timers[task.timer_handle_] = state
SetTimer(state) == timers' = [timers EXCEPT ![task.timer_handle_] = state]

\* esp_timer_stop(timer_handle_): an error, which is ignored, unless it is armed.
TimerStop == IF TimerIs("armed") THEN SetTimer("idle") ELSE UNCHANGED timers

\* main_loop.push<&MainLoopTaskBase::app_loop_step>(this) succeeds or fails.
PushOk == queued < QueueSize /\ queued' = queued + 1
PushFails == (queued = QueueSize \/ Foreign) /\ UNCHANGED queued

\* Nothing of an earlier use is left.
Quiescent == /\ queued = 0
             /\ step.pc = "idle"
             /\ callback = "idle"
             /\ \A t \in TimerId : timers[t] # "armed"
             /\ \A c \in Client : pc[c] = "idle"

Starting == \E c \in Client : pc[c] \in StartPcs

\* A step of a client that touches the object only, or nothing but one place.
InObject == UNCHANGED <<external, counts, history>>
InPlace == task' = task /\ InObject
InTimers == UNCHANGED <<task, callback, queued, step, counts, history>>
InQueue == UNCHANGED <<task, timers, callback, step, counts, history>>

-----------------------------------------------------------------------------
(* start_internal *)

\* The compare-and-swap that claims running_; a loser returns an error.
StartClaim(c) ==
  /\ c \in Starters
  /\ CanCall(c)
  /\ starts < MaxStarts
  /\ CarefulStart => Quiescent
  /\ task' = [task EXCEPT !.running_ = TRUE]
  /\ IF task.running_ THEN UNCHANGED pc ELSE Goto(c, "st_flags")
  /\ starts' = starts + 1
  /\ UNCHANGED <<external, calls, history>>

StartFlags(c) ==
  /\ Move(c, "st_flags", "st_version")
  /\ task' = [task EXCEPT !.stop_requested_ = FALSE, !.terminate_requested_ = FALSE]
  /\ InObject

\* A new version, by start or notify, is an activation a step has to answer.
Activate(version) ==
  /\ task' = [task EXCEPT !.sequence_version_ = version]
  /\ owed' = TRUE
  /\ stopped_at' = 0
  /\ UNCHANGED <<external, counts, timed_out>>

StartVersion(c) ==
  /\ Move(c, "st_version", "st_inflight")
  /\ Activate(1)

StartInflight(c) ==
  /\ Move(c, "st_inflight", "st_pm")
  /\ task' = [task EXCEPT !.inflight_count_ = 0]
  /\ InObject

\* enable(config) on both locks: created, kept, or deleted.
StartPm(c) ==
  /\ Move(c, "st_pm", "st_sem")
  /\ task' = [task EXCEPT !.pm = IF ~UsePmLock THEN "off"
                                 ELSE IF @ = "off" THEN "enabled" ELSE @]
  /\ InObject

\* On any failure start_internal calls reset before it returns.
StartFails(c, fields) ==
  /\ task' = [fields EXCEPT !.running_ = FALSE]
  /\ Goto(c, IF task.running_ THEN "rs_terminate" ELSE "idle")

\* xSemaphoreCreateBinary, unless there is one already; it may fail.
StartSem(c) ==
  /\ pc[c] = "st_sem"
  /\ \/ /\ task' = [task EXCEPT !.join_sem_ = IF @ = "null" THEN "empty" ELSE @]
        /\ Goto(c, "st_timer")
     \/ task.join_sem_ = "null" /\ StartFails(c, task)
  /\ InObject

NewTimer == CHOOSE t \in TimerId : timers[t] = "none"

\* esp_timer_create overwrites timer_handle_; it may fail.
StartTimer(c) ==
  /\ pc[c] = "st_timer"
  /\ \/ /\ task' = [task EXCEPT !.timer_handle_ = NewTimer]
        /\ timers' = [timers EXCEPT ![NewTimer] = "idle"]
        /\ Goto(c, "st_add")
     \/ StartFails(c, task) /\ UNCHANGED timers
  /\ UNCHANGED <<callback, queued, step, counts, history>>

StartAdd(c) ==
  /\ Move(c, "st_add", "st_push")
  /\ task' = FetchAdd(1)
  /\ InObject

StartPush(c) ==
  /\ pc[c] = "st_push"
  /\ \/ PushOk /\ Goto(c, "idle")
     \/ PushFails /\ Goto(c, "st_undo")
  /\ InQueue

\* The first push failed: the count is taken back and the object torn down.
StartUndo(c) ==
  /\ pc[c] = "st_undo"
  /\ StartFails(c, FetchAdd(-1))
  /\ InObject

Start(c) == \/ StartFlags(c) \/ StartVersion(c) \/ StartInflight(c) \/ StartPm(c)
            \/ StartSem(c) \/ StartTimer(c) \/ StartAdd(c) \/ StartPush(c) \/ StartUndo(c)

-----------------------------------------------------------------------------
(* notify and politely_request_stop *)

BeginCall(c) == /\ c \in Callers
                /\ CanCall(c)
                /\ CarefulStart => ~Starting
                /\ calls < MaxCalls
                /\ calls' = calls + 1

\* notify returns at once on a task that is not running or being torn down.
NotifyCheck(c) ==
  /\ BeginCall(c)
  /\ IF task.running_ /\ ~task.terminate_requested_
     THEN Goto(c, "clear") \/ Goto(c, "bump")   \* clear_stop or not
     ELSE UNCHANGED pc
  /\ UNCHANGED <<task, external, starts, history>>

NotifyClear(c) ==
  /\ Move(c, "clear", "bump")
  /\ task' = [task EXCEPT !.stop_requested_ = FALSE]
  /\ InObject

\* The compare-exchange loop: the next version, which is never 0.
NotifyBump(c) ==
  /\ Move(c, "bump", "timer")
  /\ Activate(IF task.sequence_version_ = MaxVersion THEN 1 ELSE task.sequence_version_ + 1)

\* politely_request_stop
StopFlag(c) ==
  /\ BeginCall(c)
  /\ task' = [task EXCEPT !.stop_requested_ = TRUE]
  /\ Goto(c, "check")
  /\ UNCHANGED <<external, starts, history>>

\* Faulty variant: kills the timer and counts on a step being queued.
StopCheckNoPush(c) ==
  /\ Move(c, "check", "idle")
  /\ TimerStop
  /\ InTimers

\* A step is pushed only for a sequence that is still iterating.
StopCheck(c) ==
  /\ Move(c, "check", IF task.sequence_version_ > 0 /\ task.running_ THEN "timer" ELSE "idle")
  /\ InPlace

\* Both calls stop a pending timer and push a step of their own.
CallTimer(c) ==
  /\ Move(c, "timer", "add")
  /\ TimerStop
  /\ InTimers

\* Faulty variant: the step is pushed without being counted.
CallAddForgotten(c) == Move(c, "add", "push") /\ InPlace

CallAdd(c) ==
  /\ Move(c, "add", "push")
  /\ task' = FetchAdd(1)
  /\ InObject

\* The result of the push is ignored.
CallPush(c) ==
  /\ Move(c, "push", "idle")
  /\ PushOk \/ PushFails
  /\ InQueue

Call(c) == \/ NotifyClear(c) \/ NotifyBump(c) \/ StopCheck(c)
           \/ CallTimer(c) \/ CallAdd(c) \/ CallPush(c)

-----------------------------------------------------------------------------
(* reset *)

\* running_.exchange(false): one caller tears down, the others return at once.
ResetClaim(c) ==
  /\ c \in Resetters
  /\ CanCall(c)
  /\ task.running_
  /\ task' = [task EXCEPT !.running_ = FALSE]
  /\ Goto(c, "rs_terminate")
  /\ InObject

ResetTerminate(c) ==
  /\ Move(c, "rs_terminate", "rs_timer_stop")
  /\ task' = [task EXCEPT !.terminate_requested_ = TRUE]
  /\ InObject

ResetTimerStop(c) ==
  /\ Move(c, "rs_timer_stop", IF task.timer_handle_ # 0 THEN "rs_timer_delete" ELSE "rs_drain")
  /\ TimerStop
  /\ InTimers

\* esp_timer_delete refuses an armed timer; the error is ignored.
ResetTimerDelete(c) ==
  /\ Move(c, "rs_timer_delete", "rs_timer_null")
  /\ SetTimer(IF TimerIs("armed") THEN "armed" ELSE "deleted")
  /\ InTimers

ResetTimerNull(c) ==
  /\ Move(c, "rs_timer_null", "rs_drain")
  /\ task' = [task EXCEPT !.timer_handle_ = 0]
  /\ InObject

\* Faulty variant: the count is not consulted.
ResetDrainUnchecked(c) == Move(c, "rs_drain", "rs_sem") /\ InPlace

\* Is there anything to wait for?
ResetDrain(c) ==
  /\ Move(c, "rs_drain", IF task.inflight_count_ > 0 /\ task.join_sem_ # "null"
                         THEN "rs_wait" ELSE "rs_sem")
  /\ InPlace

\* xSemaphoreTake(join_sem_, timeout_ms)
ResetWait(c) ==
  /\ Move(c, "rs_wait", "rs_sem")
  /\ \/ /\ task.join_sem_ = "given"
        /\ task' = [task EXCEPT !.join_sem_ = "empty"]
        /\ UNCHANGED timed_out
     \/ /\ MayTimeOut
        /\ task.join_sem_ = "empty"
        /\ timed_out' = TRUE
        /\ UNCHANGED task
  /\ UNCHANGED <<external, counts, owed, stopped_at>>

\* vSemaphoreDelete and the null store.
ResetSem(c) ==
  /\ Move(c, "rs_sem", "rs_pm")
  /\ task' = [task EXCEPT !.join_sem_ = "null"]
  /\ InObject

\* enable(false) on both locks, which releases a held one.
ResetPm(c) ==
  /\ Move(c, "rs_pm", "idle")
  /\ task' = [task EXCEPT !.pm = "off"]
  /\ InObject

Reset(c) == \/ ResetTerminate(c) \/ ResetTimerStop(c) \/ ResetTimerDelete(c)
            \/ ResetTimerNull(c) \/ ResetDrain(c) \/ ResetWait(c) \/ ResetSem(c)
            \/ ResetPm(c)

-----------------------------------------------------------------------------
(* The timer's callback, in the esp_timer task *)

\* The timer goes off and its callback is dispatched.
TimerFire(t) ==
  /\ callback = "idle"
  /\ timers[t] = "armed"
  /\ timers' = [timers EXCEPT ![t] = "idle"]
  /\ callback' = "add"
  /\ UNCHANGED <<task, queued, step, pc, counts, history>>

CallbackAdd ==
  /\ callback = "add"
  /\ task' = FetchAdd(1)
  /\ callback' = "push"
  /\ UNCHANGED <<timers, queued, step, pc, counts, history>>

CallbackPush ==
  /\ callback = "push"
  /\ PushOk \/ PushFails
  /\ callback' = "idle"
  /\ UNCHANGED <<task, timers, step, pc, counts, history>>

-----------------------------------------------------------------------------
(* app_loop_step, on the main loop's thread *)

StepMove(k, l) == step.pc = k /\ step' = [step EXCEPT !.pc = l]

\* As above: the step touches the object, nothing, or the timer only.
ByStep == UNCHANGED <<timers, callback, queued, pc, counts, history>>
ByStepInPlace == task' = task /\ ByStep
ByStepInTimers == UNCHANGED <<task, callback, queued, pc, counts, history>>

StepPop ==
  /\ StepMove("idle", "load")
  /\ queued > 0
  /\ queued' = queued - 1
  /\ UNCHANGED <<task, timers, callback, pc, counts, history>>

\* current_version: a step that sees an active sequence answers every earlier
\* start and notify.
StepLoad ==
  /\ step.pc = "load"
  /\ step' = [pc |-> "check", version |-> task.sequence_version_]
  /\ owed' = (owed /\ task.sequence_version_ = 0)
  /\ UNCHANGED <<task, timers, callback, queued, pc, counts, stopped_at, timed_out>>

NothingToDo == task.terminate_requested_ \/ step.version = 0

\* Faulty variant: returns without counting the step out.
StepCheckReturns ==
  StepMove("check", IF NothingToDo THEN "idle" ELSE "acquire") /\ ByStepInPlace

\* Faulty variant: a step looks at its version only.
StepCheckVersionOnly ==
  StepMove("check", IF step.version = 0 THEN "exit" ELSE "acquire") /\ ByStepInPlace

\* Nothing to do when tearing down or inactive.
StepCheck == StepMove("check", IF NothingToDo THEN "exit" ELSE "acquire") /\ ByStepInPlace

StepAcquire ==
  /\ StepMove("acquire", "choose")
  /\ task' = [task EXCEPT !.pm = IF @ = "enabled" THEN "held" ELSE @]
  /\ ByStep

\* stop_requested_ decides between on_stop and on_step.
StepChoose ==
  /\ StepMove("choose", IF task.stop_requested_ THEN "on_stop" ELSE "on_step")
  /\ ByStepInPlace

\* on_step returns a delay, or nothing: the natural end, which calls on_stop.
OnStepReturns ==
  /\ pc[Loop] = "idle"
  /\ StepMove("on_step", "rearm") \/ StepMove("on_step", "on_stop")
  /\ ByStepInPlace

StepRearm ==
  /\ StepMove("rearm", IF ~task.terminate_requested_ /\ task.timer_handle_ # 0
                       THEN "timer_stop" ELSE "release")
  /\ ByStepInPlace

StepTimerStop ==
  /\ StepMove("timer_stop", "timer_start")
  /\ TimerStop
  /\ ByStepInTimers

\* Faulty variant: started first and stopped last.
StepTimerStartThenStop ==
  /\ StepMove("timer_start", "release")
  /\ TimerStop
  /\ ByStepInTimers

\* esp_timer_start_once: an error, which is ignored, on a null, deleted or
\* armed timer.
StepTimerStart ==
  /\ StepMove("timer_start", "release")
  /\ IF TimerIs("idle") THEN SetTimer("armed") ELSE UNCHANGED timers
  /\ ByStepInTimers

OnStopReturns ==
  /\ StepMove("on_stop", "deactivate")
  /\ pc[Loop] = "idle"
  /\ stopped_at' = step.version
  /\ UNCHANGED <<task, timers, callback, queued, pc, counts, owed, timed_out>>

Deactivated(version) ==
  /\ StepMove("deactivate", "release")
  /\ task' = [task EXCEPT !.sequence_version_ = version]
  /\ ByStep

\* The version that the compare-exchange of on_stop's version for v leaves.
Exchanged(v) == IF task.sequence_version_ = step.version THEN v ELSE task.sequence_version_

\* Faulty variants: a plain store, no store, and -1 for "inactive".
StepDeactivateBlindly == Deactivated(0)
StepDeactivateForgotten == Deactivated(task.sequence_version_)
StepDeactivateMinusOne == Deactivated(Exchanged(-1))

\* Inactive, unless notify has bumped the version.
StepDeactivate == Deactivated(Exchanged(0))

Released(unlock) ==
  /\ StepMove("release", "exit")
  /\ task' = [task EXCEPT !.pm = IF unlock THEN "enabled" ELSE @]
  /\ ByStep

\* Faulty variant: the lock is kept when the sequence goes on.
StepReleaseSometimes == Released(task.pm = "held" /\ task.sequence_version_ = 0)

StepRelease == Released(task.pm = "held")

Decremented(last) ==
  /\ step.pc = "exit"
  /\ task' = FetchAdd(-1)
  /\ step' = [pc |-> IF task.inflight_count_ = last THEN "give_check" ELSE "idle",
              version |-> 0]
  /\ ByStep

\* Faulty variant: tests the decremented value against the wrong number.
StepExitOffByOne == Decremented(2)

\* fetch_sub(1) == 1: this was the last step in flight.
StepExit == Decremented(1)

StepGiveCheck ==
  /\ StepMove("give_check", IF task.terminate_requested_ /\ task.join_sem_ # "null"
                            THEN "give" ELSE "idle")
  /\ ByStepInPlace

\* xSemaphoreGive(join_sem_), which is read again.
StepGive ==
  /\ StepMove("give", "idle")
  /\ task' = [task EXCEPT !.join_sem_ = IF @ = "null" THEN "null" ELSE "given"]
  /\ ByStep

Step == \/ StepPop \/ StepLoad \/ StepCheck \/ StepAcquire \/ StepChoose
        \/ OnStepReturns \/ StepRearm \/ StepTimerStop \/ StepTimerStart
        \/ OnStopReturns \/ StepDeactivate \/ StepRelease \/ StepExit
        \/ StepGiveCheck \/ StepGive

-----------------------------------------------------------------------------
Next == \/ \E c \in Client :
             \/ StartClaim(c) \/ Start(c)
             \/ NotifyCheck(c) \/ StopFlag(c) \/ Call(c)
             \/ ResetClaim(c) \/ Reset(c)
        \/ \E t \in TimerId : TimerFire(t)
        \/ CallbackAdd \/ CallbackPush
        \/ Step

\* Calls in progress are scheduled, the main loop runs and on_step and on_stop
\* return, an armed timer goes off.  Nobody is obliged to begin a call.
Fairness == /\ \A c \in Client : WF_vars(Start(c) \/ Call(c) \/ Reset(c))
            /\ \A t \in TimerId : WF_vars(TimerFire(t))
            /\ WF_vars(CallbackAdd \/ CallbackPush)
            /\ WF_vars(Step)

Spec == Init /\ [][Next]_vars

FairSpec == Spec /\ Fairness

-----------------------------------------------------------------------------
\* Every field keeps the range its C++ type and use give it.
TypeOK ==
  /\ task \in Fields
  /\ timers \in [TimerId -> {"none", "idle", "armed", "deleted"}]
  /\ callback \in {"idle", "add", "push"}
  /\ queued \in 0..QueueSize
  /\ step \in [pc : {"idle", "load", "check", "acquire", "choose", "rearm", "timer_stop",
                     "timer_start", "deactivate", "release", "exit", "give_check", "give"}
                    \cup UserCode,
               version : 0..MaxVersion]
  /\ pc \in [Client -> {"idle"} \cup StartPcs \cup ResetPcs \cup CallPcs]
  /\ starts \in 0..MaxStarts
  /\ calls \in 0..MaxCalls
  /\ stopped_at \in 0..MaxVersion
  /\ {owed, timed_out} \subseteq BOOLEAN

\* reset has returned and nobody has called start since (or start was never
\* called): the time at which the destructor has run, or may run.
TornDown == ~task.running_ /\ \A c \in Client : pc[c] \notin StartPcs \cup ResetPcs

\* Once reset has returned without timing out, the user's on_step and on_stop
\* are not running, and no later step runs them: the object and the data they
\* use may be destroyed.
NoCallbackAfterReset == TornDown /\ ~timed_out => step.pc \notin UserCode

\* A notify that was accepted while a step runs, ends its sequence or re-arms
\* the timer is not lost: until some step has seen its version, the sequence
\* stays active and a step is queued or about to be.
NotifyNotLost ==
  owed /\ task.running_ /\ ~task.terminate_requested_ =>
    /\ task.sequence_version_ > 0
    /\ \/ queued > 0
       \/ step.pc = "load"
       \/ \E c \in Client : pc[c] \in {"timer", "add", "push"} \cup StartPcs

\* An active sequence never stalls: a step is queued or running, the timer is
\* armed, or a thread is on its way to push a step.
SequenceAlive ==
  task.running_ /\ ~task.terminate_requested_ /\ task.sequence_version_ > 0 =>
    \/ queued > 0
    \/ step.pc # "idle"
    \/ callback # "idle"
    \/ TimerIs("armed")
    \/ \E c \in Client : pc[c] \in {"timer", "add", "push"} \cup StartPcs

ToCount(b) == IF b THEN 1 ELSE 0

\* The steps queued, executing or counted and about to be pushed.
StepsInFlight == queued
               + ToCount(step.pc \notin {"idle", "give_check", "give"})
               + ToCount(callback = "push")
               + Cardinality({c \in Client : pc[c] \in {"push", "st_push", "st_undo"}})

\* inflight_count_ is the number of steps queued, executing or about to be
\* pushed, which is what reset takes it for.
InflightExact == task.inflight_count_ = StepsInFlight

\* With pushes that fail, steps are counted that will never run, so reset may
\* wait for nothing; but it never overlooks one.
InflightCoversSteps == task.inflight_count_ >= StepsInFlight

\* on_stop runs at most once for each activation: a second run needs a start or
\* a notify in between.
StopOnce == step.pc = "on_stop" => step.version # stopped_at

\* The light-sleep and APB locks are held only while a step does its work.
PmOnlyInStep ==
  task.pm = "held" => step.pc \in UserCode \cup {"choose", "rearm", "timer_stop", "timer_start",
                                           "deactivate", "release"}

\* A stop request on an active sequence is served: the sequence ends, unless
\* the request is withdrawn by a notify or overtaken by reset.
StopHonoured ==
  task.running_ /\ task.stop_requested_
    ~> task.sequence_version_ = 0 \/ ~task.stop_requested_ \/ ~task.running_

\* reset does not wait for a semaphore nobody will give.
ResetReturns == \A c \in Client : pc[c] = "rs_wait" ~> pc[c] = "idle"

\* When reset has returned without timing out, no step is left in the main
\* loop's queue and none is on its way there.
DrainedAfterReset == TornDown /\ ~timed_out => queued = 0 /\ callback = "idle"

\* When reset has returned without timing out, app_loop_step is done with the
\* object.
StepGoneAfterReset == TornDown /\ ~timed_out => step.pc \notin {"give_check", "give"}
-----------------------------------------------------------------------------
(* The life of the object, as its owner sees it *)

\* Down from the moment reset has returned in time until start sets the flags.
IsDown == /\ ~timed_out
          /\ task.running_ => \E c \in Client : pc[c] = "st_flags"
          /\ \A c \in Client : pc[c] \notin (StartPcs \ {"st_flags"}) \cup ResetPcs

Phase == CASE IsDown -> "down"
           [] ~IsDown /\ task.terminate_requested_ -> "closing"
           [] ~IsDown /\ ~task.terminate_requested_ -> "up"

Code == CASE step.pc = "on_step" -> "step"
          [] step.pc = "on_stop" -> "stop"
          [] OTHER -> "none"

\* What a step that has passed its check, or is in user code, may still begin.
Left == CASE Phase = "up" -> {"step", "stop"}
          [] Phase = "closing" /\ step.pc \in {"acquire", "choose"} -> {"step", "stop"}
          [] Phase = "closing" /\ step.pc = "on_step" -> {"stop"}
          [] OTHER -> {}

Lifecycle == INSTANCE TaskLifecycle WITH phase <- Phase, code <- Code, left <- Left

\* Flags, count, semaphore and timer implement the life cycle: between a reset
\* that has returned in time and the next start no user function runs, and
\* behind terminate_requested_ only the step under way goes on, to at most one
\* on_step and one on_stop.
ImplementsTaskLifecycle == Lifecycle!Spec
=============================================================================
