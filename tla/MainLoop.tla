------------------------------ MODULE MainLoop ------------------------------
(***************************************************************************)
(* MainLoop<QueueSize, MaxDelayedTasks> of src/espbase/main_loop.hpp: a    *)
(* bounded FreeRTOS queue of commands drained by one thread, and a pool of *)
(* one-shot FreeRTOS timers that push a command when a delay has run out.  *)
(*                                                                         *)
(* Posters are the tasks and interrupt handlers that call push and         *)
(* post_delayed; the loop's own thread is one of them, and calls only from *)
(* inside a command.  Each call is cut at every point where another thread *)
(* can see what it did: the critical section that claims a slot, the write *)
(* of the slot's command, the request to the timer daemon, the rollback.   *)
(*                                                                         *)
(* An element of Cmd is one call of push or post_delayed (the function and *)
(* argument it carries are abstracted to the identity of the call).  Delay *)
(* lengths are abstracted: an armed timer may expire at any time.          *)
(***************************************************************************)
EXTENDS Integers, Sequences, FiniteSets

CONSTANTS Cmd,              \* the submissions
          Poster,           \* the callers of push and post_delayed
          MainThread,       \* the poster that runs run_forever
          None,             \* not a submission
          QueueSize,        \* capacity of queue_
          MaxDelayedTasks   \* number of delayed-task slots

ASSUME SizeAssumption ==
  /\ QueueSize \in Nat \ {0}
  /\ MaxDelayedTasks \in Nat \ {0}

ASSUME NameAssumption == /\ None \notin Cmd
                         /\ MainThread \in Poster

Slot == 1..MaxDelayedTasks

VARIABLES
  queue,     \* queue_
  in_use,    \* delayed_tasks_[s].in_use
  cmd,       \* delayed_tasks_[s].cmd
  timer,     \* the FreeRTOS timer of slot s: "idle", "requested", "armed"
  daemon,    \* the FreeRTOS timer daemon and the slot whose callback it runs
  call,      \* the post_delayed call each poster is in
  running,   \* the command run_forever is executing, or None
  accepted,  \* history: calls that returned true
  refused,   \* history: calls that returned false
  dropped,   \* history: delayed commands whose push failed at expiry
  done       \* history: executed commands

vars == <<queue, in_use, cmd, timer, daemon, call, running,
          accepted, refused, dropped, done>>

IdleCall == [pc |-> "idle", slot |-> 1, cmd |-> None]

Init == /\ queue = <<>>
        /\ in_use = [s \in Slot |-> FALSE]
        /\ cmd = [s \in Slot |-> None]
        /\ timer = [s \in Slot |-> "idle"]
        /\ daemon = [pc |-> "idle", slot |-> 1]
        /\ call = [p \in Poster |-> IdleCall]
        /\ running = None
        /\ accepted = {}
        /\ refused = {}
        /\ dropped = {}
        /\ done = {}

-----------------------------------------------------------------------------
\* The loop's own thread calls into MainLoop only from inside a command.
CanCall(p) == /\ call[p].pc = "idle"
              /\ p = MainThread => running # None

\* c has not been submitted: every c stands for one call.
Fresh(c) == /\ c \notin accepted \cup refused
            /\ \A p \in Poster : call[p].cmd # c

\* Faulty variant: one command too many fits.
HasRoomOffByOne == Len(queue) <= QueueSize

HasRoom == Len(queue) < QueueSize

\* push, and post_delayed with a delay of 0: xQueueSend that does not wait.
PushFunc(p, c) ==
  /\ CanCall(p)
  /\ Fresh(c)
  /\ \/ /\ HasRoom
        /\ queue' = Append(queue, c)
        /\ accepted' = accepted \cup {c}
        /\ UNCHANGED refused
     \/ /\ ~HasRoom
        /\ refused' = refused \cup {c}
        /\ UNCHANGED <<queue, accepted>>
  /\ UNCHANGED <<in_use, cmd, timer, daemon, call, running, dropped, done>>

\* Faulty variant: a slot counts as free when its timer is not active
\* (xTimerIsTimerActive) instead of when nobody has claimed it.
FirstInactive(s) == /\ timer[s] = "idle"
                    /\ \A r \in 1..(s - 1) : timer[r] # "idle"

\* The slot the scan of delayed_tasks_ finds.
FirstFree(s) == /\ ~in_use[s]
                /\ \A r \in 1..(s - 1) : in_use[r]

\* post_delayed: the critical section that scans for a free slot and claims it.
ClaimSlot(p, c) ==
  /\ CanCall(p)
  /\ Fresh(c)
  /\ \E s \in Slot :
       /\ FirstFree(s)
       /\ in_use' = [in_use EXCEPT ![s] = TRUE]
       /\ call' = [call EXCEPT ![p] = [pc |-> "claimed", slot |-> s, cmd |-> c]]
  /\ UNCHANGED <<queue, cmd, timer, daemon, running, accepted, refused, dropped, done>>

\* post_delayed: every slot is taken.
PoolFull(p, c) ==
  /\ CanCall(p)
  /\ Fresh(c)
  /\ \A s \in Slot : in_use[s]
  /\ refused' = refused \cup {c}
  /\ UNCHANGED <<queue, in_use, cmd, timer, daemon, call, running, accepted, dropped, done>>

\* free_slot->cmd = {arg, execute}, outside the critical section.
WriteCmd(p) ==
  /\ call[p].pc = "claimed"
  /\ cmd' = [cmd EXCEPT ![call[p].slot] = call[p].cmd]
  /\ call' = [call EXCEPT ![p].pc = "written"]
  /\ UNCHANGED <<queue, in_use, timer, daemon, running, accepted, refused, dropped, done>>

\* xTimerChangePeriod puts a request on the daemon's command queue without
\* waiting.  That queue is shared with every other FreeRTOS timer, so it may be
\* full at any time.
Dispatch(p) ==
  /\ call[p].pc = "written"
  /\ \/ /\ timer' = [timer EXCEPT ![call[p].slot] = "requested"]
        /\ accepted' = accepted \cup {call[p].cmd}
        /\ call' = [call EXCEPT ![p] = IdleCall]
     \/ /\ call' = [call EXCEPT ![p].pc = "rollback"]
        /\ UNCHANGED <<timer, accepted>>
  /\ UNCHANGED <<queue, in_use, cmd, daemon, running, refused, dropped, done>>

\* Faulty variant: the error path returns without giving the slot back.
RollbackForgotten(p) ==
  /\ call[p].pc = "rollback"
  /\ refused' = refused \cup {call[p].cmd}
  /\ call' = [call EXCEPT ![p] = IdleCall]
  /\ UNCHANGED <<queue, in_use, cmd, timer, daemon, running, accepted, dropped, done>>

\* The critical section that gives the slot back when the request failed.
Rollback(p) ==
  /\ call[p].pc = "rollback"
  /\ in_use' = [in_use EXCEPT ![call[p].slot] = FALSE]
  /\ refused' = refused \cup {call[p].cmd}
  /\ call' = [call EXCEPT ![p] = IdleCall]
  /\ UNCHANGED <<queue, cmd, timer, daemon, running, accepted, dropped, done>>

-----------------------------------------------------------------------------
\* The daemon takes the request and (re)starts the timer.
Arm(s) ==
  /\ daemon.pc = "idle"
  /\ timer[s] = "requested"
  /\ timer' = [timer EXCEPT ![s] = "armed"]
  /\ UNCHANGED <<queue, in_use, cmd, daemon, call, running, accepted, refused, dropped, done>>

\* Faulty variant: timer_callback frees the slot before it has read the command.
ExpireFreesFirst(s) ==
  /\ daemon.pc = "idle"
  /\ timer[s] = "armed"
  /\ timer' = [timer EXCEPT ![s] = "idle"]
  /\ daemon' = [pc |-> "push", slot |-> s]
  /\ in_use' = [in_use EXCEPT ![s] = FALSE]
  /\ UNCHANGED <<queue, cmd, call, running, accepted, refused, dropped, done>>

\* The one-shot timer expires: the daemon marks it inactive and enters
\* timer_callback.
TimerExpire(s) ==
  /\ daemon.pc = "idle"
  /\ timer[s] = "armed"
  /\ timer' = [timer EXCEPT ![s] = "idle"]
  /\ daemon' = [pc |-> "push", slot |-> s]
  /\ UNCHANGED <<queue, in_use, cmd, call, running, accepted, refused, dropped, done>>

\* timer_callback: push_func(task->cmd), whose result is ignored.
CallbackPush ==
  /\ daemon.pc = "push"
  /\ \/ /\ HasRoom
        /\ queue' = Append(queue, cmd[daemon.slot])
        /\ UNCHANGED dropped
     \/ /\ ~HasRoom
        /\ dropped' = dropped \cup {cmd[daemon.slot]}
        /\ UNCHANGED queue
  /\ daemon' = [daemon EXCEPT !.pc = "free"]
  /\ UNCHANGED <<in_use, cmd, timer, call, running, accepted, refused, done>>

\* timer_callback: the critical section that frees the slot.
CallbackFree ==
  /\ daemon.pc = "free"
  /\ in_use' = [in_use EXCEPT ![daemon.slot] = FALSE]
  /\ daemon' = [pc |-> "idle", slot |-> 1]
  /\ UNCHANGED <<queue, cmd, timer, call, running, accepted, refused, dropped, done>>

-----------------------------------------------------------------------------
\* run_forever: xQueueReceive, is_in_main_loop_ = true, cmd.execute starts.
RunBegin ==
  /\ running = None
  /\ queue # <<>>
  /\ running' = Head(queue)
  /\ queue' = Tail(queue)
  /\ UNCHANGED <<in_use, cmd, timer, daemon, call, accepted, refused, dropped, done>>

\* cmd.execute returns, which it cannot do from within a call of its own.
RunEnd ==
  /\ running # None
  /\ call[MainThread].pc = "idle"
  /\ done' = done \cup {running}
  /\ running' = None
  /\ UNCHANGED <<queue, in_use, cmd, timer, daemon, call, accepted, refused, dropped>>

-----------------------------------------------------------------------------
Continue(p) == WriteCmd(p) \/ Dispatch(p) \/ Rollback(p)

Next == \/ \E p \in Poster, c \in Cmd : PushFunc(p, c) \/ ClaimSlot(p, c) \/ PoolFull(p, c)
        \/ \E p \in Poster : Continue(p)
        \/ \E s \in Slot : Arm(s) \/ TimerExpire(s)
        \/ CallbackPush
        \/ CallbackFree
        \/ RunBegin
        \/ RunEnd

\* A call in progress is scheduled, commands return, and the daemon serves its
\* command queue and its list of expired timers in turn, so that no slot is
\* passed over forever (the SF).  Nobody is obliged to submit anything.
Fairness == /\ \A p \in Poster : WF_vars(Continue(p))
            /\ \A s \in Slot : SF_vars(Arm(s)) /\ SF_vars(TimerExpire(s))
            /\ WF_vars(CallbackPush)
            /\ WF_vars(CallbackFree)
            /\ WF_vars(RunBegin)
            /\ WF_vars(RunEnd)

Spec == Init /\ [][Next]_vars

FairSpec == Spec /\ Fairness

-----------------------------------------------------------------------------
\* Every variable keeps the shape the C++ types give it, and queue_ never holds
\* more than QueueSize commands.
TypeOK ==
  /\ queue \in Seq(Cmd)
  /\ Len(queue) <= QueueSize
  /\ in_use \in [Slot -> BOOLEAN]
  /\ cmd \in [Slot -> Cmd \cup {None}]
  /\ timer \in [Slot -> {"idle", "requested", "armed"}]
  /\ daemon \in [pc : {"idle", "push", "free"}, slot : Slot]
  /\ call \in [Poster -> [pc : {"idle", "claimed", "written", "rollback"},
                          slot : Slot, cmd : Cmd \cup {None}]]
  /\ \A p \in Poster : call[p].cmd = None <=> call[p].pc = "idle"
  /\ running \in Cmd \cup {None}
  /\ accepted \subseteq Cmd
  /\ refused \subseteq Cmd
  /\ dropped \subseteq Cmd
  /\ done \subseteq Cmd

PosterHolds(p, s) == call[p].pc # "idle" /\ call[p].slot = s
TimerHolds(s) == timer[s] # "idle"
DaemonHolds(s) == daemon.pc # "idle" /\ daemon.slot = s

\* A slot is marked in_use exactly when somebody still needs it, and then one
\* party only: the post_delayed call that claimed it, its timer, or the
\* callback of its timer.  So no two calls write the same cmd, no slot is given
\* out while its timer or its callback can still read cmd, and none leaks.
SlotOwnership ==
  \A s \in Slot :
    /\ in_use[s] <=> \/ \E p \in Poster : PosterHolds(p, s)
                     \/ TimerHolds(s)
                     \/ DaemonHolds(s)
    /\ \A p, q \in Poster : PosterHolds(p, s) /\ PosterHolds(q, s) => p = q
    /\ \A p \in Poster : PosterHolds(p, s) => ~TimerHolds(s) /\ ~DaemonHolds(s)
    /\ ~(TimerHolds(s) /\ DaemonHolds(s))

\* The slots whose command has been accepted and not pushed yet.
Pending(s) == TimerHolds(s) \/ (daemon.pc = "push" /\ daemon.slot = s)

DelayedCmds == {cmd[s] : s \in {t \in Slot : Pending(t)}}

\* What the history of a call says of where its command is: an open call is
\* neither accepted nor refused; the slot of a call that has written its
\* command, and of every pending timer, holds the right one; and only accepted
\* commands are queued, executed or dropped.
Contents ==
  /\ \A p \in Poster : call[p].pc # "idle" => call[p].cmd \notin accepted \cup refused
  /\ \A p, q \in Poster :
       call[p].pc # "idle" /\ call[q].pc # "idle" /\ call[p].cmd = call[q].cmd => p = q
  /\ \A p \in Poster : call[p].pc = "written" => cmd[call[p].slot] = call[p].cmd
  /\ \A s \in Slot : Pending(s) => cmd[s] \in accepted
  /\ \A s, t \in Slot : Pending(s) /\ Pending(t) /\ cmd[s] = cmd[t] => s = t
  /\ \A i \in 1..Len(queue) : queue[i] \in accepted
  /\ running \in accepted \cup {None}
  /\ done \subseteq accepted
  /\ dropped \subseteq accepted

Abstract == INSTANCE DelayedFifo WITH fifo <- queue, delayed <- DelayedCmds

\* Slots, timers and critical sections implement DelayedFifo: every accepted
\* call is executed at most once, with its own command and in the order of the
\* pushes; a refused one never; and an accepted delayed command is lost only
\* when queue_ is full at the moment its delay runs out.
ImplementsDelayedFifo == Abstract!Spec

\* An accepted command is executed, or dropped by timer_callback's push into a
\* full queue_; no slot or timer swallows it.
Delivery == \A c \in Cmd : c \in accepted ~> c \in done \cup dropped

\* post_delayed's claim on a slot ends on every path, the failed
\* xTimerChangePeriod included.
SlotsReturn == \A s \in Slot : in_use[s] ~> ~in_use[s]
=============================================================================
