---------------------------- MODULE DelayedFifo ----------------------------
(***************************************************************************)
(* What MainLoop promises to its users, with no slots, timers or critical  *)
(* sections: a bounded FIFO of commands executed one at a time, and a set  *)
(* of accepted delayed commands, each of which enters the FIFO once, or is *)
(* dropped because the FIFO had no room when its delay ran out.            *)
(*                                                                         *)
(* An element of Cmd is one submission (one call of push or post_delayed), *)
(* so that "executed at most once" is a statement about calls.             *)
(***************************************************************************)
EXTENDS Integers, Sequences

CONSTANTS Cmd,        \* the submissions
          None,       \* not a submission
          QueueSize   \* the capacity of the FIFO

VARIABLES fifo,     \* commands waiting to be executed, in order
          delayed,  \* accepted commands whose delay has not run out
          running,  \* the command being executed, or None
          done,     \* executed commands
          dropped,  \* accepted commands discarded for want of room
          refused   \* commands whose submission returned false

vars == <<fifo, delayed, running, done, dropped, refused>>

InFifo == {fifo[i] : i \in DOMAIN fifo}

New(c) == c \notin InFifo \cup delayed \cup {running} \cup done \cup dropped \cup refused

HasRoom == Len(fifo) < QueueSize

Init == /\ fifo = <<>>
        /\ delayed = {}
        /\ running = None
        /\ done = {}
        /\ dropped = {}
        /\ refused = {}

\* An immediate submission is accepted only if there is room.
Push(c) == /\ New(c)
           /\ HasRoom
           /\ fifo' = Append(fifo, c)
           /\ UNCHANGED <<delayed, running, done, dropped, refused>>

\* A delayed submission is accepted.
Delay(c) == /\ New(c)
            /\ delayed' = delayed \cup {c}
            /\ UNCHANGED <<fifo, running, done, dropped, refused>>

\* A submission of either kind is refused.
Refuse(c) == /\ New(c)
             /\ refused' = refused \cup {c}
             /\ UNCHANGED <<fifo, delayed, running, done, dropped>>

\* The delay of c has run out and there is room for it.
Expire(c) == /\ c \in delayed
             /\ HasRoom
             /\ delayed' = delayed \ {c}
             /\ fifo' = Append(fifo, c)
             /\ UNCHANGED <<running, done, dropped, refused>>

\* The delay of c has run out and there is no room: the only way to lose it.
Drop(c) == /\ c \in delayed
           /\ ~HasRoom
           /\ delayed' = delayed \ {c}
           /\ dropped' = dropped \cup {c}
           /\ UNCHANGED <<fifo, running, done, refused>>

Begin == /\ running = None
         /\ fifo # <<>>
         /\ running' = Head(fifo)
         /\ fifo' = Tail(fifo)
         /\ UNCHANGED <<delayed, done, dropped, refused>>

End == /\ running # None
       /\ done' = done \cup {running}
       /\ running' = None
       /\ UNCHANGED <<fifo, delayed, dropped, refused>>

Next == \/ \E c \in Cmd : Push(c) \/ Delay(c) \/ Refuse(c) \/ Expire(c) \/ Drop(c)
        \/ Begin
        \/ End

Spec == Init /\ [][Next]_vars
=============================================================================
