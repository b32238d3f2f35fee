--------------------------- MODULE TaskLifecycle ---------------------------
(***************************************************************************)
(* What both kinds of task (MainLoopTask, EspTask) promise to who owns the *)
(* object and the data its functions use, with no flags, handles,          *)
(* semaphores, timers or threads: the life of the object from one start to *)
(* the next, and which of the user's functions may begin in it.            *)
(*                                                                         *)
(* A task that is down runs none of them.  One that is up runs one at a    *)
(* time, as often as it likes.  From the moment reset asks it to terminate *)
(* at most one step and behind it one stop still begin, and the task is    *)
(* down when they have returned.                                           *)
(***************************************************************************)

VARIABLES
  phase,   \* "down", "up" or "closing"
  code,    \* the function that runs: "step", "stop" or "none"
  left     \* the functions that may still begin

vars == <<phase, code, left>>

Functions == {"step", "stop"}

\* What may follow the function f when the task is closing.
Behind(f) == CASE f = "none" -> Functions
               [] f = "step" -> {"stop"}
               [] f = "stop" -> {}

Init == /\ phase = "down"
        /\ code = "none"
        /\ left = {}

\* start has claimed the object, and nothing runs.
Start == /\ phase # "up"
         /\ code = "none"
         /\ phase' = "up"
         /\ left' = Functions
         /\ UNCHANGED code

\* reset asks the task to terminate; what is under way decides what may follow.
Close == /\ phase = "up"
         /\ phase' = "closing"
         /\ left' \in SUBSET Behind(code)
         /\ UNCHANGED code

\* A step begins when nothing runs, a stop also where a step has just ended.
Begin(f) == /\ f \in left
            /\ code \in {"none", "step"} /\ code # f
            /\ code' = f
            /\ left' \in IF phase = "up" THEN {Functions} ELSE SUBSET Behind(f)
            /\ UNCHANGED phase

\* A function returns, or its thread is deleted.
End == /\ code # "none"
       /\ code' = "none"
       /\ left' \in IF phase = "up" THEN {Functions} ELSE SUBSET left
       /\ UNCHANGED phase

\* A closing task passes over what it might still have begun.
PassOver == /\ phase = "closing"
            /\ left' \in SUBSET left
            /\ UNCHANGED <<phase, code>>

\* reset has returned, start has failed, or the task has ended by itself.
Down == /\ phase # "down"
        /\ code = "none"
        /\ phase' = "down"
        /\ left' = {}
        /\ UNCHANGED code

Next == \/ Start \/ Close \/ End \/ PassOver \/ Down
        \/ \E f \in Functions : Begin(f)

Spec == Init /\ [][Next]_vars
=============================================================================
