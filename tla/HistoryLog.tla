----------------------------- MODULE HistoryLog -----------------------------
(***************************************************************************)
(* What the network logger promises to those who watch it: one log that    *)
(* only grows, of which the last Capacity bytes are kept, and streams that *)
(* each deliver it in order, from the oldest byte kept when they connect,  *)
(* and skip bytes only when those have been lost, on to the oldest byte    *)
(* that has not.                                                           *)
(***************************************************************************)
EXTENDS Integers, Sequences

CONSTANTS Stream,    \* the connections
          Capacity   \* how many bytes are kept

VARIABLES log,   \* every byte accepted, in order
          pos,   \* how far each stream has come in the log
          sent   \* the piece each stream has delivered last

vars == <<log, pos, sent>>

Init == /\ log = <<>>
        /\ pos = [s \in Stream |-> 0]
        /\ sent = [s \in Stream |-> <<>>]

Oldest == IF Len(log) > Capacity THEN Len(log) - Capacity ELSE 0

Grow == /\ Len(log') > Len(log)
        /\ SubSeq(log', 1, Len(log)) = log
        /\ UNCHANGED <<pos, sent>>

\* The next connection starts anew.
Close(s) == /\ pos' = [pos EXCEPT ![s] = 0]
            /\ sent' = [sent EXCEPT ![s] = <<>>]
            /\ UNCHANGED log

Deliver(s) ==
  LET from == IF pos[s] < Oldest THEN Oldest ELSE pos[s]
  IN \E to \in (from + 1)..Len(log) :
       /\ sent' = [sent EXCEPT ![s] = SubSeq(log, from + 1, to)]
       /\ pos' = [pos EXCEPT ![s] = to]
       /\ UNCHANGED log

Next == Grow \/ \E s \in Stream : Close(s) \/ Deliver(s)

Spec == Init /\ [][Next]_vars
=============================================================================
