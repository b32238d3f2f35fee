--------------------------- MODULE MainLoop_proofs ---------------------------
(***************************************************************************)
(* Proofs about MainLoop for every set of submissions and posters, every   *)
(* queue capacity and every number of slots: its types, who owns a slot,   *)
(* and that slots, timers and critical sections implement DelayedFifo.     *)
(*                                                                         *)
(* TypeOK is not inductive by itself (a callback pushes whatever its slot  *)
(* holds), nor is Contents (a write into a slot must not hit a pending     *)
(* one), so the three parts of Inv are proved together.                    *)
(***************************************************************************)
EXTENDS MainLoop, SequenceTheorems, TLAPS

Inv == TypeOK /\ SlotOwnership /\ Contents

USE SizeAssumption, NameAssumption DEF Slot

\* The constructor's state: every slot free, nothing queued.
LEMMA InitInv == Init => Inv
  BY DEF Init, Inv, TypeOK, SlotOwnership, Contents, IdleCall, PosterHolds,
         TimerHolds, DaemonHolds, Pending

\* Every step keeps the types; a callback pushes a command, not an empty slot,
\* because a pending slot holds an accepted command.
LEMMA TypeStep == TypeOK /\ Contents /\ [Next]_vars => TypeOK'
<1> SUFFICES ASSUME TypeOK, Contents, [Next]_vars
             PROVE  TypeOK'
  OBVIOUS
<1> USE DEF TypeOK
<1>1. ASSUME NEW p \in Poster, NEW c \in Cmd, PushFunc(p, c)
      PROVE  TypeOK'
  <2>1. Append(queue, c) \in Seq(Cmd) /\ Len(Append(queue, c)) = Len(queue) + 1
    BY AppendProperties
  <2>2. Len(queue) \in Nat
    OBVIOUS
  <2>3. queue' \in Seq(Cmd) /\ Len(queue') <= QueueSize
    <3>1. CASE HasRoom
      <4>1. queue' = Append(queue, c)
        BY <1>1, <3>1 DEF PushFunc
      <4> QED
        BY <2>1, <2>2, <3>1, <4>1 DEF HasRoom
    <3>2. CASE ~HasRoom
      BY <1>1, <3>2 DEF PushFunc
    <3> QED
      BY <3>1, <3>2
  <2> QED
    BY <1>1, <2>3 DEF PushFunc
<1>2. ASSUME NEW p \in Poster, NEW c \in Cmd, ClaimSlot(p, c)
      PROVE  TypeOK'
  BY <1>2 DEF ClaimSlot
<1>3. ASSUME NEW p \in Poster, NEW c \in Cmd, PoolFull(p, c)
      PROVE  TypeOK'
  BY <1>3 DEF PoolFull
<1>4. ASSUME NEW p \in Poster, WriteCmd(p)
      PROVE  TypeOK'
  BY <1>4 DEF WriteCmd
<1>5. ASSUME NEW p \in Poster, Dispatch(p)
      PROVE  TypeOK'
  <2>1. call[p].cmd \in Cmd /\ call[p].slot \in Slot
    BY <1>5 DEF Dispatch
  <2>2. CASE /\ timer' = [timer EXCEPT ![call[p].slot] = "requested"]
             /\ accepted' = accepted \cup {call[p].cmd}
             /\ call' = [call EXCEPT ![p] = IdleCall]
    BY <1>5, <2>1, <2>2 DEF Dispatch, IdleCall
  <2>3. CASE /\ call' = [call EXCEPT ![p].pc = "rollback"]
             /\ UNCHANGED <<timer, accepted>>
    BY <1>5, <2>1, <2>3 DEF Dispatch
  <2> QED
    BY <1>5, <2>2, <2>3 DEF Dispatch
<1>6. ASSUME NEW p \in Poster, Rollback(p)
      PROVE  TypeOK'
  BY <1>6 DEF Rollback, IdleCall
<1>7. ASSUME NEW s \in Slot, Arm(s)
      PROVE  TypeOK'
  BY <1>7 DEF Arm
<1>8. ASSUME NEW s \in Slot, TimerExpire(s)
      PROVE  TypeOK'
  BY <1>8 DEF TimerExpire
<1>9. CASE CallbackPush
  <2>1. cmd[daemon.slot] \in Cmd
    BY <1>9 DEF CallbackPush, Contents, Pending
  <2>2. /\ Append(queue, cmd[daemon.slot]) \in Seq(Cmd)
        /\ Len(Append(queue, cmd[daemon.slot])) = Len(queue) + 1
    BY <2>1, AppendProperties
  <2>3. Len(queue) \in Nat
    OBVIOUS
  <2>4. queue' \in Seq(Cmd) /\ Len(queue') <= QueueSize /\ dropped' \subseteq Cmd
    <3>1. CASE HasRoom
      <4>1. queue' = Append(queue, cmd[daemon.slot]) /\ UNCHANGED dropped
        BY <1>9, <3>1 DEF CallbackPush
      <4> QED
        BY <2>2, <2>3, <3>1, <4>1 DEF HasRoom
    <3>2. CASE ~HasRoom
      BY <1>9, <2>1, <3>2 DEF CallbackPush
    <3> QED
      BY <3>1, <3>2
  <2> QED
    BY <1>9, <2>4 DEF CallbackPush
<1>10. CASE CallbackFree
  BY <1>10 DEF CallbackFree
<1>11. CASE RunBegin
  BY <1>11, HeadTailProperties DEF RunBegin
<1>12. CASE RunEnd
  BY <1>12 DEF RunEnd
<1>13. CASE UNCHANGED vars
  BY <1>13 DEF vars
<1> QED
  BY <1>1, <1>2, <1>3, <1>4, <1>5, <1>6, <1>7, <1>8, <1>9, <1>10, <1>11, <1>12, <1>13
     DEF Next, Continue

\* Every step keeps the ownership of slots.
LEMMA OwnershipStep == TypeOK /\ SlotOwnership /\ [Next]_vars => SlotOwnership'
<1> SUFFICES ASSUME TypeOK, SlotOwnership, [Next]_vars
             PROVE  SlotOwnership'
  OBVIOUS
<1> USE DEF TypeOK, SlotOwnership, PosterHolds, TimerHolds, DaemonHolds
<1>1. ASSUME NEW p \in Poster, NEW c \in Cmd, PushFunc(p, c)
      PROVE  SlotOwnership'
  BY <1>1 DEF PushFunc
<1>2. ASSUME NEW p \in Poster, NEW c \in Cmd, ClaimSlot(p, c)
      PROVE  SlotOwnership'
  <2>1. PICK s \in Slot :
               /\ ~in_use[s]
               /\ in_use' = [in_use EXCEPT ![s] = TRUE]
               /\ call' = [call EXCEPT ![p] = [pc |-> "claimed", slot |-> s, cmd |-> c]]
    BY <1>2 DEF ClaimSlot, FirstFree
  <2>2. call[p].pc = "idle" /\ UNCHANGED <<timer, daemon>>
    BY <1>2 DEF ClaimSlot, CanCall
  <2>3. \A q \in Poster, t \in Slot : PosterHolds(q, t)' <=> PosterHolds(q, t) \/ (q = p /\ t = s)
    BY <2>1, <2>2
  <2> QED
    BY <2>1, <2>2, <2>3
<1>3. ASSUME NEW p \in Poster, NEW c \in Cmd, PoolFull(p, c)
      PROVE  SlotOwnership'
  BY <1>3 DEF PoolFull
<1>4. ASSUME NEW p \in Poster, WriteCmd(p)
      PROVE  SlotOwnership'
  BY <1>4 DEF WriteCmd
<1>5. ASSUME NEW p \in Poster, Dispatch(p)
      PROVE  SlotOwnership'
  <2>1. call[p].pc = "written" /\ UNCHANGED <<in_use, daemon>>
    BY <1>5 DEF Dispatch
  <2>2. CASE /\ timer' = [timer EXCEPT ![call[p].slot] = "requested"]
             /\ call' = [call EXCEPT ![p] = IdleCall]
    <3>1. \A q \in Poster, t \in Slot : PosterHolds(q, t)' <=> PosterHolds(q, t) /\ q # p
      BY <2>1, <2>2 DEF IdleCall
    <3>2. \A t \in Slot : TimerHolds(t)' <=> TimerHolds(t) \/ t = call[p].slot
      BY <2>1, <2>2
    <3> QED
      BY <2>1, <3>1, <3>2
  <2>3. CASE /\ call' = [call EXCEPT ![p].pc = "rollback"]
             /\ UNCHANGED timer
    <3>1. \A q \in Poster, t \in Slot : PosterHolds(q, t)' <=> PosterHolds(q, t)
      BY <2>1, <2>3
    <3> QED
      BY <2>1, <2>3, <3>1
  <2> QED
    BY <1>5, <2>2, <2>3 DEF Dispatch
<1>6. ASSUME NEW p \in Poster, Rollback(p)
      PROVE  SlotOwnership'
  BY <1>6 DEF Rollback, IdleCall
<1>7. ASSUME NEW s \in Slot, Arm(s)
      PROVE  SlotOwnership'
  BY <1>7 DEF Arm
<1>8. ASSUME NEW s \in Slot, TimerExpire(s)
      PROVE  SlotOwnership'
  BY <1>8 DEF TimerExpire
<1>9. CASE CallbackPush
  BY <1>9 DEF CallbackPush
<1>10. CASE CallbackFree
  BY <1>10 DEF CallbackFree
<1>11. CASE RunBegin
  BY <1>11 DEF RunBegin
<1>12. CASE RunEnd
  BY <1>12 DEF RunEnd
<1>13. CASE UNCHANGED vars
  BY <1>13 DEF vars
<1> QED
  BY <1>1, <1>2, <1>3, <1>4, <1>5, <1>6, <1>7, <1>8, <1>9, <1>10, <1>11, <1>12, <1>13
     DEF Next, Continue

\* Every step keeps the contents of slots, queue and histories right.
LEMMA ContentsStep == Inv /\ [Next]_vars => Contents'
<1> SUFFICES ASSUME TypeOK, SlotOwnership, Contents, [Next]_vars
             PROVE  Contents'
  BY DEF Inv
<1> USE DEF TypeOK, SlotOwnership, Contents, PosterHolds, TimerHolds, DaemonHolds, Pending
<1>1. ASSUME NEW p \in Poster, NEW c \in Cmd, PushFunc(p, c)
      PROVE  Contents'
  <2>1. /\ Len(Append(queue, c)) = Len(queue) + 1
        /\ \A i \in 1..Len(queue) : Append(queue, c)[i] = queue[i]
        /\ Append(queue, c)[Len(queue) + 1] = c
    BY AppendProperties
  <2>2. Len(queue) \in Nat
    OBVIOUS
  <2>3. UNCHANGED <<cmd, timer, daemon, call, running, done, dropped>>
    BY <1>1 DEF PushFunc
  <2>4. \A q \in Poster : call[q].cmd # c
    BY <1>1 DEF PushFunc, Fresh
  <2>5. CASE queue' = Append(queue, c) /\ accepted' = accepted \cup {c} /\ UNCHANGED refused
    <3>1. \A i \in 1..Len(queue') : queue'[i] \in accepted'
      BY <2>1, <2>2, <2>5
    <3> QED
      BY <2>3, <2>4, <2>5, <3>1
  <2>6. CASE refused' = refused \cup {c} /\ UNCHANGED <<queue, accepted>>
    BY <2>3, <2>4, <2>6
  <2> QED
    BY <1>1, <2>5, <2>6 DEF PushFunc
<1>2. ASSUME NEW p \in Poster, NEW c \in Cmd, ClaimSlot(p, c)
      PROVE  Contents'
  BY <1>2 DEF ClaimSlot, FirstFree, Fresh, CanCall
<1>3. ASSUME NEW p \in Poster, NEW c \in Cmd, PoolFull(p, c)
      PROVE  Contents'
  BY <1>3 DEF PoolFull, Fresh, CanCall
<1>4. ASSUME NEW p \in Poster, WriteCmd(p)
      PROVE  Contents'
  BY <1>4 DEF WriteCmd
<1>5. ASSUME NEW p \in Poster, Dispatch(p)
      PROVE  Contents'
  <2>1. /\ call[p].pc = "written"
        /\ UNCHANGED <<queue, cmd, daemon, running, refused, done, dropped>>
    BY <1>5 DEF Dispatch
  <2>2. CASE /\ timer' = [timer EXCEPT ![call[p].slot] = "requested"]
             /\ accepted' = accepted \cup {call[p].cmd}
             /\ call' = [call EXCEPT ![p] = IdleCall]
    <3>1. \A q \in Poster : call'[q].pc # "idle" => q # p /\ call'[q] = call[q]
      BY <2>2 DEF IdleCall
    <3>2. \A t \in Slot : Pending(t)' <=> Pending(t) \/ t = call[p].slot
      BY <2>1, <2>2
    <3>3. cmd[call[p].slot] = call[p].cmd /\ call[p].cmd \notin accepted
      BY <2>1
    <3> QED
      BY <2>1, <2>2, <3>1, <3>2, <3>3
  <2>3. CASE /\ call' = [call EXCEPT ![p].pc = "rollback"]
             /\ UNCHANGED <<timer, accepted>>
    BY <2>1, <2>3
  <2> QED
    BY <1>5, <2>2, <2>3 DEF Dispatch
<1>6. ASSUME NEW p \in Poster, Rollback(p)
      PROVE  Contents'
  BY <1>6 DEF Rollback, IdleCall
<1>7. ASSUME NEW s \in Slot, Arm(s)
      PROVE  Contents'
  BY <1>7 DEF Arm
<1>8. ASSUME NEW s \in Slot, TimerExpire(s)
      PROVE  Contents'
  BY <1>8 DEF TimerExpire
<1>9. CASE CallbackPush
  <2> DEFINE c == cmd[daemon.slot]
  <2>1. /\ c \in accepted
        /\ daemon.pc = "push" /\ daemon' = [daemon EXCEPT !.pc = "free"]
        /\ UNCHANGED <<cmd, timer, call, running, accepted, refused, done>>
    BY <1>9 DEF CallbackPush
  <2>2. /\ Len(Append(queue, c)) = Len(queue) + 1
        /\ \A i \in 1..Len(queue) : Append(queue, c)[i] = queue[i]
        /\ Append(queue, c)[Len(queue) + 1] = c
    BY <2>1, AppendProperties
  <2>3. Len(queue) \in Nat
    OBVIOUS
  <2>4. \A i \in 1..Len(queue') : queue'[i] \in accepted'
    BY <1>9, <2>1, <2>2, <2>3 DEF CallbackPush
  <2>5. dropped' \subseteq accepted'
    BY <1>9, <2>1 DEF CallbackPush
  <2>6. \A t \in Slot : Pending(t)' => Pending(t)
    BY <2>1
  <2> QED
    BY <2>1, <2>4, <2>5, <2>6
<1>10. CASE CallbackFree
  BY <1>10 DEF CallbackFree
<1>11. CASE RunBegin
  BY <1>11, HeadTailProperties DEF RunBegin
<1>12. CASE RunEnd
  BY <1>12 DEF RunEnd
<1>13. CASE UNCHANGED vars
  BY <1>13 DEF vars
<1> QED
  BY <1>1, <1>2, <1>3, <1>4, <1>5, <1>6, <1>7, <1>8, <1>9, <1>10, <1>11, <1>12, <1>13
     DEF Next, Continue

\* The inductive invariant holds throughout.
THEOREM Invariance == Spec => []Inv
<1>1. Inv /\ [Next]_vars => Inv'
  BY TypeStep, OwnershipStep, ContentsStep DEF Inv
<1> QED
  BY InitInv, <1>1, PTL DEF Spec

\* The C++ types hold, and queue_ stays within QueueSize.
THEOREM TypeCorrect == Spec => []TypeOK
<1>1. Inv => TypeOK
  BY DEF Inv
<1> QED
  BY Invariance, <1>1, PTL

\* A slot is in use exactly while one call, its timer or its callback needs it.
THEOREM SlotsOwned == Spec => []SlotOwnership
<1>1. Inv => SlotOwnership
  BY DEF Inv
<1> QED
  BY Invariance, <1>1, PTL

-----------------------------------------------------------------------------
\* A call that is not accepted yet is new to DelayedFifo.
LEMMA NotAcceptedIsNew ==
  ASSUME Inv, NEW c \in Cmd, c \notin accepted \cup refused
  PROVE  Abstract!New(c)
<1>1. \A i \in DOMAIN queue : queue[i] \in accepted
  BY DEF Inv, TypeOK, Contents
<1>2. c \notin Abstract!InFifo
  BY <1>1 DEF Abstract!InFifo
<1>3. c \notin DelayedCmds
  BY DEF Inv, Contents, DelayedCmds
<1>4. c # running /\ c \notin done /\ c \notin dropped
  BY DEF Inv, Contents
<1> QED
  BY <1>2, <1>3, <1>4 DEF Abstract!New

\* The steps that change no slot's pending command leave delayed alone.
LEMMA SameDelayed ==
  ASSUME TypeOK, UNCHANGED cmd, \A s \in Slot : Pending(s)' <=> Pending(s)
  PROVE  UNCHANGED DelayedCmds
  BY DEF DelayedCmds

\* The constructor maps to the empty FIFO.
LEMMA RefinesInit == Init => Abstract!Init
  BY DEF Init, Abstract!Init, DelayedCmds, Pending, TimerHolds

\* Every step is a step of DelayedFifo or none: a push is Push or Refuse, a
\* granted timer is Delay, timer_callback's push is Expire or Drop, and the
\* claims, writes and releases of slots are invisible.
LEMMA RefinesNext == Inv /\ [Next]_vars => [Abstract!Next]_(Abstract!vars)
<1> SUFFICES ASSUME Inv, [Next]_vars
             PROVE  [Abstract!Next]_(Abstract!vars)
  OBVIOUS
<1> USE DEF Inv
<1>1. ASSUME NEW p \in Poster, NEW c \in Cmd, PushFunc(p, c)
      PROVE  Abstract!Push(c) \/ Abstract!Refuse(c)
  <2>1. Abstract!New(c)
    BY <1>1, NotAcceptedIsNew DEF PushFunc, Fresh
  <2>2. UNCHANGED DelayedCmds
    BY <1>1, SameDelayed DEF PushFunc, Pending, TimerHolds
  <2> QED
    BY <1>1, <2>1, <2>2 DEF PushFunc, HasRoom, Abstract!Push, Abstract!Refuse, Abstract!HasRoom
<1>2. ASSUME NEW p \in Poster, NEW c \in Cmd, ClaimSlot(p, c)
      PROVE  UNCHANGED Abstract!vars
  <2>1. UNCHANGED DelayedCmds
    BY <1>2, SameDelayed DEF ClaimSlot, Pending, TimerHolds
  <2> QED
    BY <1>2, <2>1 DEF ClaimSlot, Abstract!vars
<1>3. ASSUME NEW p \in Poster, NEW c \in Cmd, PoolFull(p, c)
      PROVE  Abstract!Refuse(c)
  <2>1. Abstract!New(c)
    BY <1>3, NotAcceptedIsNew DEF PoolFull, Fresh
  <2>2. UNCHANGED DelayedCmds
    BY <1>3, SameDelayed DEF PoolFull, Pending, TimerHolds
  <2> QED
    BY <1>3, <2>1, <2>2 DEF PoolFull, Abstract!Refuse
<1>4. ASSUME NEW p \in Poster, WriteCmd(p)
      PROVE  UNCHANGED Abstract!vars
  <2>1. \A s \in Slot : Pending(s) => s # call[p].slot
    BY <1>4 DEF WriteCmd, TypeOK, SlotOwnership, PosterHolds, Pending, DaemonHolds
  <2>2. \A s \in Slot : Pending(s)' <=> Pending(s)
    BY <1>4 DEF WriteCmd, Pending, TimerHolds
  <2>3. \A s \in Slot : s # call[p].slot => cmd'[s] = cmd[s]
    BY <1>4 DEF WriteCmd, TypeOK
  <2>4. UNCHANGED DelayedCmds
    BY <2>1, <2>2, <2>3 DEF DelayedCmds
  <2> QED
    BY <1>4, <2>4 DEF WriteCmd, Abstract!vars
<1>5. ASSUME NEW p \in Poster, Dispatch(p)
      PROVE  Abstract!Delay(call[p].cmd) \/ UNCHANGED Abstract!vars
  <2>1. CASE timer' = [timer EXCEPT ![call[p].slot] = "requested"]
    <3>1. Abstract!New(call[p].cmd)
      BY <1>5, NotAcceptedIsNew DEF Dispatch, TypeOK, Contents
    <3>2. \A s \in Slot : Pending(s)' <=> Pending(s) \/ s = call[p].slot
      BY <1>5, <2>1 DEF Dispatch, TypeOK, Pending, TimerHolds
    <3>3. cmd[call[p].slot] = call[p].cmd /\ call[p].slot \in Slot /\ cmd' = cmd
      BY <1>5 DEF Dispatch, TypeOK, Contents
    <3>4. DelayedCmds' = DelayedCmds \cup {call[p].cmd}
      BY <3>2, <3>3 DEF DelayedCmds
    <3> QED
      BY <1>5, <3>1, <3>4 DEF Dispatch, Abstract!Delay
  <2>2. CASE UNCHANGED timer
    <3>1. UNCHANGED DelayedCmds
      BY <1>5, <2>2, SameDelayed DEF Dispatch, Pending, TimerHolds
    <3> QED
      BY <1>5, <3>1 DEF Dispatch, Abstract!vars
  <2> QED
    BY <1>5, <2>1, <2>2 DEF Dispatch
<1>6. ASSUME NEW p \in Poster, Rollback(p)
      PROVE  Abstract!Refuse(call[p].cmd)
  <2>1. Abstract!New(call[p].cmd)
    BY <1>6, NotAcceptedIsNew DEF Rollback, TypeOK, Contents
  <2>2. UNCHANGED DelayedCmds
    BY <1>6, SameDelayed DEF Rollback, Pending, TimerHolds
  <2> QED
    BY <1>6, <2>1, <2>2 DEF Rollback, Abstract!Refuse
<1>7. ASSUME NEW s \in Slot, Arm(s)
      PROVE  UNCHANGED Abstract!vars
  <2>1. \A t \in Slot : Pending(t)' <=> Pending(t)
    BY <1>7 DEF Arm, TypeOK, Pending, TimerHolds
  <2>2. UNCHANGED DelayedCmds
    BY <1>7, <2>1, SameDelayed DEF Arm
  <2> QED
    BY <1>7, <2>2 DEF Arm, Abstract!vars
<1>8. ASSUME NEW s \in Slot, TimerExpire(s)
      PROVE  UNCHANGED Abstract!vars
  <2>1. \A t \in Slot : Pending(t)' <=> Pending(t)
    BY <1>8 DEF TimerExpire, TypeOK, Pending, TimerHolds
  <2>2. UNCHANGED DelayedCmds
    BY <1>8, <2>1, SameDelayed DEF TimerExpire
  <2> QED
    BY <1>8, <2>2 DEF TimerExpire, Abstract!vars
<1>9. ASSUME CallbackPush
      PROVE  Abstract!Expire(cmd[daemon.slot]) \/ Abstract!Drop(cmd[daemon.slot])
  <2>1. Pending(daemon.slot) /\ daemon.slot \in Slot
    BY <1>9 DEF CallbackPush, TypeOK, Pending
  <2>2. cmd[daemon.slot] \in DelayedCmds
    BY <2>1 DEF DelayedCmds
  <2>3. \A t \in Slot : Pending(t)' <=> Pending(t) /\ t # daemon.slot
    BY <1>9 DEF CallbackPush, TypeOK, SlotOwnership, Pending, TimerHolds, DaemonHolds
  <2>4. \A t \in Slot : Pending(t) /\ cmd[t] = cmd[daemon.slot] => t = daemon.slot
    BY <2>1 DEF Contents
  <2>5. DelayedCmds' = DelayedCmds \ {cmd[daemon.slot]}
    BY <1>9, <2>1, <2>3, <2>4 DEF CallbackPush, DelayedCmds
  <2> QED
    BY <1>9, <2>2, <2>5 DEF CallbackPush, HasRoom, Abstract!Expire, Abstract!Drop, Abstract!HasRoom
<1>10. ASSUME CallbackFree
       PROVE  UNCHANGED Abstract!vars
  <2>1. UNCHANGED DelayedCmds
    BY <1>10, SameDelayed DEF CallbackFree, Pending, TimerHolds
  <2> QED
    BY <1>10, <2>1 DEF CallbackFree, Abstract!vars
<1>11. ASSUME RunBegin
       PROVE  Abstract!Begin
  <2>1. UNCHANGED DelayedCmds
    BY <1>11, SameDelayed DEF RunBegin, Pending, TimerHolds
  <2> QED
    BY <1>11, <2>1 DEF RunBegin, Abstract!Begin
<1>12. ASSUME RunEnd
       PROVE  Abstract!End
  <2>1. UNCHANGED DelayedCmds
    BY <1>12, SameDelayed DEF RunEnd, Pending, TimerHolds
  <2> QED
    BY <1>12, <2>1 DEF RunEnd, Abstract!End
<1>13. ASSUME UNCHANGED vars
       PROVE  UNCHANGED Abstract!vars
  <2>1. UNCHANGED DelayedCmds
    BY <1>13, SameDelayed DEF vars, Pending, TimerHolds
  <2> QED
    BY <1>13, <2>1 DEF vars, Abstract!vars
<1>14. \A p \in Poster : call[p].pc # "idle" => call[p].cmd \in Cmd
  BY DEF TypeOK
<1>15. daemon.pc = "push" => cmd[daemon.slot] \in Cmd
  BY DEF TypeOK, Contents, Pending
<1> QED
  BY <1>1, <1>2, <1>3, <1>4, <1>5, <1>6, <1>7, <1>8, <1>9, <1>10, <1>11, <1>12, <1>13,
     <1>14, <1>15
     DEF Next, Continue, Abstract!Next, Dispatch, Rollback, CallbackPush

\* MainLoop implements DelayedFifo.
THEOREM Refinement == Spec => ImplementsDelayedFifo
<1> QED
  BY Invariance, RefinesInit, RefinesNext, PTL DEF Spec, ImplementsDelayedFifo, Abstract!Spec
=============================================================================
