-------------------------- MODULE ShutdownRegistry --------------------------
(***************************************************************************)
(* src/espbase/shutdown_registry.cpp: functions called, last first, before *)
(* deep sleep.  A mutex guards it: register_fn is one step that waits      *)
(* while shutdown_all, which holds the mutex over the calls, is under way. *)
(***************************************************************************)
EXTENDS Naturals, Sequences, SequencesExt

CONSTANTS ShutdownFn, MAX_FUNCTIONS

ASSUME RegistryAssumption == MAX_FUNCTIONS \in Nat \ {0}

VARIABLE registry
  \* functions_  the functions registered, its length being count_
  \* shutdown    shutdown_all: not called, under way, or returned
  \* next        the index of the function it calls next
  \* asked       history: the functions register_fn has been given, in order
  \* called      history: the functions shutdown_all has called, in order

RegFresh == [functions_ |-> <<>>, shutdown |-> "no", next |-> 0, asked |-> <<>>, called |-> <<>>]

RegTypeOK ==
  /\ DOMAIN registry = DOMAIN RegFresh
  /\ {registry.functions_, registry.asked, registry.called} \subseteq Seq(ShutdownFn)
  /\ registry.shutdown \in {"no", "calling", "done"}
  /\ registry.next \in 0..MAX_FUNCTIONS

\* Faulty variant: only the function registered last is looked at.
IsRegisteredLast(fn) == registry.functions_ # <<>> /\ Last(registry.functions_) = fn

IsRegistered(fn) == Contains(registry.functions_, fn)

\* Faulty variant: a full registry is written beyond its end.
RegisterFnUnbounded(fn) ==
  /\ registry.shutdown = "no"
  /\ registry' = [registry EXCEPT
       !.functions_ = IF IsRegistered(fn) THEN @ ELSE Append(@, fn),
       !.asked = IF Contains(@, fn) THEN @ ELSE Append(@, fn)]

RegisterFn(fn) ==
  /\ registry.shutdown = "no"
  /\ registry' = [registry EXCEPT
       !.functions_ = IF IsRegistered(fn) \/ Len(@) = MAX_FUNCTIONS THEN @ ELSE Append(@, fn),
       !.asked = IF Contains(@, fn) THEN @ ELSE Append(@, fn)]

ShutdownAll ==
  /\ registry.shutdown = "no"
  /\ registry' = [registry EXCEPT !.shutdown = "calling", !.next = Len(registry.functions_)]

CallNext ==
  /\ registry.shutdown = "calling"
  /\ registry.next > 0
  /\ registry' = [registry EXCEPT !.called = Append(@, registry.functions_[registry.next]),
                                  !.next = @ - 1]

ShutdownReturns ==
  /\ registry.shutdown = "calling"
  /\ registry.next = 0
  /\ registry' = [registry EXCEPT !.shutdown = "done", !.functions_ = <<>>]

RegStep == ShutdownAll \/ CallNext \/ ShutdownReturns \/ \E fn \in ShutdownFn : RegisterFn(fn)

-----------------------------------------------------------------------------
(* Properties *)

\* When shutdown_all returns, every function that found a place has been called
\* once, the last registered first, and none is left for another shutdown.
ShutdownOrder ==
  LET asked  == registry.asked
      placed == IF Len(asked) < MAX_FUNCTIONS THEN Len(asked) ELSE MAX_FUNCTIONS
  IN registry.shutdown = "done" =>
       /\ registry.called = Reverse(SubSeq(asked, 1, placed))
       /\ registry.functions_ = <<>>
=============================================================================
