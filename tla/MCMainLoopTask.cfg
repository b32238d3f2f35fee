CONSTANTS
  Client = {owner, user, loop}
  Loop = loop
  Starters = {owner}
  Resetters = {owner}
  Callers = {user, loop}
  QueueSize = 6
  Foreign = FALSE
  MayTimeOut = FALSE
  CarefulStart = TRUE
  UsePmLock = TRUE
  MaxStarts = 2
  MaxCalls = 2
  MaxVersion = 7
  CounterModulus = 16
SPECIFICATION FairSpec
INVARIANTS
  TypeOK
  NoCallbackAfterReset
  NotifyNotLost
  SequenceAlive
  InflightExact
  StopOnce
  PmOnlyInStep
PROPERTIES
  StopHonoured
  ResetReturns
CHECK_DEADLOCK FALSE
