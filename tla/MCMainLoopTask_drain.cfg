CONSTANTS
  Client = {owner, user, loop}
  Loop = loop
  Starters = {owner}
  Resetters = {owner}
  Callers = {user}
  QueueSize = 4
  Foreign = FALSE
  MayTimeOut = FALSE
  CarefulStart = TRUE
  UsePmLock = TRUE
  MaxStarts = 1
  MaxCalls = 0
  MaxVersion = 7
  CounterModulus = 16
SPECIFICATION Spec
INVARIANTS
  DrainedAfterReset
CHECK_DEADLOCK FALSE
