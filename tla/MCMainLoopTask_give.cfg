CONSTANTS
  Client = {owner, user, loop}
  Loop = loop
  Starters = {owner}
  Resetters = {owner}
  Callers = {user}
  QueueSize = 4
  Foreign = FALSE
  MayTimeOut = FALSE
  CarefulStart = TRUE
  UsePmLock = TRUE
  MaxStarts = 1
  MaxCalls = 1
  MaxVersion = 7
  CounterModulus = 16
SPECIFICATION Spec
INVARIANTS
  StepGoneAfterReset
CHECK_DEADLOCK FALSE
