CONSTANTS
  Client = {owner, user, loop}
  Loop = loop
  Starters = {owner}
  Resetters = {owner, loop}
  Callers = {user, loop}
  QueueSize = 1
  Foreign = TRUE
  MayTimeOut = TRUE
  CarefulStart = TRUE
  UsePmLock = TRUE
  MaxStarts = 2
  MaxCalls = 2
  MaxVersion = 7
  CounterModulus = 16
SPECIFICATION Spec
INVARIANTS
  InflightCoversSteps
PROPERTIES
  ImplementsTaskLifecycle
CHECK_DEADLOCK FALSE
