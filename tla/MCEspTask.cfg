CONSTANTS
  Client = {owner, user}
  Starters = {owner, user}
  Resetters = {owner}
  Callers = {user}
  Kinds = {"plain", "yielding"}
  MayTimeOut = TRUE
  CarefulStart = TRUE
  MaxStarts = 3
  MaxCalls = 2
SPECIFICATION FairSpec
INVARIANTS
  TypeOK
  OneThread
  IdleReleasesPm
PROPERTIES
  ImplementsTaskLifecycle
  StopServed
  ResetReturns
CHECK_DEADLOCK FALSE
