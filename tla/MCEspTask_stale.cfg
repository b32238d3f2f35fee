CONSTANTS
  Client = {owner, user}
  Starters = {owner}
  Resetters = {owner}
  Callers = {user}
  Kinds = {"plain"}
  MayTimeOut = FALSE
  CarefulStart = TRUE
  MaxStarts = 1
  MaxCalls = 0
SPECIFICATION Spec
INVARIANTS
  HandleIsAlive
CHECK_DEADLOCK FALSE
