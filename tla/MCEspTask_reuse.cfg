CONSTANTS
  Client = {owner, user}
  Starters = {owner}
  Resetters = {owner}
  Callers = {user}
  Kinds = {"yielding"}
  MayTimeOut = FALSE
  CarefulStart = FALSE
  MaxStarts = 3
  MaxCalls = 0
SPECIFICATION Spec
INVARIANTS
  OneThread
CHECK_DEADLOCK FALSE
