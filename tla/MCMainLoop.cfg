CONSTANTS
  Cmd = {c1, c2, c3}
  Poster = {loop, t1, t2}
  MainThread = loop
  None = None
  QueueSize = 1
  MaxDelayedTasks = 2
SPECIFICATION FairSpec
INVARIANTS
  TypeOK
  SlotOwnership
PROPERTIES
  ImplementsDelayedFifo
  Delivery
  SlotsReturn
CHECK_DEADLOCK FALSE
