CONSTANTS
  size_ = 3
  MaxListeners = 1
  NoTask = NoTask
  Writer = {w1, w2}
  Stream = {s1, s2}
  HookBuf = 4
  ChunkSize = 2
  MaxMsg = 4
  MaxLogged = 5
SPECIFICATION FairSpec
INVARIANTS
  TypeOK
  NoLostWakeup
  PlacesReturn
PROPERTIES
  ImplementsHistoryLog
  CatchesUp
