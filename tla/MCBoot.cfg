CONSTANTS
  Slot = {A, B}
  Factory = A
  Gate = {ntp, display}
  Noise = {0, 4}
  Callback <- Outcomes
  PmConfig <- PmConfigs
  Keys <- AppKeys
  MaxVersion = 2
  ShutdownFn = {f1, f2, f3, f4}
  MAX_FUNCTIONS = 3
  Application <- Applications
  MaxPanics = 6
  MaxUpdates = 1
  MaxPowerCycles = 1
SPECIFICATION FairSpec
INVARIANTS
  TypeOK
  EraseJustified
  NoRunAfterFive
  MigrationSound
  ShutdownOrder
  
PROPERTIES
  ValidatedMeansPassed
  
CHECK_DEADLOCK FALSE
