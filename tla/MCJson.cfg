CONSTANTS
  Symbols <- AllSymbols
  Values <- AllValues
  Jobs <- AllJobs
SPECIFICATION FairSpec
INVARIANTS
  TypeOK
  WritesReference
  OverflowJustified
  
PROPERTIES
  ParseEnds
CHECK_DEADLOCK FALSE
