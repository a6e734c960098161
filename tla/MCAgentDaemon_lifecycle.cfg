SPECIFICATION FairSpec
CONSTANTS
  MaxCrash = 3
  HasStopEvent = TRUE
  MaxRunners = 4
  MaxQueue = 3
INVARIANTS
  TypeOK
  OneRunner
  Watched
PROPERTIES
  NoSpiral
  Recovers
  Served
  StopEnds
CHECK_DEADLOCK FALSE
