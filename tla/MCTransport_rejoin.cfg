SPECIFICATION FairTransportSpec
CONSTANTS
  Chans = {c1}
  Limits = {1, 2}
  MaxBuf = 2
  MaxSaid = 1
  MaxAsked = 2
  MaxTurns = 2
  MaxFaults = 2
INVARIANTS
  
  Heard
PROPERTIES
  ReadOnce
  
CHECK_DEADLOCK FALSE
