SPECIFICATION Spec
CONSTANTS
  Servers <- TwoServers
  Nicks <- Users
  Rank <- UserRank
  Home <- UserHome
  Trust <- Full
  Chans = {"c"}
  MaxSteps = 5
  MaxConns = 2
INVARIANTS
  TypeOK
  
  RemoteLinked
  
  
CHECK_DEADLOCK FALSE
