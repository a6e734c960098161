SPECIFICATION Spec
CONSTANTS
  Clients <- Nicks
  Bases <- ChanNames
  System = "sys"
  Breakout = "t"
  MaxGen = 2
  MaxObjs = 4
  Agendas <- Plans
  MaxCrashes = 1
  MaxMessages = 2
  MaxPosts = 4
INVARIANTS
  Led
  MembersKnow
  Saved
PROPERTIES
  Closes
CHECK_DEADLOCK FALSE
