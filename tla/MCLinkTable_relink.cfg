SPECIFICATION FairSpec
CONSTANTS
  Servers <- StarServers
  Config <- Star
  Reachable <- StarReachable
  Prompt = TRUE
  Conns = {1, 2, 3, 4}
  Tasks = {1, 2, 3, 4, 5}
  MaxFaults = 1
PROPERTIES
  EventuallyLinked
  
CHECK_DEADLOCK FALSE
