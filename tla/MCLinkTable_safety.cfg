SPECIFICATION Spec
CONSTANTS
  Servers <- TwoServers
  Config <- BothWays
  Reachable <- AllReachable
  Prompt = FALSE
  Conns = {1, 2}
  Tasks = {1, 2, 3}
  MaxFaults = 1
INVARIANTS
  RegisteredIsUp
  NeverGivenUp
CHECK_DEADLOCK FALSE
