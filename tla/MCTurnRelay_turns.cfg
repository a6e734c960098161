SPECIFICATION FairSpec
CONSTANTS
  Backends = {"codex", "acp", "copilot"}
  MaxRunners = 3
  Budget <- Bounds
INVARIANTS
  
  OneServing

  
CHECK_DEADLOCK FALSE
