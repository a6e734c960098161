SPECIFICATION Spec
CONSTANTS
  Workers = {"w"}
  Requests = {"r1"}
  Tools <- ToolNames
  HighRisk <- Risky
  SeedRules <- SafeReads
  Approvers = {"a1", "a2"}
  None = "none"
  MaxActs = 2
  MaxEdits = 2
  MaxCrashes = 1
INVARIANTS
  TypeOK
  
  RulesGiven
  PlaceholderHeld
CHECK_DEADLOCK FALSE
