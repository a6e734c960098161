SPECIFICATION FairSpec
CONSTANTS
  Workers = {"w"}
  Requests = {"r1", "r2"}
  Tools <- Risky
  HighRisk <- Risky
  SeedRules <- SafeReads
  Approvers = {"a1", "a2"}
  None = "none"
  MaxActs = 2
  MaxEdits = 0
  MaxCrashes = 1
PROPERTIES
  RegisterSpec
  Answered
CHECK_DEADLOCK FALSE
