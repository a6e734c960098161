SPECIFICATION FairSpec
CONSTANTS
  MaxMsgs = 2
  Limit = 1
  Shown = 1
  MaxBreaks = 2
  MaxCrashes = 1
PROPERTIES
  MailboxSpec
  Fetched
CHECK_DEADLOCK FALSE
