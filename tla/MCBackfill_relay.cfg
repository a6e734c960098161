SPECIFICATION FairSpec
CONSTANTS
  a = a
  b = b
  Servers = {a, b}
  NoOrigin = NoOrigin
  Channel = Channel
  LogMax = 3
  Senders = {a}
  MaxEvents = 2
  MaxConns = 2
  MaxRestarts = 1
INVARIANTS
  TypeOK
  FromOrigin
  OneConnection
  NoGap
PROPERTIES
  BackfillAnswered
CHECK_DEADLOCK FALSE
