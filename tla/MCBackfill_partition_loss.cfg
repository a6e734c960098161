SPECIFICATION Spec
CONSTANTS
  a = a
  b = b
  Servers = {a, b}
  NoOrigin = NoOrigin
  Channel = Channel
  LogMax = 5
  Senders = {a}
  MaxEvents = 1
  MaxConns = 2
  MaxRestarts = 0
INVARIANTS
  NoLossAcrossPartition
CHECK_DEADLOCK FALSE
