\* Two senders, messages of 2 and 3 items, a pipe of 3.
CONSTANTS
  s1 = s1
  s2 = s2
  p1 = p1
  p2 = p2
  p3 = p3
  Senders = {s1, s2}
  Lengths = {2, 3}
  MaxMsgs = 2
  PipeCap = 3
  MaxUnits = 0
  Packets = {}
  UnitOf <- MC_UnitOf
  MaxStarted = 1
  Recheck = TRUE
  MaxResets = 0
  Installs = 1
SPECIFICATION FairSpec
INVARIANT TypeOK
PROPERTY ImplementsMessageQueue
PROPERTY SentIsDelivered
CHECK_DEADLOCK FALSE
