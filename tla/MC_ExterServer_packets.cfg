\* Two units, three packets, a handler that starts two at a time, and a reset.
CONSTANTS
  s1 = s1
  s2 = s2
  p1 = p1
  p2 = p2
  p3 = p3
  Senders = {}
  Lengths = {2}
  MaxMsgs = 0
  PipeCap = 3
  MaxUnits = 2
  Packets = {p1, p2, p3}
  UnitOf <- MC_UnitOf
  MaxStarted = 2
  Recheck = TRUE
  MaxResets = 1
  Installs = 1
SPECIFICATION FairSpec
INVARIANT DummyQueuedOnce
INVARIANT RepliedOnce
PROPERTY SentIsReplied
CHECK_DEADLOCK FALSE
