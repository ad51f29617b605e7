\* A reset between the items of a message.
CONSTANTS
  s1 = s1
  s2 = s2
  p1 = p1
  p2 = p2
  p3 = p3
  Senders = {s1}
  Lengths = {2}
  MaxMsgs = 2
  PipeCap = 3
  MaxUnits = 0
  Packets = {}
  UnitOf <- MC_UnitOf
  MaxStarted = 1
  Recheck = FALSE
  MaxResets = 1
  Installs = 1
SPECIFICATION Spec
INVARIANT MessagesAreWhole
CHECK_DEADLOCK FALSE
