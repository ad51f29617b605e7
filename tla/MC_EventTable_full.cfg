\* Three slots for up to five events, two from a handler: the table fills up,
\* slots are used again, events are removed, moved and cleared.
CONSTANTS
  ev2_misc = 1
  ev2_max = 3
  Kinds = {"audio", "disk"}
  CYCLE_UNIT = 4
  Delays = {4, 8}
  PerHandler = 2
  Removable = {"disk", "owner"}
  MaxClears = 1
  MaxEvents = 5
  Horizon = 8
SPECIFICATION Spec
INVARIANT TypeOK
INVARIANT NoneMissed
INVARIANT OnTime
INVARIANT FirstByOwnLink
CHECK_DEADLOCK FALSE
