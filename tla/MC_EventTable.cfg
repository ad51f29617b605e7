\* One slot with an owner, four others, and handlers that schedule two events.
CONSTANTS
  ev2_misc = 1
  ev2_max = 5
  Kinds = {"audio", "disk"}
  CYCLE_UNIT = 4
  Delays = {4, 8}
  PerHandler = 2
  Removable = {}
  MaxClears = 0
  MaxEvents = 5
  Horizon = 12
SPECIFICATION Spec
INVARIANT PreviousFirst
CHECK_DEADLOCK FALSE
