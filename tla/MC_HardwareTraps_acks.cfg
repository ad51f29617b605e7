\* Two tasks, two slots, three traps with a command each, a reset.
CONSTANTS
  t1 = t1
  t2 = t2
  Tasks = {t1, t2}
  NumSlots = 2
  MaxTraps = 3
  MaxCalls = 1
  MaxResets = 1
SPECIFICATION Spec
CHECK_DEADLOCK FALSE
INVARIANT WorkerAcksItsTraps
