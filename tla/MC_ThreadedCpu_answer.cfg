\* One start, two accesses: does every read get its own answer?
SPECIFICATION Spec
CHECK_DEADLOCK FALSE
CONSTANTS
  MaxStarts = 1
  MaxAccesses = 2
  MaxIrqs = 0
  MaxSem = 3
INVARIANT OwnAnswer
