\* The program may stop for good: masked in STOP, or the run is over.
SPECIFICATION FairSpec
CHECK_DEADLOCK FALSE
CONSTANTS
  MaxStarts = 2
  MaxAccesses = 2
  MaxIrqs = 1
  MaxSem = 2
INVARIANT TypeOK
INVARIANT CleanAccess
PROPERTY WaitsEnd
PROPERTY InterruptIsTaken
