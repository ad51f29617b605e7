\* Four slots hold three items; a sleeping reader is woken for two of them.
CONSTANTS
  Size = 4
  Chunks = 2
  MaxItems = 7
SPECIFICATION FairSpec
INVARIANT TypeOK
INVARIANT ReadsInOrder
INVARIANT WakesWithWork
INVARIANT PolledReadNeverSleeps
PROPERTY FlushedIsRead
PROPERTY WriteReturns
PROPERTY ImplementsFifo
CHECK_DEADLOCK FALSE
