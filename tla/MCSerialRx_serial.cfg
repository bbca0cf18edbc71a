SPECIFICATION FairSpec
CONSTANTS
  RingSize = 3
  Half = 2
  MaxBytes = 5
INVARIANT NeverReadsAhead
PROPERTY LineSpec
PROPERTY EveryByteRead
CHECK_DEADLOCK FALSE
