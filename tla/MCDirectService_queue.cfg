\* A queue of two messages and three chunks overflows; two to four cycles, two faults.
SPECIFICATION FairSpec
CONSTANTS
  None = None
  MaxMessages = 2
  MaxChunks = 3
  DrainLimit = 2
  LateParts = 2
  Waits = 1
  Overruns = FALSE
  MaxCycles = 2
  MaxFaults = 2
INVARIANTS NothingVanishes ChatInOrder StatusIsTrue
PROPERTY BacklogDrains
CHECK_DEADLOCK FALSE
