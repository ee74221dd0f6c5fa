\* Two consoles, three launches, one update, one process that dies.
SPECIFICATION FairSpec
CONSTANTS
  Consoles = {c1, c2}
  MaxStarts = 3
  MaxUpdates = 1
  MaxFaults = 1
  None = None
INVARIANTS OneWorker StoppedMeansStopped StopIsKept
PROPERTY StopTakesEffect
CHECK_DEADLOCK FALSE
