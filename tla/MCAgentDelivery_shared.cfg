\* Two processes share the state directory: four reports, three faults.
SPECIFICATION FairSpec
CONSTANTS
  Runs = {r1, r2}
  Self = agent
  None = None
  MaxAttempts = 2
  MaxSequence = 4
  MaxFaults = 3
INVARIANTS NewestIsSafe CurrentNeverRefused
PROPERTY DeliversOnceCalm
CHECK_DEADLOCK FALSE
