\* One command, two releases that run, no fault.
SPECIFICATION Spec
CONSTANTS
  Published <- TwoReleases
  Broken <- NoneBroken
  Baseline = Baseline
  None = None
  Menus = {}
  MaxLooks = 2
  MaxCommands = 1
  MaxFaults = 0
INVARIANT StopDoesNotCondemn
CHECK_DEADLOCK FALSE
