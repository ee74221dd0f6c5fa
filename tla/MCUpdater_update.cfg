\* Three releases, the first broken, the second of its version; a menu; three commands, two faults.
SPECIFICATION FairSpec
CONSTANTS
  Published <- ThreeReleases
  Broken <- FirstBroken
  Baseline = Baseline
  None = None
  Menus = {m1}
  MaxLooks = 2
  MaxCommands = 3
  MaxFaults = 2
INVARIANTS StopIsFinal UnhealthyNotRetried RunsWhatIsInstalled InUseStaysOnDisk
PROPERTIES CyclesAreNotCutShort RecoveryEnds
CHECK_DEADLOCK FALSE
