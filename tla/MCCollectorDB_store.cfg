\* Two agents, the second quiet; two boots; caps, retention and limits of one or two.
SPECIFICATION Spec
CONSTANTS
  Agents = {1, 2}
  Boots = {b1, b2}
  Sequences = {1, 2, 3}
  Digests = {d1}
  ReportChunks = {1}
  Owners = {o1}
  None = None
  Interval <- MCInterval
  OfflineThreshold = 1
  ReportBurst = 1
  ReportWindow = 1
  EventRetention = 0
  MaxEventsPerAgent = 1
  CompletedRetention = 0
  MaxCompleted = 1
  MaxDeadLetters = 2
  MaxPendingPerAgent = 1
  MaxPendingGlobal = 2
  MaxChunksPerAgent = 3
  MaxChunksGlobal = 3
  LeaseTime = 1
  MaxAttempts = 1
  RetryDelay = 0
  ReportDelay = 0
  MaxTime = 4
  MaxNotes = 3
  MaxReactivations = 1
INVARIANTS UnresolvedKeepsEvent DedupeKeysUnique BacklogBound
SYMMETRY Symmetry
PROPERTIES AdmitsInOrder AlertsAlternate
CONSTRAINT OthersAreQuiet
ACTION_CONSTRAINT WatchdogLast
CHECK_DEADLOCK FALSE
