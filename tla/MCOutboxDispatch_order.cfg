\* Two dispatchers, one agent; two reports of one or two chunks, a lease of one tick
\* and a fault; or seven reports in bursts of two, windows of two ticks.
SPECIFICATION FairDispatchSpec
CONSTANTS
  Agents = {1}
  Boots = {b1}
  Sequences = {1, 2, 3, 4, 5, 6, 7}
  Digests = {d1}
  ReportChunks = {1, 2}
  Owners = {o1, o2}
  None = None
  Interval <- MCInterval
  OfflineThreshold = 1
  ReportBurst = 2
  ReportWindow = 2
  EventRetention = 9
  MaxEventsPerAgent = 9
  CompletedRetention = 9
  MaxCompleted = 1
  MaxDeadLetters = 2
  MaxPendingPerAgent = 9
  MaxPendingGlobal = 9
  MaxChunksPerAgent = 9
  MaxChunksGlobal = 9
  LeaseTime = 1
  MaxAttempts = 2
  RetryDelay = 0
  ReportDelay = 1
  MaxTime = 2
  MaxNotes = 7
  MaxReactivations = 1
  MaxTries = 2
  MaxFaults = 1
CONSTRAINT Parts
INVARIANTS ChatInOrder RepeatsNeedFaults RateBound
PROPERTIES DeliversInOrder OutboxDrains
CHECK_DEADLOCK FALSE
