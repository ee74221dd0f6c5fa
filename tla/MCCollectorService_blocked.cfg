\* Telegram recovers, but the failing watchdog no longer wakes the outbox task.
SPECIFICATION FairSpec
CONSTANTS
  Agents = {a1}
  MaxPendingPerAgent = 2
  MaxPendingGlobal = 2
  MaxDeadLetters = 1
  MaxAttempts = 2
  MaxFaults = 1
PROPERTY AdmissionResumes
CHECK_DEADLOCK FALSE
