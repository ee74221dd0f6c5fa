\* Two agents, the watchdog and the outbox task: signals are not lost, and admission resumes.
SPECIFICATION FairSpec
CONSTANTS
  Agents = {a1, a2}
  MaxPendingPerAgent = 2
  MaxPendingGlobal = 3
  MaxDeadLetters = 1
  MaxAttempts = 2
  MaxFaults = 2
INVARIANT NoLostWakeup
PROPERTY RoomWhileTicking
CHECK_DEADLOCK FALSE
