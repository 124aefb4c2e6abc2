SPECIFICATION MCFairSpec
CONSTANTS
  Worker = {w1}
  Session = {s1}
  Visitor = {v1}
  NoWorker = NoWorker
  NoSession = NoSession
  Priority <- MCPriority
  LeaseTTL = 1
  BackoffUnit = 0
  MaxRetryCount = 1
  Reliable = TRUE
  DetailReads = FALSE
  MaxTurns = 2
  MaxFaults = 1
  MaxAttempts = 2
  Horizon = 3
INVARIANTS
  IndexKeepsUp
PROPERTIES
  NeverOlder
  EventuallyFresh
  MarksAreWorkedOff
CHECK_DEADLOCK FALSE
