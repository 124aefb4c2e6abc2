SPECIFICATION MCSpec
CONSTANTS
  Worker = {w1}
  Session = {s1}
  Visitor = {v1}
  NoWorker = NoWorker
  NoSession = NoSession
  Priority <- MCPriority
  LeaseTTL = 1
  BackoffUnit = 0
  MaxRetryCount = 1
  Reliable = FALSE
  DetailReads = TRUE
  MaxTurns = 1
  MaxFaults = 1
  MaxAttempts = 2
  Horizon = 2
INVARIANTS
  FTypeOK
CHECK_DEADLOCK FALSE
