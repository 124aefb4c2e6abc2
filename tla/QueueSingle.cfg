SPECIFICATION MCFairSpec
CONSTANTS
  Worker = {w1}
  Session = {s1, s2}
  NoWorker = NoWorker
  NoSession = NoSession
  Priority <- MCPriority
  LeaseTTL = 2
  BackoffUnit = 1
  MaxRetryCount = 1
  Horizon = 20
  MaxEnqueues = 3
  MaxFaults = 1
INVARIANTS
  JobIsCurrent
PROPERTIES
  ImplementsRequests
  SettlesRequests
CHECK_DEADLOCK FALSE
