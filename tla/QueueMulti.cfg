SPECIFICATION MCSpec
CONSTANTS
  Worker = {w1, w2}
  Session = {s1, s2}
  NoWorker = NoWorker
  NoSession = NoSession
  Priority <- MCPriority
  LeaseTTL = 2
  BackoffUnit = 1
  MaxRetryCount = 1
  Horizon = 4
  MaxEnqueues = 3
  MaxFaults = 1
INVARIANTS
  TypeOK
  LeasedIffRunning
  NoStrandedRow
PROPERTIES
  LeaseHonoured
SYMMETRY MCSymmetry
CHECK_DEADLOCK FALSE
