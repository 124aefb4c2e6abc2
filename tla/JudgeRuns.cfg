SPECIFICATION MCFairSpec
CONSTANTS
  Process = {p1, p2}
  Run = {r1, r2}
  Trace = {f1, f2}
  NoTrace = NoTrace
  NoProcess = NoProcess
  TTL = 1
  MaxRequests = 2
  MaxFaults = 1
  Horizon = 2
INVARIANTS
  JudgeTypeOK
  VerdictIsOfTheTrace
  InflightIsAlive
PROPERTIES
  EvaluationSettles
CHECK_DEADLOCK FALSE
