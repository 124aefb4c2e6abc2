SPECIFICATION MCSpec
CONSTANTS
  Session = {s1, s2}
  Caller = {c1}
  Worker = Worker
  Cron = Cron
  Day <- MCOneDay
  StartTime = 1
  TicksPerDay = 2
  CronHour = 0
  HighDays = 1
  LowDays = 2
  HighCap = 1
  LowCap = 1
  RetryRounds = 1
  StaleAfter = 0
  Backfill = FALSE
  Reliable = FALSE
  MaxAsks = 1
  MaxFaults = 1
  MaxLogins = 2
  Horizon = 2
INVARIANTS
  ATypeOK
  CompletedIsAggregated
SYMMETRY MCSymmetry
CHECK_DEADLOCK FALSE
