SPECIFICATION MCSpec
CONSTANTS
  Session = {s1, s2}
  Caller = {c1}
  Worker = Worker
  Cron = Cron
  Day <- MCDays
  StartTime = 2
  TicksPerDay = 2
  CronHour = 1
  HighDays = 1
  LowDays = 2
  HighCap = 1
  LowCap = 1
  RetryRounds = 1
  StaleAfter = 0
  Backfill = TRUE
  Reliable = TRUE
  MaxAsks = 2
  MaxFaults = 0
  MaxLogins = 1
  Horizon = 3
INVARIANTS
  CompletedIsAggregated
SYMMETRY MCSymmetry
CHECK_DEADLOCK FALSE
