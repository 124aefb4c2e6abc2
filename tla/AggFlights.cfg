SPECIFICATION MCBusySpec
CONSTANTS
  Session = {}
  Caller = {c1}
  Worker = Worker
  Cron = Cron
  Day <- MCDays
  StartTime = 2
  TicksPerDay = 2
  CronHour = 0
  HighDays = 1
  LowDays = 2
  HighCap = 1
  LowCap = 1
  RetryRounds = 0
  StaleAfter = 0
  Backfill = TRUE
  Reliable = FALSE
  MaxAsks = 0
  MaxFaults = 0
  MaxLogins = 1
  Horizon = 2
INVARIANTS
  FlightsAccounted
PROPERTIES
  FlightsEnd
CHECK_DEADLOCK FALSE
