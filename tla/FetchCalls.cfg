SPECIFICATION MCFairSpec
CONSTANTS
  Url = {u1, u2, u3}
  Caller = {c1, c2}
  NoCaller = NoCaller
  NoUrl = NoUrl
  Size <- MCSize
  MaxEntries = 2
  MaxBytes = 3
  TTL = 1
  MaxDownloads = 1
  Horizon = 1
INVARIANTS
  CacheConsistent
  WithinCaps
  NoLostWakeup
  SlotsAccounted
PROPERTIES
  EveryCallReturns
CHECK_DEADLOCK FALSE
