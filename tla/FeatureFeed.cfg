SPECIFICATION FairSpec
CONSTANTS
  Symbols = {btc, eth}
  Ttl <- MCTtl
  Permits = 2
  MaxCache = 4
  KillAge = 3
  DefenseAge = 1
  Interval = 1
  MaxLatency = 1
  PaperMode = FALSE
  MaxTime = 4
INVARIANTS
  CacheBounded
  PartsWithinTtl
  StaleGateIdle
  PriceAgeBounded
CHECK_DEADLOCK FALSE
PROPERTIES
  CycleEnds
