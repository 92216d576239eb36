SPECIFICATION Spec
CONSTANTS
  Symbols = {btc, eth}
  Ttl <- MCTtl
  Permits = 2
  MaxCache = 8
  KillAge = 3
  DefenseAge = 1
  Interval = 1
  MaxLatency = 1
  PaperMode = FALSE
  MaxTime = 5
INVARIANTS
  EntryOnFreshPrice
CHECK_DEADLOCK FALSE
