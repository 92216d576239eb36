SPECIFICATION SessionSpec
CONSTANTS
  Interval = 10
  Lifetime = 15
  MaxLatency = 2
  MaxTime = 40
CHECK_DEADLOCK FALSE
INVARIANTS
  OnlyFailureLosesKey
PROPERTY FailureSurfaces
