SPECIFICATION Spec
CONSTANTS
  Symbols = {btc, eth}
  StopIds = {stop1, stop2}
  AccountFirst = FALSE
  PlacementMayFail = TRUE
  MaxEvents = 2
  MaxBeats = 2
  MaxGuardianStops = 1
CHECK_DEADLOCK FALSE
INVARIANTS
  HeartbeatAfterStop
  FailuresHalt
