SPECIFICATION FairSpec
CONSTANTS
  Symbols = {btc}
  StopIds = {stop1, stop2}
  AccountFirst = TRUE
  PlacementMayFail = FALSE
  MaxEvents = 4
  MaxBeats = 1
  MaxGuardianStops = 0
CHECK_DEADLOCK FALSE
INVARIANTS
  QuietMeansCovered
  HeartbeatEnds
PROPERTY NakedEventuallyHalts
