SPECIFICATION Spec
CONSTANTS
  Symbols = {btc}
  StopIds = {stop1, stop2}
  AccountFirst = TRUE
  PlacementMayFail = FALSE
  MaxEvents = 4
  MaxBeats = 0
  MaxGuardianStops = 0
CHECK_DEADLOCK FALSE
INVARIANT HeartbeatCoversPosition
