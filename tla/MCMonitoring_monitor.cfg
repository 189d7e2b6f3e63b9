\* Connections lost at any time, handlers of any length, every timer.
SPECIFICATION FairSpec
CONSTANTS
  IdleTimeout = 5
  StuckTimeout = 4
  StormThreshold = 3
  StormWindow = 5
  StormCooldown = 4
  ValidationInterval = 3
  MaxBackoff = 2
  MaxAlerts = 2
INVARIANTS TimersFollowMachine IdleDetected StormHeard
PROPERTIES NeverSilentForEver
