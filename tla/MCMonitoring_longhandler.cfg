\* A handler that takes longer than the idle timeout, in the order of the defaults.
SPECIFICATION Spec
CONSTANTS
  IdleTimeout = 2
  StuckTimeout = 5
  StormThreshold = 2
  StormWindow = 3
  StormCooldown = 2
  ValidationInterval = 2
  MaxBackoff = 2
  MaxAlerts = 1
PROPERTY HandlersFinish
