SPECIFICATION HealthFairSpec
CONSTANTS
  Servers = {"a", "b"}
  Fails = 2
  Passes = 2
  ApplyFails = FALSE
  MaxMoves = 2
  MaxRequests = 0
  MaxRestarts = 1
  MaxEvents = 1
PROPERTIES
  ComesBack
CHECK_DEADLOCK FALSE
