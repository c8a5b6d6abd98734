SPECIFICATION ProcessSpec
CONSTANTS
  Ops = {1, 2}
  MaxPid = 2
  MaxProcessCalls = 3
  MaxExits = 1
  MaxDowns = 1
  MaxProcessFails = 1
PROPERTIES
  DeathEndsTheStop
CHECK_DEADLOCK FALSE
