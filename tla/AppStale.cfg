\* Upgrades and rebuilds only, nothing fails.
SPECIFICATION Spec
CONSTANTS
  Ops = {o1, o2}
  Nobody = Nobody
  None = None
  MaxVersion = 2
  MaxCalls = 3
  MaxFaults = 2
  MaxEvents = 4
  Kinds <- OnlyLocked
  FaultKinds <- NoFault
  Asks <- AskedFromTwo
SYMMETRY Threads
INVARIANTS NeverInterleave
CHECK_DEADLOCK FALSE
