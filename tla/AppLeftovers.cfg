\* Upgrades and crashes only.
SPECIFICATION Spec
CONSTANTS
  Ops = {o1, o2}
  Nobody = Nobody
  None = None
  MaxVersion = 2
  MaxCalls = 3
  MaxFaults = 2
  MaxEvents = 4
  Kinds <- OnlyUpgrade
  FaultKinds <- OnlyCrash
  Asks <- AskedFromTwo
SYMMETRY Threads
INVARIANTS LeftoversDoNotFail
CHECK_DEADLOCK FALSE
