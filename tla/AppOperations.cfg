\* Every call and every failure, two at a time.
SPECIFICATION Spec
CONSTANTS
  Ops = {o1, o2}
  Nobody = Nobody
  None = None
  MaxVersion = 2
  MaxCalls = 3
  MaxFaults = 2
  MaxEvents = 4
  Kinds <- AllKinds
  FaultKinds <- AllFaults
  Asks <- AskedFromTwo
SYMMETRY Threads
INVARIANTS LockIsExact 
PROPERTIES KeepsACopy StateKept ReconcileRestores
CHECK_DEADLOCK FALSE
