SPECIFICATION Spec
CONSTANTS
  Models = {m1}
  Texts = {t1}
  Nothing = Nothing
  Faults <- Reboots
  MaxFaults = 1
  MaxChanges = 1
  MaxWrites = 1
  Tries = 2
INVARIANTS
  InForce
