SPECIFICATION FairSpec
CONSTANTS
  Models = {m1}
  Texts = {t1}
  Nothing = Nothing
  Faults <- FaultKinds
  MaxFaults = 1
  MaxChanges = 2
  MaxWrites = 2
  Tries = 2
INVARIANTS
  NeverStranded
  OnlyAcceptedBoots
  ModeIsInForce
  BootIsConfirmed
PROPERTIES
  
  EndsAcceptedOrReverted
  OthersTouchedOnlyByRaw
