\* Two sites, certificates, failures at every step.
SPECIFICATION Spec
CONSTANTS
  Sites = {1, 2}
  Configs <- FourConfigs
  None = None
  MaxEvents = 3
  MaxFaults = 1
INVARIANTS StatusIsTrue ClashRejectsOne  RecordMatchesDisk
PROPERTIES  SitesArrive
CHECK_DEADLOCK FALSE
