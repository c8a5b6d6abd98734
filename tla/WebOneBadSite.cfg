\* A renewal cut off between its two files, then any other change.
SPECIFICATION Spec
CONSTANTS
  Sites = {1, 2}
  Configs <- FourConfigs
  None = None
  MaxEvents = 3
  MaxFaults = 1
PROPERTIES OneBadSite
CHECK_DEADLOCK FALSE
