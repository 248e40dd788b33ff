SPECIFICATION Spec
CONSTANTS
  MaxSecs = 2
  SaveInterval = 2
  MaxKeys = 3
  MaxLosses = 2
  Faults = FALSE
  Unloads = FALSE
  Lists = {none, sites}
  NoLists = none
INVARIANT
  InsecureGoneAfterBoot
CHECK_DEADLOCK FALSE
