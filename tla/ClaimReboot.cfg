SPECIFICATION Spec
CONSTANTS
  MaxSecs = 2
  SaveInterval = 2
  MaxKeys = 2
  MaxLosses = 2
  Faults = FALSE
  Unloads = FALSE
  Lists = {none, sites}
  NoLists = none
PROPERTY
  RestoredLockSurvives
CHECK_DEADLOCK FALSE
