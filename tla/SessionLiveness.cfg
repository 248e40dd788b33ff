\* File operations succeed; power may be lost twice and the module unloaded.
SPECIFICATION FairSpec
CONSTANTS
  MaxSecs = 2
  SaveInterval = 2
  MaxKeys = 3
  MaxLosses = 2
  Faults = FALSE
  Unloads = TRUE
  Lists = {none, sites}
  NoLists = none
INVARIANT
  CleanEnd
PROPERTIES
  KeepsPromise
  BlockEnds
CHECK_DEADLOCK FALSE
