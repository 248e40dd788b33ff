\* One path that moves between two inodes, and one slot, so that it runs out; a
\* process that uses the files, on a kernel that preempts its own code.
SPECIFICATION FairSpec
CONSTANTS
  NumTargets = 1
  MaxInstalls = 1
  Inodes = {i1, i2}
  Walkers = {w1}
  None = none
  MaxMoves = 2
  Faults = FALSE
  Preempt = TRUE
INVARIANTS
  TypeOK
  HookedSafely
  TablesAlive
  OffMeansOff
  FlagsRestored
PROPERTIES
  DisableReturns
  Reprotects
CHECK_DEADLOCK FALSE
