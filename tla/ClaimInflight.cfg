\* One path, one inode, one process, on a kernel that preempts its own code.
SPECIFICATION Spec
CONSTANTS
  NumTargets = 1
  MaxInstalls = 1
  Inodes = {i1}
  Walkers = {w1}
  None = none
  MaxMoves = 0
  Faults = FALSE
  Preempt = TRUE
INVARIANT
  TablesOutliveWalks
CHECK_DEADLOCK FALSE
