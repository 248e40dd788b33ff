\* Everything may go wrong: file operations, sysfs, the power, the unload.
SPECIFICATION Spec
CONSTANTS
  MaxSecs = 2
  SaveInterval = 2
  MaxKeys = 3
  MaxLosses = 1
  Faults = TRUE
  Unloads = TRUE
  Lists = {none, sites}
  NoLists = none
INVARIANTS
  TypeOK
  DebugInvariants
  SealedKey
  ShownKeyWorks
  Durable
  TimerLive
PROPERTY
  LockHolds
CHECK_DEADLOCK FALSE
