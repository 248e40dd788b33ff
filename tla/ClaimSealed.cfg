\* Two commands at a time; nothing fails and nothing is killed.
SPECIFICATION Spec
CONSTANTS
  Procs = {p1, p2}
  Holders = {alice}
  Suffixes = {"asc"}
  Commands <- Keeping
  Rivals <- Keeping
  Kills = FALSE
  GpgFails = FALSE
  MaxKeys = 3
INVARIANT
  KeyHolders
CHECK_DEADLOCK FALSE
