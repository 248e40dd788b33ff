\* One command at a time beside the pages and `key'; any may die half-way.
SPECIFICATION Spec
CONSTANTS
  Procs = {p1, p2}
  Holders = {alice, bob}
  Suffixes = {"asc"}
  Commands <- AllCommands
  Rivals <- Harmless
  Kills = TRUE
  GpgFails = TRUE
  MaxKeys = 3
INVARIANTS
  TypeOK
  KeyHolders
  SealedOnly
  NoGhost
  ReportsTrue
  InsecureSkipsPGP
SYMMETRY Symmetry
