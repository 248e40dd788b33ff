\* Two commands at a time beside a server in a terminal, two ports.
SPECIFICATION Spec
CONSTANTS
  Procs = {p1, p2}
  Servers = {terminal}
  Customs = {"10.0.0.5"}
  Ports = {1, 2}
  DefPort = 1
  Given <- MCGiven
  MaxEvents = 4
INVARIANTS
  TypeOK
  Settled
  ServedWhereSaid
  PortKept
SYMMETRY Symmetry
CHECK_DEADLOCK FALSE
