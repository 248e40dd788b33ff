SPECIFICATION Spec
CONSTANTS
  Small <- MCSmall
  Chars <- MCChars
  DomainChars <- MCDomainChars
  MaxDomainLen = 5
  MaxDomains = 2
  Packets <- MCPackets
  Addrs = {"a", "b"}
  Procs = {p1, p2}
  Rivals = {"enable"}
  Typed <- MCTyped
  Single <- MCSingle
  BlockArgs <- MCBlockArgs
  IpArgs <- MCIpArgs
  NetArgs <- MCNetArgs
  Defaults <- MCDefaults
  Width = 2
  MuddledEdits = FALSE
  MaxUnloads = 1
INVARIANTS
  TypeOK
  VerdictRight
  ListsAlive
  FixedWhileOn
  BlocksWhatWasSaid
SYMMETRY Symmetry
