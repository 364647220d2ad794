SPECIFICATION FairSpec
CONSTANTS
  c1 = c1
  c2 = c2
  Conns = {c1, c2}
  MaxConns = 1
  FdLimit = 2
INVARIANTS
  TypeOK
  SlotsExact
  ForceCloseReachesAll
  ExitDrained
PROPERTIES
  ForcedTakesNoRequest
  ShutdownCompletes
  VanishedPeerFreesSlot
CHECK_DEADLOCK FALSE
