SPECIFICATION Spec

CONSTANTS
  MAXCLIENT = 2
  MINSPARSESERVERS = 1
  MAXSPARSESERVERS = 1
  Pids = {p1, p2, p3}
  NoPid = NoPid
  NoClient = NoClient
  Clients = {c1, c2}
  LateTerm = TRUE
  MaxAcceptFail = 1

SYMMETRY Symmetric

INVARIANTS
  TypeOK
  CountsMatchTable
  SlotInBounds
  NoLostServer
  StaleBounded
  PoolFloor

CHECK_DEADLOCK FALSE
