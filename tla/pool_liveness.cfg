SPECIFICATION EitherSpec

CONSTANTS
  MAXCLIENT = 2
  MINSPARSESERVERS = 2
  MAXSPARSESERVERS = 2
  FewerServers = 1
  Pids = {p1, p2}
  NoPid = NoPid
  NoClient = NoClient
  Clients = {c1}
  LateTerm = FALSE
  MaxAcceptFail = 2

INVARIANTS
  NoLostWakeup

PROPERTIES
  EitherRefill
  EitherAccepted

CHECK_DEADLOCK FALSE
