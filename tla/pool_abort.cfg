SPECIFICATION Spec

CONSTANTS
  MAXCLIENT = 2
  MINSPARSESERVERS = 1
  MAXSPARSESERVERS = 1
  Pids = {p1, p2, p3}
  NoPid = NoPid
  NoClient = NoClient
  Clients = {c1}
  LateTerm = FALSE
  MaxAcceptFail = 0

SYMMETRY Symmetric

INVARIANTS
  NeverAborts

CHECK_DEADLOCK FALSE
