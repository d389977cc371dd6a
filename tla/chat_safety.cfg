SPECIFICATION Spec

CONSTANTS
  Sessions = {s1, s2, s3}
  NoSession = NoSession
  Fds = {4, 5}
  MAX_CLNT = 2
  MaxChunks = 2
  MaxOut = 1

SYMMETRY Symmetric

INVARIANTS
  CountIsSessions
  RegistryExact
  SameOrder
  NoGap

PROPERTIES
  ImplementsRoom

CHECK_DEADLOCK FALSE
