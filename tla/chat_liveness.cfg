SPECIFICATION FairSpec

CONSTANTS
  Sessions = {s1, s2}
  NoSession = NoSession
  Fds = {4, 5}
  MAX_CLNT = 2
  MaxChunks = 2
  MaxOut = 1

PROPERTIES
  Relayed
  Reaped

CHECK_DEADLOCK FALSE
