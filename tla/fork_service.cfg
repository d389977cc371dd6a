SPECIFICATION FairSpec

CONSTANTS
  Conns = {c1, c2}
  Nobody = Nobody
  Programs = {"echo_mpserver", "echo_store_server"}
  BUF_SIZE = 1
  MaxSent = 3
  PIPE_SIZE = 2
  Rounds = 2
  MaxForkFail = 1

INVARIANTS
  TypeOK
  ZombiesBalance
  StoredOnce

PROPERTIES
  ImplementsService
  Answered

CHECK_DEADLOCK FALSE
