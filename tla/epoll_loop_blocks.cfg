SPECIFICATION Spec

CONSTANTS
  Conns = {c1, c2}
  NoConn = NoConn
  serverSocket = 3
  MaxFd = 5
  BUF_SIZE = 1
  MaxSent = 3
  Programs = {"epoll_epet_server"}

SYMMETRY Symmetric

INVARIANTS
  NeverBlocks

CHECK_DEADLOCK FALSE
