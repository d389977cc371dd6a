SPECIFICATION FairSpec

CONSTANTS
  Conns = {c1, c2}
  NoConn = NoConn
  serverSocket = 3
  MaxFd = 5
  BUF_SIZE = 1
  MaxSent = 3
  Programs = {"echo_select_server", "epoll_server", "epoll_epet_test_server", "epoll_epet_server"}

INVARIANTS
  WatchesOpen
  WaitsForEventsOnly

PROPERTIES
  ImplementsService
  LevelCompletes
  Answered

CHECK_DEADLOCK FALSE
