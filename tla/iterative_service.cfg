SPECIFICATION FairSpec

CONSTANTS
  Conns = {c1, c2}
  NoConn = NoConn
  Programs = {"echo_server", "echo_std_server", "echo_mpclient", "calc_server", "hello_server", "file_server", "sep_server", "sep_server2"}
  BUF_SIZE = 2
  OPSZ = 1
  MaxCount = 2
  FileSize = 4
  Rounds = 2
  MaxSent = 4

INVARIANTS
  TypeOK
  RoundTrip
  RightAnswer
  HalfCloseCompletes

PROPERTIES
  Served

CHECK_DEADLOCK FALSE
