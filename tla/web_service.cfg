SPECIFICATION FairSpec

CONSTANTS
  Conns = {c1, c2}
  NoConn = NoConn
  Fds = {4, 5, 6, 7}
  Limits = {6, 8}
  Kinds = {"page", "missing", "plain", "post", "garbage"}

INVARIANTS
  RightOutcome
  DescriptorsOwned

PROPERTIES
  Served

CHECK_DEADLOCK FALSE
