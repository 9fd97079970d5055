SPECIFICATION LiveSpec
CONSTANTS
  Agents = {"a1"}
  Pollers = {"p1", "p2"}
  Viewers = {"v1"}
  Askers = {"k1"}
  Requests <- MCRequests
  Setups <- MCSetups
  Installed = {2, 3}
  Replies <- MCReplies
  MaxChunks = 3
  PoolSize = 1
  TTL = 1
  MaxTime = 2
PROPERTIES
  StatusAnswered
CHECK_DEADLOCK FALSE
