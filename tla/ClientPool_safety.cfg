SPECIFICATION PoolSpec
CONSTANTS
  Threads = {t1, t2, t3}
  MaxPoolSize = 2
  InitialSizes = {1}
  WaitQueueTimeout = TRUE
  Seeds = 1
  MaxServers = 2
INVARIANTS
  OneOwner
  PooledConnectionsKnown
  NoStrandedClient
CHECK_DEADLOCK FALSE
