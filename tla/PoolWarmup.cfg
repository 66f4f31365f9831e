SPECIFICATION WarmupSpec
CONSTANTS
  WarmupThread = main
  Threads = {main}
  NumClients = 3
  MaxPoolSize = 4
  InitialSizes = {3}
  WaitQueueTimeout = FALSE
  Seeds = 2
  MaxServers = 3
INVARIANTS
  WarmedUp
PROPERTY WarmupEnds
