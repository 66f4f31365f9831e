SPECIFICATION FairSpec
CONSTANTS
  MainThread = main
  NoClient = none
  NumWorkers = 3
  Threads = {1, 2, 3, main}
  MaxPoolSize = 4
  InitialSizes = {2, 4}
  WaitQueueTimeout = TRUE
  Seeds = 1
  MaxServers = 1
INVARIANTS
  AllReturnedAtDestroy
  NoMoreClientsThanWorkers
PROPERTIES
  KeepsPoolContract
  Ends
