SPECIFICATION FairSpec
CONSTANTS
  NumValues = 3
  Seeded = 2
  MaxLeftover = 1
INVARIANTS
  TypeOK
  NothingLost
  HandlesAlive
  NoLostWakeup
  DrainedBeforeShutdown
PROPERTIES
  ImplementsService
  ImplementsFairService
  Termination
