SPECIFICATION FairSpec
CONSTANTS
  MaxId = 2
  Streaming = {1}
  Selectors = {s1}
INVARIANTS
  NothingLeftBehind
  ShutdownIsSeen
  ScanNotLost
PROPERTIES
  StopEnds
  ListedIsMonitored
