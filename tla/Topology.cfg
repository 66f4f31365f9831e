SPECIFICATION TopologySpec
CONSTANTS
  Addresses = {a}
  Seeds = {a}
  SetNames = {rs}
  None = none
  HostLists = {{a}}
  MemberTypes = {"RSSecondary"}
  MaxElection = 2
  MaxServerId = 1
  MaxHosts = 0
  Threads = {t1, t2}
  MaxProcess = 2
  MaxChanges = 2
  MaxFaults = 1
INVARIANTS
  NoStaleConnection
  ClearsBounded
PROPERTIES
  OneClearPerOutage
  VersionNeverBack
  Converges
