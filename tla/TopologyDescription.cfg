SPECIFICATION SwingSpec
CONSTANTS
  Addresses = {a, b, c}
  Seeds = {a, b}
  SetNames = {rs, other}
  None = none
  HostLists = {{a, b}, {b}}
  MemberTypes = {"RSSecondary"}
  MaxElection = 2
  MaxServerId = 3
  MaxHosts = 2
INVARIANTS
  AtMostOnePrimary
  TypesAgree
  PrimaryIsNewest
  OneIdPerAddress
  SrvSafeWhenSharded
  PrimarySelectable
  NeverOscillates
PROPERTIES
  RemovedStaysRemoved
SYMMETRY Symmetry
CHECK_DEADLOCK FALSE
