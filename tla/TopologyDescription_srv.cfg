SPECIFICATION Spec
CONSTANTS
  Addresses = {a, b, c}
  Seeds = {a, b}
  SetNames = {rs, other}
  None = none
  HostLists = {{a, b}, {b, c}}
  MemberTypes = {"RSSecondary"}
  MaxElection = 1
  MaxServerId = 3
  MaxHosts = 2
INVARIANT SrvAssertionsHold
CHECK_DEADLOCK FALSE
