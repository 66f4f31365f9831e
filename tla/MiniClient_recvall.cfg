SPECIFICATION Spec
CONSTANTS
  SizeField = 4
  BodyLengths = {2, 5}
  MaxRequests = 1
INVARIANT RecvallExact
CHECK_DEADLOCK FALSE
