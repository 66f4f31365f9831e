SPECIFICATION Spec
CONSTANTS
  SizeField = 4
  BodyLengths = {2, 5}
  MaxRequests = 3
INVARIANTS
  ReplyIsForRequest
  FramingKept
CHECK_DEADLOCK FALSE
