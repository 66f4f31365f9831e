SPECIFICATION Spec
CONSTANTS
  Keys = {k1, k2}
  Values = {v1, v2, v3}
  MaxRepls = 2
  MaxEdits = 1
INVARIANTS
  Replaced
  EditsElsewhereSurvive
PROPERTY NoGuess
CHECK_DEADLOCK FALSE
