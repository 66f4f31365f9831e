SPECIFICATION CountSpec
CONSTANTS
  NumValues = 3
  Seeded = 1
  MaxLeftover = 1
INVARIANT CountsDeterministic
