SPECIFICATION WalkSpec
CONSTANTS
  Ids = {a, b, c, d}
  NoId = NoId
  MaxMemberDepth = 3
  a = a
  b = b
  c = c
  d = d
INVARIANTS
  ResultIsRight
PROPERTIES
  Terminates
\* The loops end.
CHECK_DEADLOCK FALSE
