SPECIFICATION Spec
CONSTANTS
  Ids = {a, b, c, d}
  NoId = NoId
  MaxMemberDepth = 3
  Callers = {u1, u2}
  MaxCalls = 7
  a = a
  b = b
  c = c
  d = d
  u1 = u1
  u2 = u2
SYMMETRY TeamSymmetry
INVARIANTS
  TeamTypeOK
  LeaderIsMember
  Acyclic
  ClosedOnce
PROPERTIES
  LeaderKeepsOffice
  OnlyReturnsDeepen
\* The callers may stop calling.
CHECK_DEADLOCK FALSE
