SPECIFICATION Spec
CONSTANTS
  Names = {n1, n2}
  Cells = {c1, c2, c3}
  Clients = {u1}
  NoName = NoName
  NoCell = NoCell
  MailboxSize = 2
  DeadLetterSize = 0
  InboxSize = 1
  UserOps = {"spawn", "stop"}
  MaxCalls = 5
  c1 = c1
  c2 = c2
  c3 = c3
  n1 = n1
  n2 = n2
  u1 = u1
SYMMETRY CellSymmetry
INVARIANTS
  StopsAllChildren
\* The system may idle for ever: that is no deadlock.
CHECK_DEADLOCK FALSE
