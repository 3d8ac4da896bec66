SPECIFICATION FairSpec
CONSTANTS
  Names = {n1, n2}
  Cells = {c1, c2}
  Clients = {u1}
  NoName = NoName
  NoCell = NoCell
  MailboxSize = 2
  DeadLetterSize = 1
  InboxSize = 2
  UserOps = {"spawn", "send", "watch", "stop", "broadcast", "shutdown", "panic"}
  MaxCalls = 3
  c1 = c1
  c2 = c2
  n1 = n1
  n2 = n2
  u1 = u1
INVARIANTS
  InOrder
PROPERTIES
  PillKills
  ShutdownCompletes
\* The system may idle for ever: that is no deadlock.
CHECK_DEADLOCK FALSE
