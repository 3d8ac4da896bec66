SPECIFICATION Spec
CONSTANTS
  Ids = {a, b}
  NoId = NoId
  MaxMemberDepth = 2
  Clients = {u1, u2}
  Ops = {"add", "remove", "close", "fork", "addTask", "update", "assign", "members", "board", "summary", "report", "progress", "shutdown"}
  MaxTasks = 1
  MaxCalls = 3
  MailboxSize = 2
SYMMETRY TeamActorSymmetry
INVARIANTS
  TeamActorTypeOK
  StoppedTeamIsEmpty
  TeamIsLed
PROPERTIES
  Consistent
\* The callers may stop calling.
CHECK_DEADLOCK FALSE
