SPECIFICATION FairSpec
CONSTANTS
  Clients <- MCClients
  Actors <- MCActors
  NoActor = NoActor
  MailboxSize = 1
  InboxSize = 1
  Ops <- MCOps
  MaxCalls = 3
  u = u
  a = a
  b = b
INVARIANT
  RequestTypeOK
PROPERTIES
  AnswersAreOwn
  CallsReturn
  LoopsResume
\* The callers may stop calling.
CHECK_DEADLOCK FALSE
