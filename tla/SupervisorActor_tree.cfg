SPECIFICATION FairSpec
CONSTANTS
  Supervisors = {s1, s2}
  Nobody = Nobody
  Specs <- MCSpecs
  Supervisor = s
  Parent = p
  MailboxSize = 2
  InboxSize = 2
  MaxPanics = 1
  MaxEscalated = 1
  MaxCalls = 3
  s1 = s1
  s2 = s2
  x = x
  y = y
INVARIANTS
  NoOrphans
PROPERTIES
  SpecsAreStarted
\* The clients may stop calling.
CHECK_DEADLOCK FALSE
