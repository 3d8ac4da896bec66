SPECIFICATION Spec
CONSTANTS
  Agents = {a1, a2}
  NoAgent = NoAgent
  SubscriberIds = {i1}
  Channels = {c1}
  NoChannel = NoChannel
  Runs = {r1}
  MailboxSize = 2
  RunBuffer = 1
  MaxTexts = 1
  MaxSends = 4
  OwnChannels = FALSE
SYMMETRY AgentSymmetry
INVARIANTS
  OnlyStoppedAgentsCrash
CHECK_DEADLOCK FALSE
