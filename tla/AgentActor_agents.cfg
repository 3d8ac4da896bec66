SPECIFICATION FairSpec
CONSTANTS
  Agents = {a1, a2}
  NoAgent = NoAgent
  SubscriberIds = {i1}
  Channels = {c1, c2}
  NoChannel = NoChannel
  Runs = {r1}
  MailboxSize = 2
  RunBuffer = 1
  MaxTexts = 1
  MaxSends = 3
  OwnChannels = TRUE
INVARIANTS
  AgentTypeOK
  StopNeverPanics
  ListenersReleased
  OnlyStoppedAgentsCrash
  AnswerIsTheOutcome
PROPERTIES
  DelegationIsAnswered
  CancelledRunEnds
\* The clients may stop sending, and a crash ends the process.
CHECK_DEADLOCK FALSE
