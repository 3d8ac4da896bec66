SPECIFICATION FairSpec
CONSTANTS
  Cells = {c1, c2}
  NoCell = NoCell
  Strategies = {"default", "oneForOne", "allForOne", "backoff"}
  MaxRestarts = 2
  WithinDuration = 2
  InitialDelay = 1
  MaxDelay = 3
  MaxPanics = 3
  MaxTime = 2
  c1 = c1
  c2 = c2
INVARIANTS
  SupervisionTypeOK
  SharedBudget
  BackoffDelay
  OverlapIsBounded
PROPERTIES
  FailureIsHandled
\* The actors may wait for messages for ever.
CHECK_DEADLOCK FALSE
