SPECIFICATION Spec
CONSTANTS
  Goroutines = {g1, g2}
  Readers = {r}
  Latencies = {1, 4}
  Forever = 9
  MaxMessages = 4
  MaxResets = 1
  g1 = g1
  g2 = g2
  r = r
INVARIANTS
  Accounted
  SnapshotsAreSound
\* The messages come to an end.
CHECK_DEADLOCK FALSE
