SPECIFICATION FairSpec
CONSTANTS
  t = t
  c = c
  r = r
  Texts = {t}
  Commands = {c}
  Recordings = {r}
  None = None
  Batches <- MCBatches
  MaxFaults = 1
  MaxCrashes = 2
  MaxMoves = 1
INVARIANTS QueuedHasWave
PROPERTIES ExactlyOnce Delivered
