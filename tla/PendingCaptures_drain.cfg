SPECIFICATION FairSpec
CONSTANTS
  Items = {1, 2, 3, 4, 5, 6, 7, 8, 9, 10}
  KindOf <- MCKindOf
  CreatedAt <- MCCreatedAt
  Batches <- MCBatches
  MaxFaults = 1
  MaxCrashes = 1
  MaxTaps = 3
INVARIANTS AudioOnce WavKept OneCopyPerFault UndoHonoured CheckoffKept
PROPERTIES AckSafe Drained
