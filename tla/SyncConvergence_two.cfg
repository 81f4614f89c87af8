SPECIFICATION FairSpec
CONSTANTS
  DeleteVsLiveWindow = 1
  ClockSkewThreshold = 10
  MaxSyncRevision = 9
  BackupRestore = 99
  Device <- Two
  Ahead <- OnTime
  Edits <- OneEach
  Removals <- TwoEach
  MaxTime = 2
INVARIANTS
  MergeSymmetric
PROPERTIES
  Converges
  LocalWritesMoveForward
  LiveEditSurvives
CHECK_DEADLOCK FALSE
