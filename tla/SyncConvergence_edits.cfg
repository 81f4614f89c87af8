SPECIFICATION FairSpec
CONSTANTS
  DeleteVsLiveWindow = 1
  ClockSkewThreshold = 10
  MaxSyncRevision = 4
  BackupRestore = 99
  Device <- Three
  Ahead <- FirstAhead
  Edits <- TwoEach
  Removals <- NoneEach
  MaxTime = 2
INVARIANTS
  TypeOK
PROPERTIES
  Converges
CHECK_DEADLOCK FALSE
