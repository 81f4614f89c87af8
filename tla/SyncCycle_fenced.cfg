SPECIFICATION Spec
CONSTANTS
  DeleteVsLiveWindow = 1
  ClockSkewThreshold = 10
  MaxSyncRevision = 9
  BackupRestore = 99
  Device <- Two
  Fenced = TRUE
  Edits <- TwoAndOne
  Removals <- NoneEach
  MaxTime = 0
  MaxFailures = 0
  MaxCrashes = 0
  MaxLapses = 1
INVARIANTS
  TypeOK
PROPERTIES
  MergedIsPersisted
