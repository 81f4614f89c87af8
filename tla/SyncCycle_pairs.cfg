SPECIFICATION FairSpec
CONSTANTS
  DeleteVsLiveWindow = 1
  ClockSkewThreshold = 10
  MaxSyncRevision = 9
  BackupRestore = 99
  Device <- Two
  Fenced = TRUE
  Edits <- OneEach
  Removals <- NoneEach
  MaxTime = 0
  MaxFailures = 1
  MaxCrashes = 1
  MaxLapses = 0
INVARIANTS
  FastPairSound
PROPERTIES
  DevicesCatchUp
