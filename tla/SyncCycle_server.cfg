SPECIFICATION FairSpec
CONSTANTS
  DeleteVsLiveWindow = 1
  ClockSkewThreshold = 10
  MaxSyncRevision = 9
  BackupRestore = 99
  Device <- Two
  Fenced = FALSE
  Edits <- FirstOnly
  Removals <- SecondOnly
  MaxTime = 1
  MaxFailures = 1
  MaxCrashes = 0
  MaxLapses = 0
INVARIANTS
  NoLostEdit
PROPERTIES
  EditsReachRemote
