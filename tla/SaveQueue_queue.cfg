CONSTANTS
    Row = {a, b}
    Flusher = {f, g}
    MaxPendingSaves = 2
    MaxSaveRetryAttempts = 2
    MaxVersion = 4
SPECIFICATION FairSpec
INVARIANTS
    TypeOK
    NoSilentLoss
    NoSilentStall
    QueueOrdered
    FlushReports
PROPERTIES
    DiskNeverRegresses
    EditReachesDisk
CHECK_DEADLOCK FALSE
