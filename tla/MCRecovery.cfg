CONSTANTS
    Files = {f1}
    Workers = {w1}
    Deleters = {d1}
    Janitor = janitor
    ManifestReaders = {}
    SourceReaders = {}
    None = none
    QueueCapacity = 0
    MaxRetries = 1
    MaxFaults = 0
    MaxBoots = 2
    DiskMayFail = FALSE
SPECIFICATION Spec
CHECK_DEADLOCK FALSE
INVARIANTS TypeOK RowsMatchDisk NoOrphanDirectory NoStrandedFile
PROPERTIES UploadSettles MarkedIsErased ShutdownCompletes
