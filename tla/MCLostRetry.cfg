CONSTANTS
    Files = {f1}
    Workers = {w1}
    Deleters = {}
    Janitor = janitor
    ManifestReaders = {}
    SourceReaders = {}
    None = none
    QueueCapacity = 0
    MaxRetries = 1
    MaxFaults = 1
    MaxBoots = 1
    DiskMayFail = FALSE
SPECIFICATION SafeSpec
CHECK_DEADLOCK FALSE
INVARIANTS NoStrandedFile
