CONSTANTS
    Files = {f1,f2}
    Workers = {w1}
    Deleters = {}
    Janitor = janitor
    ManifestReaders = {}
    SourceReaders = {}
    None = none
    QueueCapacity = 1
    MaxRetries = 0
    MaxFaults = 0
    MaxBoots = 2
    DiskMayFail = FALSE
SPECIFICATION Spec
CHECK_DEADLOCK FALSE
PROPERTIES ShutdownCompletes
