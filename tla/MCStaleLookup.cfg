CONSTANTS
    Files = {f1}
    Workers = {w1}
    Deleters = {d1}
    Janitor = janitor
    ManifestReaders = {m1}
    SourceReaders = {}
    None = none
    QueueCapacity = 0
    MaxRetries = 0
    MaxFaults = 0
    MaxBoots = 1
    DiskMayFail = FALSE
SPECIFICATION SafeSpec
CHECK_DEADLOCK FALSE
INVARIANTS VanishedIsNotFound
