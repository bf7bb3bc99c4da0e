CONSTANTS
    Files = {f1}
    Workers = {w1}
    Deleters = {d1}
    Janitor = janitor
    ManifestReaders = {}
    SourceReaders = {s1}
    None = none
    QueueCapacity = 1
    MaxRetries = 1
    MaxFaults = 0
    MaxBoots = 1
    DiskMayFail = FALSE
SPECIFICATION Spec
CHECK_DEADLOCK FALSE
PROPERTY DeleteAnswers
