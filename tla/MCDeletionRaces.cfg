CONSTANTS
    Files = {f1}
    Workers = {w1}
    Deleters = {d1}
    Janitor = janitor
    ManifestReaders = {m1}
    SourceReaders = {s1}
    None = none
    QueueCapacity = 0
    MaxRetries = 1
    MaxFaults = 0
    MaxBoots = 1
    DiskMayFail = FALSE
SPECIFICATION SafeSpec
CHECK_DEADLOCK FALSE
INVARIANTS RemovalIsExclusive ServedWhileUsing MissingOnlyWhenDeleted IInv
PROPERTIES LeasedArtifactsStay ImplementsFileContract
