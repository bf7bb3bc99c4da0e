CONSTANTS
    Files = {f1}
    Workers = {w1,w2}
    Deleters = {d1,d2}
    Janitor = janitor
    ManifestReaders = {}
    SourceReaders = {}
    None = none
    QueueCapacity = 1
    MaxRetries = 1
    MaxFaults = 1
    MaxBoots = 1
    DiskMayFail = TRUE
SPECIFICATION SafeSpec
CHECK_DEADLOCK FALSE
INVARIANTS MarkerIsOwned RetryStateReclaimed DeletedMeansGone SingleFlight
SYMMETRY Symmetry
