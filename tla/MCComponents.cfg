SPECIFICATION ComponentsSpec
CONSTANTS
    \* Listing
    FileIds = {1, 2, 3}
    Times = {1, 2}
    Selections <- MCSelections
    PageLimit = 1
    NoFile = NoFile
    \* Conversion
    Parts = {p1, p2}
    MaxAttempts = 3
    \* Download
    Hosts = {"a", "b"}
    Addresses = {"public1", "public2", "private"}
    PublicAddresses = {"public1", "public2"}
    RedirectLimit = 2
    \* Registry
    Extensions = {".pdf", ".PDF", "txt"}
    Lower <- MCLower
    Dotted = {".pdf", ".PDF"}
    Factories = {f1, f2}
    Nil = Nil
    Fallback = Fallback
    \* Limits
    MaxInt = 127
    Second = 10
    FormAllowance = 4
    Now = 100
    Unset = Unset
    Settings <- MCSettings
    FormSizes = {0, 4}
    BodyRests = {0, 2, 8, 26}
    FileSizes = {0, 1, 4, 13, 31, 41, 123, 127}
    AskedSeconds = {0, 1, 12, 13, 26, 127, 300}
    \* Tenants
    OwnedFiles = {"x", "y"}
    ApiKeys = {"key1", "key2"}
    NoAuth = NoAuth
    Shared = Shared
    MaxStarts = 4
INVARIANTS
    NoRepeats
    NothingSkipped
    OutputMatchesManifest
    FailureLeavesNothing
    OnlyPublicFetches
    MergeIsAtomic
    AcceptedWhole
    RetentionAsAsked
    TenantsAreApart
\* Each component stops when its client has what it wants, or at a bound.
CHECK_DEADLOCK FALSE
