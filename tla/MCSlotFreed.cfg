CONSTANTS
    Requests = {r1, r2}
    SlotLimit = 1
    HasTimeout = TRUE
    MaxFaults = 0
    MaxBoots = 1
    DocumentLists <- MCShortLists
SPECIFICATION Spec
CHECK_DEADLOCK FALSE
PROPERTY SlotFreed
