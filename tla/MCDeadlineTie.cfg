CONSTANTS
    Requests = {r1}
    SlotLimit = 1
    HasTimeout = TRUE
    MaxFaults = 1
    MaxBoots = 2
    DocumentLists <- MCDocumentLists
SPECIFICATION SafeSpec
CHECK_DEADLOCK FALSE
INVARIANT ClientIsAnswered
