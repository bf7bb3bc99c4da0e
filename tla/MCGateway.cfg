CONSTANTS
    Requests = {r1, r2}
    SlotLimit = 1
    HasTimeout = TRUE
    MaxFaults = 1
    MaxBoots = 2
    DocumentLists <- MCDocumentLists
SPECIFICATION SafeSpec
CHECK_DEADLOCK FALSE
SYMMETRY MCSymmetry
INVARIANTS TypeOK PreparingIsBounded AfterFuncNeverCuts TemporariesReclaimed
    LeaseEndsWithReading
PROPERTIES DeliveryIsNotCut
