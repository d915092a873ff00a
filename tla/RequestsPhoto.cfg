SPECIFICATION Spec
CONSTANTS
    Pages = {p1, p2}
    SyncRequests = {"ping", "change-position"}
    ClearRequests = {"change-position"}
    AsyncRequests = {"capture-photo"}
    Unhandled = {"stop"}
    MaxRequests = 1
    NoAnswer = NoAnswer
INVARIANT
    PhotoMeansSaved
CHECK_DEADLOCK FALSE
