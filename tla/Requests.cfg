SPECIFICATION MCFairSpec
CONSTANTS
    p0 = p0
    Pages = {p0, p1}
    SyncRequests = {"ping", "change-position"}
    ClearRequests = {"change-position"}
    AsyncRequests = {"capture-photo"}
    Unhandled = {"stop"}
    MaxRequests = 2
    NoAnswer = NoAnswer
INVARIANTS
    SocketOrTimer
    PendingHasListener
    SendsOnOpenSocket
    AloneGetsOwn
PROPERTIES
    AlwaysReconnects
    SentIsAnswered
CHECK_DEADLOCK FALSE
