CONSTANTS
    Pages = {p1}
    Captures = {c1}
    svc = svc
    Frames = {f1}
    Sends = {s1}
    Requests = {"configure", "need-frame", "change"}
    Slow = TRUE
    None = None
SPECIFICATION FairSpec
PROPERTIES LockIsReleased PagesAreFed
