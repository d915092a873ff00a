CONSTANTS
    Pages = {p1}
    Captures = {c1}
    svc = svc
    Frames = {f1, f2}
    Sends = {s1, s2}
    Requests = {"configure", "need-frame"}
    Slow = FALSE
    None = None
SPECIFICATION Spec
INVARIANT TexturesWhole
