SPECIFICATION MCSpec
CONSTANTS
    g = g  f1 = f1  f2 = f2
    s0 = s0  s1 = s1  s2 = s2
    Pages = {p1}
    Captures = {c1}
    svc = svc
    Frames = {g, f1, f2}
    Sends = {s0, s1, s2}
    Requests = {"configure", "need-frame", "change"}
    Slow = TRUE
    None = None
SYMMETRY Symmetry
INVARIANTS
    LockHasReleaser
    GroupBalanced
    OwnFramesWhole
