SPECIFICATION MCSpec
CONSTANTS
    w0 = w0  w1 = w1  w2 = w2
    cam = cam  cam1 = cam1  cam2 = cam2
    y1 = y1  uv1 = uv1
    s0 = s0  s1 = s1  s2 = s2
    Wsi = {w0, w1, w2}
    Writers = {cam, cam1, cam2}
    svc = svc
    DataJobs = {y1, uv1}
    StringJobs = {s0, s1, s2}
    NoWsi = NoWsi
    NoThread = NoThread
    Run = {"one_client", "service_only", "two_writers"}
SYMMETRY Symmetry
INVARIANTS
    TypeOK
    NoLostWakeup
    GroupCounts
    LegalWrite
    ServiceNotOvertaken
    PipeBounded
    NoOrphansAlone
    DoneMeansGone
PROPERTY
    KeepsPromise
