SPECIFICATION MCFairSpec
CONSTANTS
    w0 = w0  w1 = w1  w2 = w2
    cam = cam  cam1 = cam1  cam2 = cam2
    y1 = y1  uv1 = uv1
    s0 = s0  s1 = s1  s2 = s2
    Wsi = {w0}
    Writers = {cam}
    svc = svc
    DataJobs = {y1, uv1}
    StringJobs = {s0}
    NoWsi = NoWsi
    NoThread = NoThread
    Run = {"live", "live_service"}
PROPERTIES
    Answered
    DataCompletesAlone
