SPECIFICATION Spec
CONSTANTS
    Wsi = {w1, w2}
    MaxStarts = 3
    MayFail = TRUE
INVARIANT ContextAlive
PROPERTIES PauseCloses StartServes
CHECK_DEADLOCK FALSE
