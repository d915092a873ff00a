SPECIFICATION Spec
CONSTANTS
    Captures = {c1}
    Phones <- MCPhones
    MayFail = TRUE
    MaxChanges = 2
    None = None
INVARIANT TrapsOnlyUnconfigured
PROPERTY PictureSettles
CHECK_DEADLOCK FALSE
