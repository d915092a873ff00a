SPECIFICATION Spec
CONSTANTS
    a = a
    b = b
    Conns <- MCConns
    Tables = {t1}
    Slots = 2
    MaxSent <- MCMaxSent
INVARIANTS HeaderTables FdsConsistent CallbacksPaired
PROPERTY EndsInTime
CHECK_DEADLOCK FALSE
