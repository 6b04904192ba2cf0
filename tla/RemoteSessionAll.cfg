SPECIFICATION Spec
CONSTANTS
    None = None
    t1 = t1
    t2 = t2
    t3 = t3
    Threads = {t1, t2, t3}
    Loads <- SerialOrBusy
    MaxKeys = 4
SYMMETRY Symmetry
INVARIANTS TypeOK SameKey EndedStaysEnded
CHECK_DEADLOCK FALSE
