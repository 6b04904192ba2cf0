SPECIFICATION Spec
CONSTANTS
    hi = hi
    bye = bye
    b1 = b1
    Text = {hi, bye}
    Peers = {b1}
    MaxMessages = 2
    MaxChanges = 3
    MaxPushes = 2
    Retained = 2
    Touchable = {}
    PageSize = 0
    Settings <- Dropping
SYMMETRY Symmetry
INVARIANTS NoMessageMissing
CHECK_DEADLOCK FALSE
