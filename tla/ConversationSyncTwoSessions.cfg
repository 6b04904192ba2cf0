SPECIFICATION Spec
CONSTANTS
    hi = hi
    bye = bye
    b1 = b1
    b2 = b2
    Text = {hi, bye}
    Peers = {b1, b2}
    MaxMessages = 1
    MaxChanges = 2
    MaxPushes = 2
    Retained = 2
    Touchable = {}
    PageSize = 0
    Settings <- Calm
SYMMETRY Symmetry
INVARIANTS SyncReconciles
CHECK_DEADLOCK FALSE
