SPECIFICATION Spec
CONSTANTS
    hi = hi
    bye = bye
    b1 = b1
    Text = {hi, bye}
    Peers = {b1}
    MaxMessages = 2
    MaxChanges = 3
    MaxPushes = 2
    Retained = 2
    Touchable = {1}
    PageSize = 1
    Settings <- AllOrNone
SYMMETRY Symmetry
INVARIANTS TypeOK SyncReconciles ScheduledStaysHidden
CHECK_DEADLOCK FALSE
