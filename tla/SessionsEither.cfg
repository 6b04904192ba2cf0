SPECIFICATION Spec
CONSTANTS
    None = None
    t1 = t1
    t2 = t2
    Users = {"alice", "bob"}
    Devices = {"a1", "a2", "b1"}
    Owner <- DeviceOwner
    TwoFa = {"alice"}
    Threads = {t1, t2}
    Loads <- AllLoads
    Ttl = 1
    CacheTtl = 2
    MaxIds = 3
SYMMETRY Symmetry
INVARIANTS TypeOK OwnSession IdleIsRejected EndedIsRejected
CHECK_DEADLOCK FALSE
