SPECIFICATION Spec
CONSTANTS
    None = None
    t1 = t1
    Users = {"alice", "bob"}
    Devices = {"a1", "a2", "b1"}
    Owner <- DeviceOwner
    TwoFa = {"alice"}
    Threads = {t1}
    Loads <- PhoneLoads
    Ttl = 1
    CacheTtl = 2
    MaxIds = 2
SYMMETRY Symmetry
INVARIANTS PhoneOwnSession
CHECK_DEADLOCK FALSE
