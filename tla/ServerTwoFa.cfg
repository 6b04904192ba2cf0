SPECIFICATION Spec
CONSTANTS
    Handler = {h1, h2}
    Phone = {p}
    Name = {n}
    Remote = remote
    Bucket <- MCBucket
    Key <- MCKey
    User = {"u", "v"}
    Session = {"s1", "s2", "s3"}
    Owner <- MCOwner
    Fresh = 2
    Cached = {FALSE}
    Loads <- RestartLoads
    Backends = {"json"}
    Torn = {Torn}
    None = None
    Rate = 1
    Burst = 3
    Cost = 2
    Cooldown = 1
    CodeTtl = 1
    MaxAttempts = 2
SYMMETRY Symmetry
INVARIANT SecondFactorStays
CHECK_DEADLOCK FALSE
