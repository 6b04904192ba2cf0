SPECIFICATION Spec
CONSTANTS
    Handler = {h1, h2}
    Phone = {p}
    Name = {n}
    Remote = remote
    Bucket <- MCBucket
    Key <- MCKey
    User = {"u", "v"}
    Session = {"s1", "s2", "s3"}
    Owner <- MCOwner
    Fresh = 2
    Cached = {TRUE, FALSE}
    Loads <- MCLoads
    Backends = {"json", "sqlite", "postgres"}
    Torn = {Torn}
    None = None
    Rate = 1
    Burst = 4
    Cost = 2
    Cooldown = 1
    CodeTtl = 2
    MaxAttempts = 2
SYMMETRY Symmetry
INVARIANTS TypeOK AdmittedBounded CodeIsSpent OneAccount AnsweredSurvives OnlineIsRecent OnlineIsTold ConnectedHasAll CallsAgree
CHECK_DEADLOCK FALSE
