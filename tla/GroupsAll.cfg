SPECIFICATION Spec
CONSTANTS
    User = {a, b, c}
    Handler = {h1, h2}
    Option = {yes, no}
    Token = {t1, t2}
    Tombstone = Tombstone
    None = None
    Chunks = 2
    PerUser = 1
    Total = 3
    Loads <- MCLoads
SYMMETRY Symmetry
INVARIANTS TypeOK MembershipAsAnswered DeletedIsGone MessageIdsDistinct AttachmentsAreWhole UploadsBounded AnnouncedIsFinal KeptAsAnswered
PROPERTIES OwnerOnlyLeaves
CHECK_DEADLOCK FALSE
