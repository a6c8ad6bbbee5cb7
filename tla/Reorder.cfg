SPECIFICATION FairSpec
CONSTANTS
    SN_MODULO = 15
    BufSize = 3
    Offset = 13
    Amsdus = {0, 2}
    AutoSeq = {TRUE, FALSE}
    MaxFrame = 3
    MaxFirsts = 2
    MaxLag = 3
INVARIANTS
    TypeOK
    InOrder
    Accounted
    StoredCounts
    HeldIsTimed
    FreedQuietly
PROPERTY HeldLeaves
CHECK_DEADLOCK FALSE
