SPECIFICATION Spec
CONSTANTS
    SN_MODULO = 16
    BufSize = 3
    Offset = 13
    Amsdus = {}
    AutoSeq = {FALSE}
    MaxFrame = 6
    MaxFirsts = 2
    MaxLag = 2
INVARIANT Accounted
CHECK_DEADLOCK FALSE
