SPECIFICATION Spec
CONSTANTS
    Queues = {0, 1}
    DefQ = 0
    QSize = 4
    RX_CLAIM_REQ_ALLOC = 2
    RX_POST_REQ_ALLOC = 1
    Block = 2
    MaxSplit = 2
    AllocFails = FALSE
    MaxStarts = 1
INVARIANTS
    NeverBug
    TypeOK
    RingFits
    RequestsMatch
PROPERTY ImplementsPool
CHECK_DEADLOCK FALSE
