SPECIFICATION FairSpec
CONSTANTS
    Queues = {0}
    DefQ = 0
    QSize = 12
    RX_CLAIM_REQ_ALLOC = 3
    RX_POST_REQ_ALLOC = 1
    Block = 2
    MaxSplit = 2
    AllocFails = FALSE
    MaxStarts = 0
PROPERTY RxGoesOn
CHECK_DEADLOCK FALSE
