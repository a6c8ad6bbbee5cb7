SPECIFICATION Spec
CONSTANTS
    Queues = {0}
    DefQ = 0
    QSize = 4
    RX_CLAIM_REQ_ALLOC = 2
    RX_POST_REQ_ALLOC = 1
    Block = 2
    MaxSplit = 2
    AllocFails = TRUE
    MaxStarts = 0
INVARIANT CreditKept
CHECK_DEADLOCK FALSE
