SPECIFICATION FairSpec
CONSTANTS
    Cpus = {cpu0}
    Fragmentation = FALSE
    HT_AGG_MAX_RETRIES = 0
    HT_AGG_BURST_RETRIES = 0
    MaxToken = 2
    MaxSeq = 1
PROPERTY StartCollected
CHECK_DEADLOCK FALSE
