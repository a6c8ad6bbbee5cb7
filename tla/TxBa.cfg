SPECIFICATION FairSpec
CONSTANTS
    Cpus = {cpu0}
    Fragmentation = TRUE
    HT_AGG_MAX_RETRIES = 0
    HT_AGG_BURST_RETRIES = 0
    MaxToken = 2
    MaxSeq = 1
INVARIANTS
    TypeOK
    TimersStoppedFirst
    OperationalAgreed
    AmpduOnlyInSession
    PeerNotLeftBehind
    StationFreedQuietly
PROPERTIES
    NoRevival
    SetupEnds
    StopEnds
CHECK_DEADLOCK FALSE
