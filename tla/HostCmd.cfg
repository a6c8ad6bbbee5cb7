SPECIFICATION FairSpec
CONSTANTS
    NWindow = 2
    MaxTfd = 4
    Earlier = 6
    MaxSync = 2
    MaxAsync = 1
    MaxSkips = 1
    MaxStarts = 1
    Rfkills = TRUE
    RfkillStops = {TRUE, FALSE}
INVARIANTS
    TypeOK
    SuccessAnswered
    OwnAnswer
    WarnsJustified
    WatchdogWhileQueued
PROPERTY CallReturns
CHECK_DEADLOCK FALSE
