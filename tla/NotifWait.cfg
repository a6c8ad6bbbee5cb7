SPECIFICATION FairSpec
CONSTANTS
    Waiters = {w1, w2}
    Cmds = {c1, c2}
    Aborters = {a1}
    MaxFwq = 1
    Timeouts = TRUE
INVARIANTS
    TypeOK
    ListedWhileAlive
    ResultIsTrue
    OneShot
    WakeupOwed
PROPERTY
    WaitEnds
