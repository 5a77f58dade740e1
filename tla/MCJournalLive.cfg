SPECIFICATION FairSpec
CONSTANTS
    r1 = r1
    r2 = r2
    Roots = {r1}
    Content <- Recurring
    MaxVer = 4
    MaxTime = 8
    CalmTime = 2
    MaxFaults = 1
    Unread = Unread
INVARIANT SyncIsComplete
PROPERTIES Converges
CHECK_DEADLOCK FALSE
