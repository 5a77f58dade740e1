SPECIFICATION Spec
CONSTANTS
    r1 = r1
    r2 = r2
    Roots = {r1, r2}
    Content <- Recurring
    MaxVer = 2
    MaxTime = 5
    CalmTime = 3
    MaxFaults = 1
    Unread = Unread
SYMMETRY AnyRoot
INVARIANTS RemoteIsComplete QuietIsCovered
PROPERTIES UnackedIsKept RestoreStep
CHECK_DEADLOCK FALSE
