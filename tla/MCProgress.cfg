SPECIFICATION ProgressSpec
CONSTANTS
    p1 = p1
    p2 = p2
    Procs = {p1, p2}
    Absent = Absent
    Unreadable = Unreadable
    MaxFaults = 3
    a = a
    c = c
    r = r
    Keys = {a, c, r}
    Journal <- Events
    PriorityOf <- Priority
    Inline <- Payloads
    Immutable <- Content
    AliasOf <- Alias
    Needs <- Referents
    Recurring = {}
    Cached = {c}
    Par = 2
    MaxVer = 2
    MaxAborts = 1
INVARIANTS OwnerIsHonoured ExclusiveUnlessBroken SyncedIsPublished
PROPERTIES LockIsObtainable RefsFollowContent CatchesUp
