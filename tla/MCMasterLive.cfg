SPECIFICATION FairSpec
CONSTANTS
    a = a
    m = m
    r = r
    v1 = v1
    v2 = v2
    h1 = h1
    None = None
    Keys = {r}
    Vals = {v1, v2}
    Hosts = {h1}
    Immutable <- ContentKeys
    HostOf <- SameHost
    PriorityOf <- Tiers
    InitStore <- Absent
    InitBackend <- Absent
    Readable = {}
    WithFlush = FALSE
    MaxObjects = 2
    DedupeMin = 1
    Quota = 5
    MaxBatch = 1
    MaxEnq = 2
    MaxFaults = 1
PROPERTY BacklogDrains
