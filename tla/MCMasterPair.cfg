SPECIFICATION PairSpec
CONSTANTS
    a = a
    r = r
    v1 = v1
    v2 = v2
    h1 = h1
    None = None
INVARIANTS LiveIsProtected GetIsRegular
PROPERTIES RefsFollowContent
