CONSTANTS
    s1 = s1
    s2 = s2
    g1 = g1
    Sets = {s1, s2}
    Gets = {g1}
    Sizes = {2, 3}
    Limit = 2
    TTL = 1
    MaxTime = 3
SYMMETRY Calls
SPECIFICATION Spec
INVARIANTS
    HitIsWhole
PROPERTIES
    HitIsNotStale
    QuietGetIsExact
CHECK_DEADLOCK FALSE
