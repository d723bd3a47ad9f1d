CONSTANTS
    Cleanups = {f1, f2, f3}
    Closers  = {p1, p2}
    NoOwner  = NoOwner
SPECIFICATION FairScopeSpec
INVARIANTS
    NoCleanupBeforeCancel
PROPERTIES
    ImplementsLifetime
    EveryCallEnds
CHECK_DEADLOCK FALSE
