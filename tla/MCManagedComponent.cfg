CONSTANTS
    Resources = {f1, f2}
    Requests  = {r1, r2}
    Main      = Main
    NoOwner   = NoOwner
SPECIFICATION Spec
INVARIANTS
    ComponentOutlivesRequests
    ExitRunsRegisteredCleanups
PROPERTIES
    EveryWaitEnds
CHECK_DEADLOCK FALSE
