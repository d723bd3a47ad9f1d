CONSTANTS
    Resources = {f1, f2}
    Requests  = {r1, r2}
    Main      = Main
    NoOwner   = NoOwner
SPECIFICATION Spec
INVARIANTS
    ExitRunsEveryCleanup
CHECK_DEADLOCK FALSE
