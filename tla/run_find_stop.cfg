SPECIFICATION Spec
CONSTANTS
    Budget = 2
    StaleCap = 1
    DeadLimit = 2
    Pollers = {p1}
    Sweepers = {}
    MayStop = TRUE
    MaxRuns = 2
INVARIANTS StopStops
CHECK_DEADLOCK FALSE
