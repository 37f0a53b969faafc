SPECIFICATION Spec
CONSTANTS
    Budget = 3
    StaleCap = 1
    DeadLimit = 2
    Pollers = {p1}
    Sweepers = {}
    MayStop = FALSE
    MaxRuns = 3
INVARIANTS CompletedIsStored OneProducer WithinBudget
CHECK_DEADLOCK FALSE
