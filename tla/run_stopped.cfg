SPECIFICATION FairSpec
CONSTANTS
    Budget = 2
    StaleCap = 1
    DeadLimit = 2
    Pollers = {}
    Sweepers = {s1}
    MayStop = TRUE
    MaxRuns = 2
PROPERTIES StatusFinal EveryRunEnds
CHECK_DEADLOCK FALSE
