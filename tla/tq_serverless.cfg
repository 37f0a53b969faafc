SPECIFICATION FairSpec
CONSTANTS
    e1 = e1
    e2 = e2
    h1 = h1
    Events = {e1, e2}
    Threads = {h1}
    ThreadOf <- OneThread
    Workers = {w1, w2}
    NoOne = NoOne
    MaxAttempts = 2
    Outlives = FALSE
    MaxTasks = 2
    MaxFaults = 2
INVARIANTS TypeOK OneInvocation AnsweredBeforeCompleted AgentCapped
PROPERTIES ThreadOrder AgentNotRerun NotSentAgain EveryTaskEnds
CHECK_DEADLOCK FALSE
