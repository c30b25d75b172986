SPECIFICATION FairSpec
CONSTANTS
    CycleRuns = {}
    RefreshRuns = {r1}
    ManualRuns = {}
    Posts = {p1}
    NoPost = NoPost
    Closers = {k1}
    Requests = {q1}
    MaxJobs = 2
    MaxAttempts = 2
    Faults = {"closerCrash"}
    MaxFaults = 1
PROPERTIES EveryJobFinishes
CHECK_DEADLOCK FALSE
