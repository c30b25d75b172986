SPECIFICATION FairSpec
CONSTANTS
    CycleRuns = {c1}
    RefreshRuns = {}
    ManualRuns = {}
    Posts = {p1}
    NoPost = NoPost
    Closers = {k1}
    Requests = {}
    MaxJobs = 2
    MaxAttempts = 1
    Faults = {"score", "queue", "throw", "bias", "removal", "embed", "straggle", "runCrash", "workerCrash", "closerCrash"}
    MaxFaults = 2
INVARIANTS OneDecision
PROPERTIES EveryJobFinishes EveryPostScored
CHECK_DEADLOCK FALSE
