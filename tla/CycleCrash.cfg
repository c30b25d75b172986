SPECIFICATION Spec
CONSTANTS
    CycleRuns = {c1}
    RefreshRuns = {}
    ManualRuns = {}
    Posts = {p1, p2}
    NoPost = NoPost
    Closers = {k1}
    Requests = {}
    MaxJobs = 2
    MaxAttempts = 2
    Faults = {"score", "runCrash", "closerCrash"}
    MaxFaults = 2
SYMMETRY Symmetry
INVARIANTS CrashSafe
CHECK_DEADLOCK FALSE
