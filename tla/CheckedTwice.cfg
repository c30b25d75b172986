SPECIFICATION Spec
CONSTANTS
    CycleRuns = {c1}
    RefreshRuns = {}
    ManualRuns = {}
    Posts = {p1}
    NoPost = NoPost
    Closers = {k1, k2}
    Requests = {}
    MaxJobs = 2
    MaxAttempts = 2
    Faults = {}
    MaxFaults = 0
INVARIANTS ChecksOnce
CHECK_DEADLOCK FALSE
