SPECIFICATION Spec
CONSTANTS
    CycleRuns = {c1}
    RefreshRuns = {}
    ManualRuns = {}
    Posts = {p1}
    NoPost = NoPost
    Closers = {k1}
    Requests = {}
    MaxJobs = 2
    MaxAttempts = 2
    Faults = {"embed"}
    MaxFaults = 1
INVARIANTS SlotsCoverHolders
CHECK_DEADLOCK FALSE
