SPECIFICATION Spec
CONSTANTS
    CycleRuns = {c1}
    RefreshRuns = {}
    ManualRuns = {}
    Posts = {p1, p2}
    NoPost = NoPost
    Closers = {k1}
    Requests = {}
    MaxJobs = 2
    MaxAttempts = 2
    Faults = {"score", "queue", "throw", "bias", "removal"}
    MaxFaults = 2
SYMMETRY Symmetry
INVARIANTS TypeOK NoSlotLeaks ChecksSeeEveryPost
PROPERTIES NoScoringOnceClosing
CHECK_DEADLOCK FALSE
