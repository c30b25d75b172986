SPECIFICATION Spec
CONSTANTS
    CycleRuns = {}
    RefreshRuns = {r1}
    ManualRuns = {m1}
    Posts = {p1}
    NoPost = NoPost
    Closers = {k1}
    Requests = {q1, q2}
    MaxJobs = 2
    MaxAttempts = 2
    Faults = {"score", "queue", "throw", "bias", "removal"}
    MaxFaults = 2
INVARIANTS OneShotSafe
PROPERTIES JobLifeKept
CHECK_DEADLOCK FALSE
