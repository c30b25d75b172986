SPECIFICATION Spec
CONSTANTS
    Runs = {a}
    Passes = {}
    Evaluators = {}
    NumRoutes = 2
    MaxRefusals = 1
    Resets = {}
    MaxOps = 0
    Faults = {"throw"}
    MaxFaults = 1
INVARIANTS RefusalsRecorded
CHECK_DEADLOCK FALSE
