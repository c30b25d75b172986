SPECIFICATION FairSpec
CONSTANTS
    Runs = {a}
    Passes = {}
    Evaluators = {e}
    NumRoutes = 1
    MaxRefusals = 2
    Resets = {"env"}
    MaxOps = 2
    Faults = {"throw"}
    MaxFaults = 1
PROPERTIES AlertFollows NeverLockedOut
CHECK_DEADLOCK FALSE
