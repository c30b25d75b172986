SPECIFICATION Spec
CONSTANTS
    Runs = {a}
    Passes = {m}
    Evaluators = {}
    NumRoutes = 2
    MaxRefusals = 3
    Resets = {"admin", "env"}
    MaxOps = 1
    Faults = {"error", "held", "store", "read"}
    MaxFaults = 1
INVARIANTS TypeOK RefusalsRecorded
PROPERTIES FreshRefusalKept TakedownHonoured
CHECK_DEADLOCK FALSE
