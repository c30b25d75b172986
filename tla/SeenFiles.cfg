SPECIFICATION RouteCursorsSpec
CONSTANTS
    RcRuns = {n1}
    RouteLists <- MCRouteLists
    KindOf <- MCKindOf
    MostUnits <- MCMostUnits
    PageSize = 1
    OutOfScope = {}
INVARIANT SeenOnlyOnceStored
CHECK_DEADLOCK FALSE
