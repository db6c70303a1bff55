SPECIFICATION Spec
CONSTANTS
    Job = {j1, j2}
    Poller = {p1, p2}
    MaxAttempts = 2
    Limit = 1
    Keep = 1
    MaxResends = 1
    MaxCrashes = 1
INVARIANTS
    OnePlace
    BudgetKept
PROPERTIES
    EveryJobEnds
