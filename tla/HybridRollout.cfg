SPECIFICATION FairSpec
CONSTANTS
    Standalone = {s1}
    Hybrid = {h1}
    Rollout = {c1}
    Validation = {v1}
    Budget = 2
    Calls = 2
    Updates = 2
    MaxFailures = 1
INVARIANTS
    PoolIsAwake
    VersionsBracketed
    BudgetKept
PROPERTY
    EverythingEnds
CHECK_DEADLOCK FALSE
