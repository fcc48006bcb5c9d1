SPECIFICATION BuildSpec
CONSTANTS
    MaxEdits = 2
    MaxBuilds = 3
    MaxStops = 2
INVARIANTS
    SteadyBuildIsFresh
    RefusedOnlyAfterEdit
CHECK_DEADLOCK FALSE
