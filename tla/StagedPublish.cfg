SPECIFICATION Spec
CONSTANTS
    N = 2
    Reads = 2
    Sources = 2
    MaxBuilds = 3
    MaxFaults = 2
    MaxStops = 2
    MaxMoves = 4
INVARIANTS
    SteadyBuildIsFresh
    FailureRestores
    CommittedSurvives
PROPERTIES
    ConsumersSeeWhole
CHECK_DEADLOCK FALSE
