CONSTANTS
    N = 4
    MaxGenerations = 3
    MaxFaults = 3
    MaxCrashes = 2
SPECIFICATION Spec
INVARIANTS
    NewMarkerIsComplete
    NeverMixed
    CommittedSurvives
    OutcomeIsTrue
CHECK_DEADLOCK FALSE
