CONSTANTS
    TotalRolloutSteps = 7
    RequiredSamples = 1
    SyncStep = 2
    MaxRequiredSamples = 3
    ReplicaSlots = 2
    PendingSize = 2
    MaxFailures = 1
SPECIFICATION FairSpec
INVARIANTS
    BudgetPlusOne
    DropsAreRare
    EndArrivesLast
PROPERTIES
    PauseRecovered
    EndEndsTraining
CHECK_DEADLOCK FALSE
