CONSTANTS
    TotalRolloutSteps = 6
    RequiredSamples = 2
    SyncStep = 1
    MaxRequiredSamples = 3
    ReplicaSlots = 2
    PendingSize = 2
    MaxFailures = 0
SPECIFICATION FairSpec
PROPERTIES
    TrainingEnds
CHECK_DEADLOCK FALSE
