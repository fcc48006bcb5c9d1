SPECIFICATION FairSpec
CONSTANTS
    PromptCount = 1
    N = 2
    Schedule <- TwoSteps
    Remax = TRUE
    BatchMultiple = 3
    MaxFailures = 1
INVARIANTS
    SampleWaitsForAll
    FinishedPromptComplete
    BatchStoredAndOwn
    OnlyFailedPromptsLeft
PROPERTY
    RunEnds
CHECK_DEADLOCK FALSE
