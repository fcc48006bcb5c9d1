CONSTANTS
    MaxTurns = 8
    MaxObsLength = 2
    Generations <- MCGenerations
    Documents <- MCDocuments
SPECIFICATION RewardSpec
INVARIANTS
    CorrectOutscoresWrong
    PaidOnlyForVerdict
CHECK_DEADLOCK FALSE
