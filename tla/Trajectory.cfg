CONSTANTS
    MaxTurns = 2
    MaxObsLength = 3
    Generations <- MCGenerations
    Documents <- MCDocuments
SPECIFICATION Spec
INVARIANTS
    RewardAgreesWithRollout
    JudgedAnswerIsTheAnswer
CHECK_DEADLOCK FALSE
