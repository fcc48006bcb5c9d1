CONSTANTS
    ConfiguredMaxTurns = 2
    ResponseLength = 9
    MaxObsLength = 4
    GenMax = 2
    ContentMax = 3
SPECIFICATION FairSpec
INVARIANTS
    TrainerInputAligned
    BudgetAccounted
    AnswerOnlyTurnGranted
    ToolResponsesWhole
PROPERTIES
    ImplementsDialogue
    Termination
CHECK_DEADLOCK FALSE
