SPECIFICATION LearningSpec
CHECK_DEADLOCK FALSE
CONSTANTS
    Calls <- MCCalls
    Attempts = 2
    Params <- MCParams
    Perfect = 2
    Accuracy <- MCAccuracy
    Losses = {1, 2}
    Schedules <- MCSchedules
    Cells <- MCCells
    Languages <- MCLanguages
    Results <- MCResults
    Exact = 1
    MaxKills = 1
    Unlucky <- MCUnlucky
INVARIANTS
    ConstructedForItsLabel
    NeverWorseThanSoft
    BestOfAllRestarts
    PicksTransfer
    VerdictsAreTrue
    SuccessMeansProved
