SPECIFICATION NativeSpec
CONSTANTS
    Summaries = {s1, s2, s3}
    Start = s1
    NoSummary = none
    AlphabetSize = 2
    Budgets <- MCBudgets
INVARIANTS
    ExplorationExact
    TruncationJustified
    WitnessIsShortestCounterexample
PROPERTY KeepsPromise
CHECK_DEADLOCK FALSE
