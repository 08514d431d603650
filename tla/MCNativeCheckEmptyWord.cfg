SPECIFICATION NativeSpec
CONSTANTS
    Summaries = {s1, s2, s3}
    Start = s1
    NoSummary = none
    AlphabetSize = 2
    Budgets <- MCBudgets
INVARIANT ProvedMeansEmpty
CHECK_DEADLOCK FALSE
