SPECIFICATION ConflictSpec
CONSTANTS
    Summaries = {s1, s2, s3}
    Start = s1
    AlphabetSize = 2
    Budgets <- MCBudgets
CHECK_DEADLOCK FALSE
INVARIANT EmptyWordExcluded
