SPECIFICATION BaselinesSpec
CONSTANTS
    Cases <- MCCases
    Family <- MCFamily
    Reference <- MCReference
    SkipAfterFailure = TRUE
    Settings <- MCSettings
    Repetitions <- MCRepetitions
    Outcomes <- MCOutcomes
    Contents = 1
    MaxStarts = 2
    Identifiers <- MCIdentifiers
    Sources <- MCSources
    Solvers <- MCSolvers
    MaxLetters = 2
    MaxHeight = 7
    NodeCap = 60
INVARIANT ResumeRetainsCompleted
CHECK_DEADLOCK FALSE
