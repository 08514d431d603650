SPECIFICATION BaselinesSpec
CONSTANTS
    Cases <- MCCases
    Family <- MCFamily
    Reference <- MCReference
    SkipAfterFailure = TRUE
    Settings <- MCSettings
    Repetitions <- MCRepetitions
    Outcomes <- MCOutcomes
    Contents = 2
    MaxStarts = 2
    Identifiers <- MCIdentifiers
    Sources <- MCSources
    Solvers <- MCSolvers
    MaxLetters = 2
    MaxHeight = 7
    NodeCap = 60
INVARIANTS
    DiskIsOneRun
    SkipsAreJustified
    ResumeKeepsResults
    SuccessMeansComplete
    EliminationKeepsMeaning
    EncodingKeepsTraces
    AnswersAreTheLanguages
PROPERTY
    RunEnds
CHECK_DEADLOCK FALSE
