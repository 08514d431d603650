SPECIFICATION CompilersSpec
CONSTANTS
    Alphabet <- MCAlphabet
    Dags <- ReorderedDags
    MaxWord = 2
    MaxHeight = 7
    Inputs <- MCInputs
    CellBudget = 31
    MaxCodes = 3
INVARIANT
    DiagonalIsFixpoint
CHECK_DEADLOCK FALSE
