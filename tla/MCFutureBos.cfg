SPECIFICATION CompilersSpec
CONSTANTS
    Alphabet <- MCAlphabet
    Dags <- FutureBosDags
    MaxWord = 2
    MaxHeight = 7
    Inputs <- MCInputs
    CellBudget = 31
    MaxCodes = 3
INVARIANT
    AutomatonAcceptsFormula
CHECK_DEADLOCK FALSE
