SPECIFICATION CompilersSpec
CONSTANTS
    Alphabet <- MCAlphabet
    Dags <- MCDags
    MaxWord = 3
    MaxHeight = 7
    Inputs <- MCInputs
    CellBudget = 31
    MaxCodes = 3
INVARIANTS
    AutomatonAcceptsFormula
    SummaryIsTheRun
    VerdictIsTheFormula
    DiagonalIsFixpoint
    DiagonalsAreRealizable
    IrrelevantStatesDoNotMatter
    CircuitIsTheFormula
    RoutesFailAlike
CHECK_DEADLOCK FALSE
