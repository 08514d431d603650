SPECIFICATION Spec
CHECK_DEADLOCK FALSE
CONSTANTS
    Terms = 1
    Literals = 1
    Palette <- MCPalette
    Alphabet <- MCAlphabet
    MaxLength = 3
    AttentionOps = 1
    BooleanOps = 1
    BooleanModels <- MCBooleanModels
    GateSteps = 2
    RealModels <- MCRealModels
    Vectors = 3
    TableSteps = 1
    MaxPadding = 1
    ClassCap = 40
    Features <- MCFeatures
INVARIANTS
    ExtractionIsExact
    ClassTablesAreExact
    PaddingOnlyDeepens
PROPERTY
    ReadBackIsWhatWasWritten
