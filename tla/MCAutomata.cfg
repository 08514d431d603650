SPECIFICATION AutomataSpec
CONSTANTS
    Benchmarks <- MCBenchmarks
    TaskOf <- MCTaskOf
    StateCaps = {10, 70}
    FormulaCap = 300
    FamilyCap = 3
    MonoidCap = 24
    Builds = 3
    WordBound = 4
    SuffixBound = 3
    Shapes <- MCShapes
CHECK_DEADLOCK FALSE
INVARIANTS
    CompiledIsTheLanguagesDfa
    FormulaIsTheTask
    VerdictIsCounterFreeness
    BuildsNeverMix
    BlocksAreMooreClasses
    QuotientIsMinimalAndEquivalent
