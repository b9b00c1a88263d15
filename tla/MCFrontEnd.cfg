CONSTANTS
    Queries <- AllQueries
    Setups <- AllSetups
    DnfCap = 5
    FieldPolyLimit = 3
    MaxRingVars = 7
SPECIFICATION Spec
INVARIANTS AnswerRight FormulaKept SourcesAligned DerivedFollows
