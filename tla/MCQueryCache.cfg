SPECIFICATION Spec
CONSTANTS
    None = None
    Points <- MCPoints
    Rational <- MCRational
    Facts <- MCFacts
    BitFacts <- MCBitFacts
    Sides <- MCSides
    Disequalities <- MCDisequalities
    MaxCalls = 5
    MayCancel = TRUE
    MayPanic = TRUE
INVARIANTS AnswersRight KeptFactsFollow ExactUnlessInterrupted
PROPERTIES CallsReturn
