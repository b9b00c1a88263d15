SPECIFICATION Spec
CONSTANTS
    NVars = 3
    RestartBase = 1
    Formulas <- Formulas3
    Atoms <- MCAtoms
    Theories <- Theories3
    Explain <- AnySet
    MayCancel = TRUE
    TheoryGivesUp = TRUE
INVARIANTS AnswersRight ReasonsAssert NoConflictMissed
PROPERTIES Decides
