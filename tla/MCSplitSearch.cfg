SPECIFICATION Spec
CONSTANTS
    None = None
    Problems <- MCProblems
    ValueLimit = 1
    MaxUnsplit = 1
    Methods = {"single", "split"}
    Triangular = TRUE
    Radical = TRUE
    MaxNogoods = 1
    MaxRounds = 1
    MayCancel = TRUE
INVARIANTS AnswerRight NothingLost NogoodsBarren
PROPERTY Answers
