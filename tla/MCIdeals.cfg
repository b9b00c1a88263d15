SPECIFICATION Spec
CONSTANTS
    NV = 2
    P = 3
    BaseCapacity = 1
    CapacityRatio = 2
    MaxBuckets = 2
    Starts <- StartsOf3
    Additions <- AdditionsOf3
    Strategies = {"direct", "by_homog", "auto", "gvw"}
    MaxExtends = 1
    None = None
    Reference <- ReducedBasis
INVARIANTS ReducedGroebner LexBasisRight MinPolyLeast RootsCoverZeros
