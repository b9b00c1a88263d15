SPECIFICATION Spec
CONSTANTS
    NV = 3
    P = 3
    Zero <- ZeroPoly
    Lead <- LeadOf
    Monic <- MonicOf
    Homogeneous <- HomogeneousOf
    NormalForm <- NormalFormOf
    SPolynomial <- SPolynomialOf
    Member <- MemberOf
    Groebner <- IsGroebner
    Joined <- JoinedOf
    Batches <- BatchesOf
    Configs <- SkippingConfigs
INVARIANTS CoreIsContradictory
