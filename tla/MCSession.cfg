CONSTANTS
    P = 3
    Declarations <- AllDeclarations
    Definitions <- AllDefinitions
    Assertions <- AllAssertions
    MaxAsserts = 2
    MaxLevels = 1
    MaxSkolems = 2
    MaxMacroDepth = 1
    MaxExponent = 2
SPECIFICATION Spec
INVARIANTS ScopeKept AnswersScope CoreSuffices OneShotAgrees
