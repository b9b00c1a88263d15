SPECIFICATION Spec
CONSTANTS
    MaxSolutions = 2
    Wires <- MCWires
    Inputs <- MCInputs
    Outputs <- MCOutputs
    Value <- MCValue
    SolutionSets <- MCSolutionSets
    Configs <- MCConfigs
    Connectivity <- MCConnectivity
INVARIANTS QueryMatchesKnown UnknownOnlyWhenExhausted
PROPERTIES NoQueryRepeated Termination RefinesUniqueness
