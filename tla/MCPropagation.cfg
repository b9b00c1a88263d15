SPECIFICATION Spec
CONSTANTS
    MaxConstraints = 3
    Circuits <- MCCircuits
    Lemmas <- MCLemmas
INVARIANTS KnownIsUnique ClausesEntailed LoweringIsExact
PROPERTIES RoundsMakeProgress
