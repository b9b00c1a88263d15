CONSTANTS
    SetUps <- AllSetUps
    MaxLevels = 2
    FieldPolyLimit = 2
    SpareSlots = 0
    None = None
SPECIFICATION Spec
INVARIANTS TrailsAgree BasisMatchesTrail
PROPERTIES ImplementsContract
