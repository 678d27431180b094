SPECIFICATION Spec
CONSTANTS
    f = f
    g = g
    Texts <- MCTexts
    Functions = {f, g}
    MaxValues = 3
    Address <- MCAddress
INVARIANTS
    TypeOK
PROPERTIES
    ImplementsLoxOperators
