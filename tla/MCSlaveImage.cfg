SPECIFICATION Spec
CONSTANTS
    h1 = h1
    h2 = h2
    i1 = i1
    i2 = i2
    Holding <- MCHolding
    Input <- MCInput
    Value = {0, 1}
    NoRequest = NoRequest
INVARIANTS
    TypeOK
    WritesReachImage
    InputsFresh
PROPERTIES
    OwnEffectsOnly
