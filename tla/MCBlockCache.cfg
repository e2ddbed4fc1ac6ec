CONSTANTS
    a = a
    b = b
    c = c
    Eip <- MCEip
    Code <- MCCode
    Images <- MCImages
    Decode <- MCDecode
    Handle = {h1, h2, h3}
    None = None
    Stub = Stub
    Threw = Threw
SPECIFICATION Spec
SYMMETRY Symmetry
INVARIANTS
    TypeOK
    LinkCoherence
    DependentsExact
    LinkedJumpsRunCurrentCode
PROPERTIES
    RetiredTablesAreFrozen
    Promise
CHECK_DEADLOCK FALSE
