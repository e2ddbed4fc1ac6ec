SPECIFICATION Spec
CONSTANTS
    Regs = {r1, r2}
    Shapes <- SafeShapes
    MaxOps = 3
    ZeroToken = ZeroToken
    WrongToken = WrongToken
INVARIANTS
    TypeOK
    ReadsArchitectural
    FaultRestoresInstructionStart
    ExitStoresArchitectural
    EmissionNeverThrows
    CellsArePrivate
SYMMETRY RegSymmetry
CHECK_DEADLOCK FALSE
