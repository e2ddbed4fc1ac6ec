SPECIFICATION Spec
CONSTANTS
    Regs = {r1}
    Shapes <- BranchShapes
    MaxOps = 2
    ZeroToken = ZeroToken
    WrongToken = WrongToken
INVARIANT ExitStoresArchitectural
CHECK_DEADLOCK FALSE
