SPECIFICATION Spec
CONSTANTS
    ByteBits = 2
    WordBits = 3
    DwordBits = 4
    Selected <- MCSelected
    MaxLocals = 2
    Unset = 0
    Regs <- MCRegs
    Starts <- MCStarts
    Menu <- MCMenu
    Starting <- MCStarting
    Tested <- MCTested
    MaxWriters = 2
    MaxCopies = 1
INVARIANTS
    TypeOK
    WordIsArchitectural
    MemoryShowsFlagsAtExits
    PendingOperandsSurvive
    ValueLocalsCurrent
    OwnershipExact
    ConditionsAgree
CHECK_DEADLOCK FALSE
