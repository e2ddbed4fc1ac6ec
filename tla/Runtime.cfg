CONSTANTS
    Address <- MCAddress
    Loaded <- MCLoaded
    Setups <- SafetySetups
    Wrap = 3
    MaxBlock = 2
    MaxRan = 4
    Handle = {h1, h2, h3, h4}
    None = None
    Stub = Stub
    Threw = Threw
SPECIFICATION Spec
VIEW LiveState
INVARIANTS
    TypeOK
    InterpreterHonoursLimit
    LimitMeansSpent
    BlockRunsWhatMemoryHolds
PROPERTIES
    ThrowsOnlyUndecodable
    ImplementsMachine
