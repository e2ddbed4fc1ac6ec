CONSTANTS
    Address <- MCAddress
    Loaded <- MCLoaded
    Setups <- ReturningSetups
    Wrap = 7
    MaxBlock = 2
    MaxRan = 7
    Handle = {h1, h2, h3, h4}
    None = None
    Stub = Stub
    Threw = Threw
SPECIFICATION FairSpec
PROPERTIES
    RunReturns
