CONSTANTS
    NULL = NULL
    MemSize = 4
    Styles <- ByAddress
    AllocSizes <- Sizes
    MaxHandles = 2
    UintRange = 7
    Initialises = FALSE
SPECIFICATION RCSpec
INVARIANT HeldInUse
