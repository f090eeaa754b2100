CONSTANTS
    NULL = NULL
    Foreign = Foreign
    MemSize = 3
    Styles <- TwoStyles
    AllocSizes <- Sizes
    MaxHandles = 2
    UintRange = 6
    Initialises = TRUE
    Leftovers <- None
    WindowStart = 3
    Kinds <- ByHand
    Others = TRUE
SPECIFICATION MSpec
INVARIANTS CountsNeverLow CrashOnlyWhenStale TeardownClean
