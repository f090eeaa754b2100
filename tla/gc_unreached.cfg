CONSTANTS
    NULL = NULL
    Foreign = Foreign
    MemSize = 3
    Styles <- ByAddress
    AllocSizes <- Sizes
    MaxHandles = 1
    UintRange = 7
    Initialises = TRUE
    Leftovers <- None
    WindowStart = 1
SPECIFICATION GCSpec
INVARIANT ReferencedKept
