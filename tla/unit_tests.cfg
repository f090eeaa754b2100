CONSTANTS
    NULL = NULL
    Foreign = Foreign
    MemSize = 2048
    Styles <- AllStyles
    AllocSizes <- Sizes
    MaxHandles = 2
    UintRange = 4096
    Initialises = TRUE
    Leftovers <- None
    WindowStart = 944
    Kinds <- AllKinds
    Others = TRUE
    Suite <- AllTests
SPECIFICATION TestSpec
INVARIANT AssertsHold
PROPERTY TestsEnd
