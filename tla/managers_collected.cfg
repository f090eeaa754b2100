CONSTANTS
    NULL = NULL
    Foreign = Foreign
    MemSize = 3
    Styles <- ByAddress
    AllocSizes <- OneWord
    MaxHandles = 1
    UintRange = 5
    Initialises = TRUE
    Leftovers <- None
    WindowStart = 3
    Kinds <- Both
    Others = FALSE
SPECIFICATION MSpec
INVARIANT CrashOnlyWhenStale
