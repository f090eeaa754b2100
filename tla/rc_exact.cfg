CONSTANTS
    NULL = NULL
    MemSize = 3
    Styles <- AllStyles
    AllocSizes <- Sizes
    MaxHandles = 2
    UintRange = 7
    Initialises = TRUE
SPECIFICATION RCFairSpec
INVARIANTS RCTypeOK CountsExact IteratorValid
PROPERTIES ReleaseReturns ReleaseRunsDown SharingSpec
