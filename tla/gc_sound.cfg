CONSTANTS
    NULL = NULL
    Foreign = Foreign
    MemSize = 3
    Styles <- TwoStyles
    AllocSizes <- Sizes
    MaxHandles = 1
    UintRange = 7
    Initialises = TRUE
    Leftovers <- OneWord
    WindowStart = 1
SPECIFICATION GCFairSpec
INVARIANTS GCTypeOK RootsKept MarksExplained ReportsNetGain GivesUpWhenFull Tiling Coalesced
PROPERTIES LoopsOnlyThere CollectRunsDown
