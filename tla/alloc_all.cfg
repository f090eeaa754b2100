CONSTANTS
    NULL = NULL
    MemSize = 5
    Styles <- AllStyles
SPECIFICATION FairSpec
INVARIANTS TypeOK Tiling ListComplete ListSorted BackLinks Coalesced Policy DenyOnlyWhenFull Conservation
PROPERTIES CallsReturn HeapSpec RunsDown
