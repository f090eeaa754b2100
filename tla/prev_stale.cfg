CONSTANTS
    NULL = NULL
    MemSize = 5
    Styles <- ByAddress
SPECIFICATION Spec
INVARIANT PrevPointsBack
