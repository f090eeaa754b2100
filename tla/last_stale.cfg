CONSTANTS
    NULL = NULL
    MemSize = 5
    Styles <- Ascending
SPECIFICATION Spec
INVARIANT LastIsLast
