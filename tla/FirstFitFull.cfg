CONSTANTS
    NPAGE = 5
    NULL = NULL
SPECIFICATION Spec
INVARIANT ListedMarked
