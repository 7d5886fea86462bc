CONSTANTS
    Proc = {p1, p2, p3, p4}
    NULL = NULL
    Modulus = 8
    BIG_STRIDE = 2
    MAX_TIME_SLICE = 1
    Priorities = {2}
SPECIFICATION Spec
SYMMETRY Symmetry
INVARIANT PicksMinimum
