CONSTANTS
    Proc = {p1, p2, p3}
    NULL = NULL
    Modulus = 16
    BIG_STRIDE = 4
    MAX_TIME_SLICE = 1
    Priorities = {0, 3}
SPECIFICATION SteadySpec
INVARIANTS
    PoolSound
    PicksMinimum
PROPERTIES
    ImplementsQueue
    EveryoneRuns
