CONSTANTS
    N = 4
    TIMES = 2
SPECIFICATION Spec
INVARIANTS
    WokenEats
PROPERTIES
    SemaDining
    CondvarDining
    AllFinish
CHECK_DEADLOCK FALSE
