CONSTANTS
    Proc = {idle, init, u1, u2, u3, u4}
    idleproc = idle
    initproc = init
    ANY = ANY
    NONE = NONE
    MAX_PROCESS = 5
    MaxSleep = 2
SPECIFICATION Spec
SYMMETRY Symmetry
INVARIANTS
    TypeOK
    RunQueueExact
    NoLostWakeup
    ParentsAlive
    TimersMatchSleepers
    AllQuit
    CountExact
