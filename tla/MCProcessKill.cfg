CONSTANTS
    Proc = {idle, init, u1, u2}
    idleproc = idle
    initproc = init
    ANY = ANY
    NONE = NONE
    MAX_PROCESS = 4
    MaxSleep = 2
SPECIFICATION FairSpec
PROPERTIES
    KilledDies
