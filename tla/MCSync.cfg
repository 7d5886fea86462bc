CONSTANTS
    Thread = {t1, t2, t3, t4}
    Units = 2
    CV = {c1, c2}
SPECIFICATION MCSpec
INVARIANTS
    QueueIsAsleep
    Conservation
    MonitorSafe
PROPERTIES
    WaitersServed
CHECK_DEADLOCK FALSE
