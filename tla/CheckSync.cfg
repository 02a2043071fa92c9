SPECIFICATION FairSpec
CONSTANTS
    N = 4
    TIMES = 1
    Idle = idle
    Mutex = mutex
    Next_ = next
    NONE = none
    Procs = {0, 1, 2, 3, idle}
    Sems = {0, 1, 2, 3, mutex, next}
    Conds = {0, 1, 2, 3}
    MAX_TIME_SLICE = 1
INVARIANTS NeighboursNeverEat ForksExact MonitorExact
PROPERTIES AllQuit
