SPECIFICATION ClientsSpec
CONSTANTS
    idle = idle
    c1 = c1
    c2 = c2
    c3 = c3
    c4 = c4
    s1 = s1
    s2 = s2
    none = none
    Procs <- FourClients
    Idle <- idle
    Sems <- TwoSems
    NONE <- none
    MAX_TIME_SLICE = 1
    MaxValue = 2
SYMMETRY ClientSymmetry
INVARIANT WaitQueueExact
PROPERTIES Implements
