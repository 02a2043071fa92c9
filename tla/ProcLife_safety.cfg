SPECIFICATION Spec
CONSTANTS
    idle = idle
    init = init
    u1 = u1
    u2 = u2
    u3 = u3
    null = null
    Procs <- ThreeUsers
    Idle <- idle
    Init_ <- init
    NULL <- null
    MAX_TIME_SLICE = 1
    MAX_PROCESS = 5
    Times = {1, 2}
    SyncThreads = 1
    Killable <- Users
    MaxKilled = 1
SYMMETRY UserSymmetry
INVARIANTS TypeOK RunQueueExact NoAssertFails TimerListExact FamilyExact NoLostChildExit
PROPERTIES ReapSafe SleepNotEarly
