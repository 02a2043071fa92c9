SPECIFICATION FairSpec
CONSTANTS
    idle = idle
    init = init
    u1 = u1
    u2 = u2
    u3 = u3
    null = null
    Procs <- TwoUsers
    Idle <- idle
    Init_ <- init
    NULL <- null
    MAX_TIME_SLICE = 2
    MAX_PROCESS = 4
    Times = {1, 2}
    SyncThreads = 1
    Killable <- OneUser
    MaxKilled = 1
PROPERTIES RunnableRuns SleeperWakes InitReaps KilledExitsOrWaits
