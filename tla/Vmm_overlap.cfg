SPECIFICATION Spec
CONSTANTS
    p1 = p1
    p2 = p2
    null = null
    NULL <- null
    Procs <- TwoProcs
    USERBASE = 1
    USERTOP = 7
    Vmas = {1, 2, 3, 4}
    NrPages = 6
    Programs <- SomePrograms
    USTACKPAGE = 2
    StackMapped = 1
    BrkRandom = {0, 1}
    StackRandom = {0}
    Brks = {3, 4, 5, 6}
INVARIANT NoAssertFails
CHECK_DEADLOCK FALSE
