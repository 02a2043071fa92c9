SPECIFICATION Spec
CONSTANTS
    idle = idle
    u1 = u1
    u2 = u2
    Procs <- TwoUsers
    Idle <- idle
    MAX_TIME_SLICE = 1
    STDIN_BUFSIZE = 2
    Lens = {1, 2}
    CONSBUFSIZE = 3
    Scripts <- InputScripts
    MaxDrained = 1
    MaxBurst = 2
SYMMETRY UserSymmetry
INVARIANTS RingExact ConsoleExact KeysExact WaitersExact
\* Ctrl-Alt-Del stops the system.
CHECK_DEADLOCK FALSE
