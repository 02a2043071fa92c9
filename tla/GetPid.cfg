SPECIFICATION PidFairSpec
CONSTANTS
    MAX_PROCESS = 6
    MAX_PID = 8
INVARIANTS PidsUnique
PROPERTIES GetPidReturns Implements
