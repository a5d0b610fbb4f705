SPECIFICATION MlfqFairSpec
CONSTANTS
    NPROC = 3
    NCPU = 1
    MaxPid = 3
    SleepArgs = {}
    KillArgs = {2}
    Quitters = {2}
    MAXPRIORITY = 2
    DEFAULT_BUDGET = 1
    TICKS_TO_PROMOTE = 3
    PriorityArgs = {0, 1, 2}
INVARIANTS
    MlfqTypeOK
PROPERTIES
    WorkConserving
    MlfqEveryoneRuns
