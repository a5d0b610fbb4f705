SPECIFICATION MlfqSpec
CONSTANTS
    NPROC = 3
    NCPU = 1
    MaxPid = 3
    SleepArgs = {}
    KillArgs = {2}
    Quitters = {2}
    MAXPRIORITY = 1
    DEFAULT_BUDGET = 2
    TICKS_TO_PROMOTE = 2
    PriorityArgs = {1, 2}
INVARIANTS
    NoLockInUserMode
