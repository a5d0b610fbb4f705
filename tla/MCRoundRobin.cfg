SPECIFICATION RRFairSpec
CONSTANTS
    NPROC = 3
    NCPU = 1
    MaxPid = 3
    SleepArgs = {2}
    KillArgs = {2}
    Quitters = {3}
PROPERTIES
    BoundedBypass
    EveryoneRuns
    KilledExits
    SleepersReturn
