SPECIFICATION Spec
CONSTANTS
    NPROC = 3
    NCPU = 2
    MaxPid = 3
    SleepArgs = {1}
    KillArgs = {0, 1, 2, 3}
    Quitters = {1, 2, 3}
INVARIANTS
    OneCpuPerProc
    SchedHoldsOnlyPtable
    NoMissedChildExit
    NoMissedTick
    ParentsAlive
    EmbryoOwned
    IInv
    KilledNotInWait
