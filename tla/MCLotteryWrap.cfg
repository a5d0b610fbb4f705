SPECIFICATION LotterySpec
CONSTANTS
    NPROC = 2
    NCPU = 1
    MaxPid = 2
    SleepArgs = {}
    KillArgs = {}
    Quitters = {2}
    INT_MAX = 3
    Seeds <- AllSeeds
    TicketArgs = {2}
INVARIANTS
    IdleMeansNobody
