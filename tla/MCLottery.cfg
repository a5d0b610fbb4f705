SPECIFICATION LotteryFairSpec
CONSTANTS
    NPROC = 2
    NCPU = 2
    MaxPid = 3
    SleepArgs = {}
    KillArgs = {}
    Quitters = {2}
    INT_MAX = 3
    Seeds <- AllSeeds
    TicketArgs = {0, 2}
INVARIANTS
    
    TicketsHeld
PROPERTIES
    LostPassIsStale
    KeepsBusy
