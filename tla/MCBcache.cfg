SPECIFICATION BcacheFairSpec
CONSTANTS
    Proc = {p1, p2}
    Buf = {x1, x2}
    Block = {k1, k2, k3}
    Data = {0, 1}
    NoProc = NoProc
    NoBlock = NoBlock
    NoBuf = NoBuf
INVARIANTS
    BreadReturns
    CleanIsOnDisk
PROPERTIES
    StoreSpec
    SleepersWoken
