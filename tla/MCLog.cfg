SPECIFICATION LogFairSpec
CONSTANTS
    NoBlock = NoBlock
    Proc = {p1, p2}
    Block = {b1, b2, b3}
    Data = {0, 1}
    MAXOPBLOCKS = 2
    LOGSIZE = 4
    LogBlocks = 4
    OpBlocks = 1
INVARIANTS
    HasRoom
PROPERTIES
    AtomicSpec
    WaitersWake
