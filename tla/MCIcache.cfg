SPECIFICATION IcSpec
CONSTANTS
    Proc = {p1, p2}
    NoProc = NoProc
    Name = {a, b}
    NINODES = 2
    NINODE = 2
    LinkTo = {a, b, "."}
INVARIANTS
    InodeRefs
    LinkCounts
    InUseIsAllocated
    OnlyDirPutDeadlocks
SYMMETRY Symmetry
CHECK_DEADLOCK FALSE
