SPECIFICATION FtFairSpec
CONSTANTS
    Proc = {p1, p2}
    initproc = p1
    NoProc = NoProc
    Byte = {0, 1}
    PIPESIZE = 2
    WORD = 4
    NFILE = 3
    NOFILE = 2
    Writes <- OneWrite
    Reads = {3}
    Dups = {1}
INVARIANTS
    RefCounts
    NoUseAfterFree
    NoMissedWakeup
PROPERTIES
    ChannelSpec
    ReaderSeesEnd
CHECK_DEADLOCK FALSE
