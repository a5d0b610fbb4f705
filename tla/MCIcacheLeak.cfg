SPECIFICATION IcSpec
CONSTANTS
    Proc = {p1, p2}
    NoProc = NoProc
    Name = {a, b}
    NINODES = 2
    NINODE = 2
    LinkTo = {a, b}
INVARIANT NoInodeLeak
CHECK_DEADLOCK FALSE
