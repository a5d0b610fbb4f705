SPECIFICATION ConsSpec
CONSTANTS
    Proc = {p1, p2}
    NoProc = NoProc
    NCPU = 2
    Lock = {"ptable", "cons"}
    INPUT_BUF = 2
    WORD = 4
    Keys = {"x", "newline", "eof", "killline", "backspace", "listing"}
    ReadArgs = {2}
INVARIANTS
    LocksMaskInterrupts
    IntenaFollowsThread
    InputInBounds
    NoMissedInput
    OnlyGetpinfoDeadlocks
SYMMETRY Symmetry
CHECK_DEADLOCK FALSE
VIEW LiveState
