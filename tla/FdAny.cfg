SPECIFICATION Spec
CONSTANTS
    MAX_OPEN_FILES = 3
    FirstFd = 1
    Threads = {t1, t2}
    NULL = NULL
    NoThread = NoThread
    Uid = {101}
    StdUid <- MCStdUid
    NetErrno <- MCNetErrno
    BadHandle <- MCBadHandle
    CloseErrors <- Masked
    CreateCalls = {"pipe"}
    UseCalls = {"recv"}
    PollArrays <- NoArrays
    Disciplined = FALSE
    SelfDup2 = FALSE
    DirAsFile = TRUE
INVARIANTS TypeOK RefCountExact NoDangling
CHECK_DEADLOCK FALSE
SYMMETRY Symmetry
