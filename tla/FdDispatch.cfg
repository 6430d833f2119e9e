SPECIFICATION Spec
CONSTANTS
    MAX_OPEN_FILES = 3
    FirstFd = 1
    Threads = {t1}
    NULL = NULL
    NoThread = NoThread
    Uid = {1}
    StdUid <- SmallStdUid
    NetErrno <- MCNetErrno
    BadHandle <- MCBadHandle
    CloseErrors <- EachTable
    CreateCalls = {"open", "open_dir", "socket", "pipe"}
    UseCalls <- AllCalls
    PollArrays <- Arrays
    Disciplined = TRUE
    SelfDup2 = TRUE
    DirAsFile = FALSE
INVARIANTS UseLive CellsExact
CHECK_DEADLOCK FALSE
