SPECIFICATION Spec
CONSTANTS
    MAX_OPEN_FILES = 3
    FirstFd = 1
    Threads = {t1}
    NULL = NULL
    NoThread = NoThread
    Uid = {1}
    StdUid <- SmallStdUid
    NetErrno <- MCNetErrno
    BadHandle <- MCBadHandle
    CloseErrors <- NoErrors
    CreateCalls = {"socket"}
    UseCalls = {"writev"}
    PollArrays <- NoArrays
    Disciplined = FALSE
    SelfDup2 = FALSE
    DirAsFile = FALSE
INVARIANT WritevReachesDescriptor
CHECK_DEADLOCK FALSE
