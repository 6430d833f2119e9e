SPECIFICATION FairSpec
CONSTANTS
    MAX_OPEN_FILES = 3
    FirstFd = 1
    Threads = {t1, t2}
    NULL = NULL
    NoThread = NoThread
    Uid = {101}
    StdUid <- MCStdUid
    NetErrno <- MCNetErrno
    BadHandle <- MCBadHandle
    CloseErrors <- NoErrors
    CreateCalls = {"socket"}
    UseCalls = {"recv"}
    PollArrays <- NoArrays
    Disciplined = TRUE
    SelfDup2 = TRUE
    DirAsFile = FALSE
PROPERTY CallReturns
CHECK_DEADLOCK FALSE
