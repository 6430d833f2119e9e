SPECIFICATION FairSpec
CONSTANTS
    MAX_OPEN_FILES = 3
    FirstFd = 1
    Threads = {t1, t2}
    NULL = NULL
    NoThread = NoThread
    Uid = {101, 102}
    StdUid <- MCStdUid
    NetErrno <- MCNetErrno
    BadHandle <- MCBadHandle
    CloseErrors <- NoErrors
    CreateCalls = {"socket"}
    UseCalls = {"accept"}
    PollArrays <- OneArray
    Disciplined = TRUE
    SelfDup2 = FALSE
    DirAsFile = FALSE
INVARIANT PollLive
PROPERTY CallReturns
