SPECIFICATION Spec
CONSTANTS
    MAX_OPEN_FILES = 2
    FirstFd = 0
    Threads = {t1, t2}
    NULL = NULL
    NoThread = NoThread
    Uid = {101, 102}
    StdUid <- NoStd
    NetErrno <- MCNetErrno
    BadHandle <- MCBadHandle
    CloseErrors <- DirPipeErrors
    CreateCalls = {"open", "open_dir", "pipe"}
    UseCalls = {"read", "rewinddir"}
    PollArrays <- NoArrays
    Disciplined = TRUE
    SelfDup2 = FALSE
    DirAsFile = FALSE
INVARIANTS HeldLive NoAlias OrphanSlotsArePipes NoFault
PROPERTY StrandedByEmfileOrClose
SYMMETRY Symmetry
