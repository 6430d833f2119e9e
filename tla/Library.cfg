SPECIFICATION LibrarySpec
CONSTANTS
    NULL = NULL
    Threads = {t1, t2, t3}
    Racers = {t1, t2}
    \* network initialisation and resolver
    Blocks = {b1, b2}
    Hosts = {h1, h2}
    Lists = {l1, l2}
    \* environment
    Names = {A, B}
    Values = {v1, v2}
    Strings = {1, 2, 3}
    StartArrays <- MCStartArrays
    \* signals
    NSIG = 2
    Handlers = {f1}
    Tables = {b1, b2}
    \* random numbers
    N = 5
    Lag = 3
    MaxRandom = 7
    \* directory streams
    Streams = {d1, d2}
    Descriptors = {0, 3}
    Entries = 3
    MaxIndex = 5
    \* paths
    Drives = {"d:", "ux:"}
    DirNames = {"a", "dirs"}
    Length <- MCLength
    DefaultDrive = "d:"
    PATH_MAX = 9
    MaxTokens = 3
    \* addresses as text
    InetWords = {0, 1, 65535}
    MaxGroups = 10
    ByteBase = 16
    PartValues = {0, 1, 15, 16, 255, 256, 4095, 4096, 65535, 65536}
    \* poll and select
    Sockets = {"s1", "s2"}
    MaxPolled = 2
INVARIANTS
    LibraryTypeOK
    PoolExact ReadyUnlessFailed
    ListsHeld AnswersTheQuestion
    EnvStringsExact
    HandlersKept
    LagKept
    TellIsPosition ScanWhole
    ResolvedExact
    NtopExact PtonExact AtonExact
    ReadyCounted
SYMMETRY LibrarySymmetry
PROPERTY
    EnvImplementsMap
