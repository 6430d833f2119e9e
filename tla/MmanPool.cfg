SPECIFICATION FairSpec
CONSTANTS
    Threads = {t1, t2}
    NoThread = NoThread
    Uids = {u1}
    PoolUid = PoolUid
    MMAN_MAX_REGIONS = 2
    AddrSpace = 7
    VmBase = 1
    MMAN_VM_POOL_SIZE = 3
    HaveKubridge = FALSE
    Lens = {1, 3}
    GrowLens = {2}
    Hints = {0}
    Prots <- OneProt
    Calls = {"mmap_anon", "munmap", "mremap_maymove", "store"}
    Disciplined = TRUE
INVARIANTS HeldMapped ContentsKept
PROPERTY CallEnds
