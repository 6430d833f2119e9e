SPECIFICATION Spec
CONSTANTS
    Threads = {t1}
    NoThread = NoThread
    Uids = {u1, u2}
    PoolUid = PoolUid
    MMAN_MAX_REGIONS = 2
    AddrSpace = 6
    VmBase = 1
    MMAN_VM_POOL_SIZE = 1
    HaveKubridge = TRUE
    Lens = {1, 3}
    GrowLens = {2}
    Hints = {0, 2}
    Prots <- NoneToo
    Calls = {"mmap_anon", "munmap", "mprotect", "madvise", "module_stop"}
    Disciplined = TRUE
INVARIANTS ProtectionKnown FaultsOnlyCopying
SYMMETRY Symmetry
