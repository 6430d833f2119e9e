SPECIFICATION Spec
CONSTANTS
    Threads = {t1, t2}
    NoThread = NoThread
    Uids = {u1}
    PoolUid = PoolUid
    MMAN_MAX_REGIONS = 2
    AddrSpace = 8
    VmBase = 1
    MMAN_VM_POOL_SIZE = 3
    HaveKubridge = FALSE
    Lens = {0, 1, 7}
    GrowLens = {3}
    Hints = {0}
    Prots <- OneProt
    Calls = {"mmap_anon", "munmap", "mremap_maymove", "madvise"}
    Disciplined = FALSE
INVARIANTS TypeOK RegionsDisjoint RegionsInside
SYMMETRY Symmetry
