SPECIFICATION Spec
CONSTANTS
    Threads = {t1, t2}
    NoThread = NoThread
    Uids = {u1, u2}
    PoolUid = PoolUid
    MMAN_MAX_REGIONS = 2
    AddrSpace = 6
    VmBase = 1
    MMAN_VM_POOL_SIZE = 1
    HaveKubridge = TRUE
    Lens = {1, 3}
    GrowLens = {1}
    Hints = {0}
    Prots <- OneProt
    Calls = {"mmap_anon", "mmap_file", "munmap", "mremap_maymove", "mremap_fixed"}
    Disciplined = TRUE
INVARIANTS ReservationsExact LeakedOnlyByFullTable HeldBacked FaultsOnlyCopying
SYMMETRY Symmetry
