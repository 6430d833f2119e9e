-------------------------- MODULE DescriptorTable --------------------------
(***************************************************************************)
(* The descriptor table of internal/vitadescriptor.c: __fdmap maps a POSIX  *)
(* descriptor to an entry of __fdmap_pool, an entry holds the backend       *)
(* handle, its type and the number of references to it.  Every operator     *)
(* below named after a function of that file is its critical section under  *)
(* _fd_mutex, executed in one step; CanLock is the guard of that step.      *)
(* The backends (FIOS2, SceNet, SceIo, message pipes) are external: what is *)
(* kept of them is which handles of which family are open.                  *)
(***************************************************************************)
EXTENDS VitaError, FiniteSets

CONSTANTS
    MAX_OPEN_FILES,  \* size of __fdmap and of __fdmap_pool
    FirstFd,         \* 3: the standard descriptors are those below it
    Threads,         \* threads of the process
    NULL,            \* the null pointer
    NoThread,        \* "nobody" as an owner of _fd_mutex
    Uid,             \* backend handles, numbered independently by each family
    StdUid,          \* sceKernelGetStdin, ...Stdout, ...Stderr
    CloseErrors,     \* for each family, codes a close of an open handle may fail with
    BadHandle        \* the code every family gives for a handle not open

FD   == 0 .. MAX_OPEN_FILES - 1
Pool == 0 .. MAX_OPEN_FILES - 1     \* an entry is named by its index
Std  == 0 .. FirstFd - 1            \* STDIN_FILENO .. STDERR_FILENO
NoUid == 0                          \* the handle field of a zeroed entry

Kinds == {"io", "fh", "dh", "net", "msgpipe"}    \* handle families

ASSUME TableAssumption ==
    /\ FirstFd \in Nat
    /\ MAX_OPEN_FILES \in Nat /\ MAX_OPEN_FILES > FirstFd /\ MAX_OPEN_FILES > 1
    /\ NULL \notin Pool
    /\ IsFiniteSet(Threads) /\ NoThread \notin Threads
    /\ Uid \subseteq Nat /\ NoUid \notin Uid
    /\ StdUid \in [Std -> Uid]
    /\ \A i, j \in Std : StdUid[i] = StdUid[j] => i = j    \* a handle for each stream
    /\ BadHandle \in Int /\ BadHandle < 0
    /\ CloseErrors \in [Kinds -> SUBSET Int]
    /\ \A k \in Kinds : \A e \in CloseErrors[k] : e < 0

Types == {"FILE", "DIRECTORY", "SOCKET", "TTY", "PIPE"}

VARIABLES
    fdmap,      \* __fdmap
    sce_uid,    \* the fields of __fdmap_pool, one function per field
    type,
    ref_count,
    opened,     \* external: the open handles of each family
    lost,       \* entries still counted whose last reference is gone (ghost)
    owner       \* a thread that returned without unlocking _fd_mutex

(* The mutex is recursive and the other sections release it, so it is free  *)
(* between steps unless a thread left it locked, and free for that thread.  *)
CanLock(t) == owner \in {NoThread, t}

tableVars == <<fdmap, sce_uid, type, ref_count, opened, lost, owner>>

(* _init_fd: TTY descriptors for the standard streams, the rest zeroed.     *)
init_fd ==
    /\ fdmap     = [fd \in FD |-> IF fd \in Std THEN fd ELSE NULL]
    /\ sce_uid   = [p \in Pool |-> IF p \in Std THEN StdUid[p] ELSE NoUid]
    /\ type      = [p \in Pool |-> IF p \in Std THEN "TTY" ELSE "FILE"]
    /\ ref_count = [p \in Pool |-> IF p \in Std THEN 1 ELSE 0]
    /\ opened    = [k \in Kinds |-> IF k = "io" THEN {StdUid[i] : i \in Std} ELSE {}]
    /\ lost      = {}
    /\ owner     = NoThread

TableTypeOK ==
    /\ fdmap \in [FD -> Pool \cup {NULL}]
    /\ sce_uid \in [Pool -> Uid \cup {NoUid}]
    /\ type \in [Pool -> Types]
    /\ ref_count \in [Pool -> Nat]
    /\ opened \in [Kinds -> SUBSET Uid]
    /\ lost \in SUBSET Pool
    /\ owner \in Threads \cup {NoThread}

is_fd_valid(fd) == fd \in FD /\ fdmap[fd] # NULL

-----------------------------------------------------------------------------
(* __fd_drop(p), r being what the close of the last reference returns.      *)

(* The family whose close function the switch calls for a type.             *)
KindOf(ty) ==
    CASE ty = "TTY"       -> "io"
      [] ty = "FILE"      -> "fh"
      [] ty = "DIRECTORY" -> "dh"
      [] ty = "SOCKET"    -> "net"
      [] ty = "PIPE"      -> "msgpipe"

(* Whatever a close may return, and whether one of a family may fail.       *)
CloseResults == {0, BadHandle} \cup UNION {CloseErrors[k] : k \in Kinds}
MayFail(k)   == CloseErrors[k] # {}

(* External: closing an open handle succeeds or fails with a device error,  *)
(* closing anything else is refused.                                        *)
CloseReturns(p) ==
    IF ref_count[p] # 1 THEN {0}
    ELSE IF sce_uid[p] \in opened[KindOf(type[p])] THEN {0} \cup CloseErrors[KindOf(type[p])]
    ELSE {BadHandle}

(* Mutant: the handle goes while somebody else still refers to it.          *)
ClosesShared(p, r) == ref_count[p] <= 2 /\ r >= 0

Closes(p, r)  == ref_count[p] = 1 /\ r >= 0
Refused(p, r) == ref_count[p] = 1 /\ r < 0

fd_drop_result(p, r) ==
    IF ~Refused(p, r) THEN 0
    ELSE IF type[p] = "SOCKET" THEN -scenet_errno_to_errno(r)
    ELSE -sce_errno_to_errno(r)

RefAfterDrop(p, r) ==
    IF Refused(p, r) THEN ref_count ELSE [ref_count EXCEPT ![p] = @ - 1]

(* The memset of the entry, and the backend's side of the close.            *)
FieldsAfterDrop(p, r) ==
    IF Closes(p, r)
    THEN /\ sce_uid' = [sce_uid EXCEPT ![p] = NoUid]
         /\ type'    = [type EXCEPT ![p] = "FILE"]
         /\ opened'  = [opened EXCEPT ![KindOf(type[p])] = @ \ {sce_uid[p]}]
    ELSE UNCHANGED <<sce_uid, type, opened>>

LostAfterDrop(p, r) == IF Refused(p, r) THEN lost \cup {p} ELSE lost

fd_drop(p, r) ==
    /\ r \in CloseReturns(p)
    /\ ref_count' = RefAfterDrop(p, r)
    /\ FieldsAfterDrop(p, r)
    /\ lost' = LostAfterDrop(p, r)
    /\ UNCHANGED <<fdmap, owner>>

(* Mutant: the reference is handed out without being counted.               *)
fd_grab_uncounted(fd) ==
    is_fd_valid(fd) /\ UNCHANGED tableVars

fd_grab(fd) ==
    /\ is_fd_valid(fd)
    /\ ref_count' = [ref_count EXCEPT ![fdmap[fd]] = @ + 1]
    /\ UNCHANGED <<fdmap, sce_uid, type, opened, lost, owner>>

-----------------------------------------------------------------------------
(* Allocation takes the lowest free descriptor and the lowest free entry.   *)
FreeFd(fd, minfd) ==
    /\ fd \in FD /\ fd >= minfd /\ fdmap[fd] = NULL
    /\ \A g \in FD : g >= minfd /\ g < fd => fdmap[g] # NULL

(* Mutant: an entry with one reference counts as free.                      *)
FreeEntryOffByOne(p) ==
    /\ p \in Pool /\ ref_count[p] <= 1
    /\ \A q \in Pool : q < p => ref_count[q] > 1

FreeEntry(p) ==
    /\ p \in Pool /\ ref_count[p] = 0
    /\ \A q \in Pool : q < p => ref_count[q] # 0

(* Mutant: the entry is taken but not entered in the table.                 *)
acquire_unpublished(fd, p) ==
    /\ FreeFd(fd, FirstFd)
    /\ FreeEntry(p)
    /\ ref_count' = [ref_count EXCEPT ![p] = 1]
    /\ UNCHANGED <<fdmap, sce_uid, type, opened, lost, owner>>

(* The entry keeps whatever handle and type it last had.                    *)
acquire_descriptor(fd, p) ==
    /\ FreeFd(fd, FirstFd)
    /\ FreeEntry(p)
    /\ fdmap' = [fdmap EXCEPT ![fd] = p]
    /\ ref_count' = [ref_count EXCEPT ![p] = 1]
    /\ UNCHANGED <<sce_uid, type, opened, lost, owner>>

NoFreeDescriptor ==
    \/ \A fd \in FD : fd >= FirstFd => fdmap[fd] # NULL
    \/ \A p \in Pool : ref_count[p] # 0

(* The slot is cleared when __fd_drop's result is not negative, which is    *)
(* also so for a refused close whose code translates to 0 or to itself.     *)
release_descriptor(fd, r) ==
    /\ is_fd_valid(fd)
    /\ LET p == fdmap[fd]
       IN  /\ r \in CloseReturns(p)
           /\ ref_count' = RefAfterDrop(p, r)
           /\ FieldsAfterDrop(p, r)
           /\ IF fd_drop_result(p, r) >= 0
              THEN /\ fdmap' = [fdmap EXCEPT ![fd] = NULL]
                   /\ lost' = LostAfterDrop(p, r)
              ELSE UNCHANGED <<fdmap, lost>>
    /\ UNCHANGED owner

(* Mutant: the second descriptor is not counted.                            *)
duplicate_uncounted(fd, minfd, fd2) ==
    /\ is_fd_valid(fd)
    /\ FreeFd(fd2, IF minfd < FirstFd THEN FirstFd ELSE minfd)
    /\ fdmap' = [fdmap EXCEPT ![fd2] = fdmap[fd]]
    /\ UNCHANGED <<sce_uid, type, ref_count, opened, lost, owner>>

duplicate_descriptor(fd, minfd, fd2) ==
    /\ is_fd_valid(fd)
    /\ FreeFd(fd2, IF minfd < FirstFd THEN FirstFd ELSE minfd)
    /\ fdmap' = [fdmap EXCEPT ![fd2] = fdmap[fd]]
    /\ ref_count' = [ref_count EXCEPT ![fdmap[fd]] = @ + 1]
    /\ UNCHANGED <<sce_uid, type, opened, lost, owner>>

(* newfd is free: the inner __release_descriptor does nothing.              *)
duplicate_descriptor2_free(oldfd, newfd) ==
    /\ is_fd_valid(oldfd)
    /\ newfd \in FD /\ fdmap[newfd] = NULL
    /\ fdmap' = [fdmap EXCEPT ![newfd] = fdmap[oldfd]]
    /\ ref_count' = [ref_count EXCEPT ![fdmap[oldfd]] = @ + 1]
    /\ UNCHANGED <<sce_uid, type, opened, lost, owner>>

(* newfd is released first; nothing else happens if that fails.             *)
duplicate_descriptor2_over(oldfd, newfd, r) ==
    /\ is_fd_valid(oldfd) /\ is_fd_valid(newfd) /\ oldfd # newfd
    /\ LET p == fdmap[newfd]
       IN  /\ r \in CloseReturns(p)
           /\ fd_drop_result(p, r) >= 0
           /\ FieldsAfterDrop(p, r)
           /\ fdmap' = [fdmap EXCEPT ![newfd] = fdmap[oldfd]]
           /\ ref_count' = [RefAfterDrop(p, r) EXCEPT ![fdmap[oldfd]] = @ + 1]
           /\ lost' = LostAfterDrop(p, r)
    /\ UNCHANGED owner

(* oldfd = newfd: the early return leaves _fd_mutex locked.                 *)
duplicate_descriptor2_same(t, fd) ==
    /\ is_fd_valid(fd)
    /\ owner' = t
    /\ UNCHANGED <<fdmap, sce_uid, type, ref_count, opened, lost>>

=============================================================================
