# SceLibcPosix in TLA+

SceLibcPosix adds the POSIX half of a C library to the PS Vita's SceLibc. Files
and directories go to SceFios2, sockets to SceNet, the terminal to SceIo and
pipes to the kernel's message pipes. A table of descriptors stands in front of
them. This directory holds a TLA+ model of the parts of the library that keep
state, the TLC runs that check it and the TLAPS proofs about it.

## Inventory

| Component | State | Operations | Hard part | What makes it correct |
|---|---|---|---|---|
| Descriptor table (`internal/vitadescriptor.c`) | `__fdmap`, `__fdmap_pool` (handle, type, reference count), `_fd_mutex` | acquire, release, duplicate, duplicate onto, grab, drop | threads; a close that fails | counts are exact; an entry in use is not reused; every call returns |
| Creating calls (open, creat, opendir, socket, accept, pipe) | locals between backend call and publication | backend call, acquire, two unlocked stores | the window between acquire and the stores; a full table | no fault, no lost handle |
| Using calls (some forty in `unistd`, `stat`, `network`, `dirent`, `fnctl`) | one reference | grab, backend call by type, drop | close by another thread; choice of the backend | the handle is open and of the right family |
| poll, select | one reference per element | scan, wait, unlock | long wait with references held; events of two sources in one count | waiting handles stay open; references balance; the result counts what is reported |
| Directory streams | `DIR.index`, the handle in the entry | readdir, rewinddir, seekdir, scandir | rewinddir swaps handles unlocked; seekdir after a failing rewind; errors inside scandir | one open handle per stream; the index is the position; lists are whole |
| Error translation (`internal/vitaerror.c`) | none | three tables | results whose sign is tested | a failure stays a failure |
| Network start (`internal/vitanet.c`) | `_net_initialized`, `_net_memory` | `_net_init` | concurrent callers, failing steps, the application's own start | memory not freed under SceNet unless it refuses to stop, not leaked |
| Memory mapping (`internal/vitamman.c`, `mman/`) | sorted region table, VM pool, reservations | map, unmap, resize, protect, discard | splitting with a full table, multi-step mremap | regions disjoint, reservation freed with its last region |
| Paths (`internal/vitafs.c`) | `__cwd` | realpath, chdir, getcwd | path normalisation within buffers, one of them a byte short; unguarded `__cwd` | the path that was meant, or none |
| Environment (`env/`) | `environ`, owned strings | setenv, putenv, unsetenv, clearenv | who owns which string | no double free, no leak |
| Signals, random numbers | a table built on first use, two indices | signal, random | unguarded state | no lost handler; indices in range, at their distance |
| Names (`network/getaddrinfo.c`) | the static buffer of gethostbyname, `*res` of the caller | getaddrinfo, freeaddrinfo | a failing allocation after half the work; the buffer is shared | lists freed once; the answer is that of the question |
| Addresses (`network/inet_*`) | none | conversions | runs of zeros, short forms | inverse of each other; exactly the well-formed texts |
| Start and stop (`prx.c`) | | module_start, module_stop | stop with descriptors in use | |

The components meet in the descriptor table: mmap reads files through `pread`,
directory streams are descriptors, the network functions start SceNet and then
use the table. `PROJECT.json` lists every component, modelled or not, and the
hazards, each at its line.

## Modules

| Module | What it models |
|---|---|
| `VitaError` | the translation of error codes, as far as its sign decides something |
| `DescriptorTable` | the table; one operator for each critical section |
| `Dispatch` | for each call and descriptor type, the backend family the handle is given to |
| `FdCalls` | the calls, as steps of threads over the table; all descriptor properties |
| `MCFdCalls` | values for TLC |
| `FdCallsProofs` | the inductive invariant and the theorems for any application |
| `FdHeldProofs` | what holds for a disciplined application besides: handles and their holders |
| `LibcThreads` | the threads and the null pointer, which the modules below share |
| `NetInit` | `_net_init`, its callers and an application that starts SceNet itself |
| `Resolver` | getaddrinfo and gethostbyname, composed with `NetInit` |
| `EnvMap` | what the environment promises: a map from names to values |
| `Environ` | setenv, putenv, unsetenv, clearenv and getenv, shown to implement `EnvMap` |
| `Signals` | signal and its handler table |
| `RandomNumbers` | the two indices of random |
| `DirStreams` | the index of a `DIR` and the position of its handle; scandir |
| `Paths` | `__realpath`, chdir, getcwd |
| `Inet` | inet_ntop, inet_pton of IPv6 addresses, inet_aton |
| `PollResults` | what poll and select answer |
| `Library`, `MCLibrary` | these parts together, and their values for TLC |
| `PathsProofs` | proofs about `Paths`: the loop of `__resolve_path` and its answer |
| `InetProofs` | proofs about `Inet`: addresses written and read back, texts read |
| `UnguardedProofs` | proofs about `Environ`, which implements `EnvMap`, `Signals` and `RandomNumbers` |
| `LibraryProofs` | proofs about `NetInit`, `Resolver`, `DirStreams` and `PollResults`, and about all these parts composed |
| `Mman` | the region table, the VM pool and the reservations of kubridge; mmap, munmap, mprotect, madvise, mremap and `__fini_mman` |
| `MCMman` | values for TLC |
| `MmanProofs` | the inductive invariant of the region table and its theorems |
| `MmanHeldProofs` | what becomes of the pages the application mapped: kept, backed, not leaked, their contents |

### From the code to the state

`fdmap`, `sce_uid`, `type` and `ref_count` are the table and the fields of the
pool; an entry is named by its index. `opened` is the backends' state: the open
handles of each family, numbered independently. `owner` is the thread that
returned with `_fd_mutex` locked, if one did; otherwise the mutex is free
between steps, since a critical section is one step. `lost` (a ghost) holds the
entries that still count a reference nobody has, because the close of the last
one failed.

A call is a thread walking through `pc`. Between steps other threads run. The
step boundaries are the code's: a critical section, a backend call, an unlocked
load or store of an entry. `lock[<<t, i>>]` are the references a thread holds:
the array `lock` of poll and select, and cell 0 (and 1 for the nested call of
the vector functions) for the calls that hold one. `owned` is what the
application holds: descriptors it was given and did not close.

The calls that only differ in the backend function share the actions `Grab`,
`Use`, `Drop`; `Dispatch` has a row for each. A call that fails without having
changed anything stutters. So does the raw FIOS access that read, write, lseek,
fstat, readv, writev and poll fall back to for a number that is no descriptor.
The stores that publish an entry may use the pointer loaded once or twice, as
the compiler likes: both are allowed.

In `NetInit` each library call of `_net_init` is a step that may fail,
`sceNetTerm` among them (`sceNetTermFails`: SceNet runs on and the next step
frees its pool). At most one thread is in the body, so `_net_memory` stands also
for the local copy of it.

`Resolver` extends `NetInit`: a thread in gethostbyname walks through
`net_init` of that module first. `asked`, `res` and `lists` are the node, the
caller's pointer (which may start uninitialised, `"junk"`) and the allocated
lists; `saddr` is the static buffer of gethostbyname, whose contents are named
by the host they belong to. hints, service and port only choose fields of the
answer or refuse the call before anything has changed.

In `Environ` strings have addresses that malloc hands out again. `environ` is
the array, `env_alloced` the slots of `__env_rm_add`; `app` are the strings of
the application, which it may pass to putenv and frees when they are no longer
in the environment. Each function is one action: they are not thread safe.

`Signals` and `RandomNumbers` are the opposite: every access to the unguarded
variables is a step, and ghosts (`raced`, `overlapped`) remember whether calls
ever overlapped where they must not.

`DirStreams` has `position`, how many entries were read from the handle of a
descriptor, and `stream`, the `DIR`s with descriptor and index. scandir is the
one function whose turns are steps. In `Paths` a path is an optional drive, an
optional slash and a sequence of tokens; characters only count where the code
compares a length. `before` is the byte in front of the buffer that
`__resolve_path` reads for `drive:name`, `wild` the write through strrchr's
NULL that can follow. In `Inet` a text is cut at its colons or dots into the
numbers it stands for. `PollResults` has the array or the sets, what the
descriptors are, and any events that epoll may report for them.

`Library` puts them side by side. They share no variable (but for `Resolver`
and `NetInit`), so a behaviour exercises one part, chosen in the initial state,
and the product of unrelated states is not explored.

In `Mman` addresses and lengths are counted in pages, modulo `AddrSpace`.
`regions` is `_regions` up to `_region_count`; `blocks` and `backing` are the
kernel's reservations and committed pages with their protection, `mem` the
contents of the pages (zero or not). A critical section of `_mman_mutex` is one
step, but for the loops of `_vm_pool_alloc` and `__mman_unmap`: their
iterations are steps of the thread that has `mutex`, because what they rely on
(the order of the table, the cursor after a removal) has to hold at each of
them. mmap and mremap are several sections with the fill or the copy between
them, outside the mutex. The ghosts `hold` and `expect` are what the
application mapped and what it must find there; `holes`, `diverged` and
`stranded` are the pages that failing or partial calls left without memory,
with a protection the table does not know, or mapped without an owner. Calls
that only look at the table (mincore, mlock, msync and others) stutter.

### Parameters of the application

- `Disciplined = FALSE`: threads name any descriptor, at any time.
- `Disciplined = TRUE`: threads name descriptors they hold (shared between
  them, so one may close what another is using), make a `DIR` only of a
  directory, and do not use a stream while it is rewound, which POSIX leaves to
  the application.
- In `Mman`, `Disciplined = TRUE` means that a thread names pages that it mapped
  itself; otherwise it names any pages.
- `SelfDup2`: whether `dup2(fd, fd)` is called. It is a parameter of its own
  because of what it does to everyone else (below).
- `DirAsFile`: whether FIOS opens a directory as a file.

## Runs

| Run | Checks | Result |
|---|---|---|
| `table_any` | `TypeOK`, `RefCountExact`, `NoDangling`; two undisciplined threads, pipes, recv, closes of terminals failing with an error that translates to 0 | holds |
| `held_files` | `HeldLive`, `NoAlias`, `OrphanSlotsArePipes`, `NoFault`, `StrandedByEmfileOrClose`; two threads, files, directories, pipes, rewinddir; the close of a directory or a pipe may fail | holds |
| `held_net` | `PollLive` and, with fairness, `CallReturns`; two threads, sockets, accept, poll | holds |
| `dispatch` | `UseLive`, `CellsExact`; one thread, every call on every type, poll, select, nested calls, closes failing with translated, masked and unknown errors, `dup2(fd, fd)` | holds |
| `library_parts` | the parts of `Library`: | holds |
| ... network | `PoolExact`, `ReadyUnlessFailed`; three threads, every step failing | |
| ... resolver | the same and `ListsHeld`, `AnswersTheQuestion`; two threads, two names | |
| ... environment | `EnvStringsExact`, and the refinement `EnvImplementsMap` | |
| ... signals, random | `HandlersKept`, `LagKept`; two threads | |
| ... streams | `TellIsPosition`, `ScanWhole` | |
| ... paths | `ResolvedExact` | |
| ... addresses | `NtopExact`, `PtonExact`, `AtonExact` | |
| ... poll, select | `ReadyCounted` | |
| `mman_any` | `TypeOK`, `RegionsDisjoint`, `RegionsInside`; two undisciplined threads in the pool, lengths of 0 and across the end of the pool | holds |
| `mman_pool` | `HeldMapped`, `ContentsKept` and, with fairness, `CallEnds`; two disciplined threads in the pool, moves, stores and a full table | holds |
| `mman_kubridge` | `ReservationsExact`, `LeakedOnlyByFullTable`, `HeldBacked`, `FaultsOnlyCopying`; two threads on reservations, failing reads, moves to fixed addresses | holds |
| `mman_protect` | `ProtectionKnown`, `FaultsOnlyCopying`; PROT_NONE, mprotect of parts, refusing kernels, fixed addresses, module_stop | holds |
| `dup2_same` | `CallReturns` with `dup2(fd, fd)` | violated: the early return keeps `_fd_mutex` |
| `writev_target` | `WritevReachesDescriptor` | violated: the handle is used as a descriptor |
| `net_reinit` | `TornDownCanBeReinited` | violated: the flag is never reset |

One more disagreement has no run of its own: `open.c:27` says "if O_DIRECTORY
passed - check that path is indeed dir", but `open` takes the file branch for
any other path and succeeds. `Open` follows the code.

What the passing properties say about the code, including what they concede:

- `RefCountExact`, `NoDangling`: the count decides alone when a handle is
  closed and when an entry is reused. They hold for any application. A close
  that fails costs an entry for good (`lost`), but never frees one in use.
- `HeldLive`, `NoAlias`: closing one's own descriptor never harms another.
- `NoFault` holds only for a disciplined application; an undisciplined one
  reaches `Fault`, the NULL dereference of the publication window.
- `StrandedByEmfileOrClose`: of a family whose closes succeed the one leak is
  that of socket and accept when the table is full. Where they may fail, three
  more places lose a handle: the cleanup of open and pipe in a full table and
  the exchange in rewinddir, which do not look at the result, and the last drop
  of an entry, which keeps the entry counted (`lost`). `OrphanSlotsArePipes`:
  the one slot nobody knows is that of a pipe whose second descriptor could not
  be had.
- `UseLive` lists in `Mismatched` the calls that do not fit the type: the
  network and dirent functions do not look at it, `pread` and `pwrite` hand
  sockets and pipes to SceIo, `fstatvfs` a file handle to the directory
  functions, `fchmod` and `utimensat` a terminal to the file functions.
- `RegionsDisjoint`, `RegionsInside`, `ReservationsExact`: the table is right
  whatever ranges are unmapped, in whatever order, and a reservation goes with
  its last region.
- `HeldMapped`, `LeakedOnlyByFullTable`, `HeldBacked`: a thread keeps what it
  mapped. Two things are conceded, both when a region has to be split and the
  table is full: munmap fails after it decommitted the pages (`holes`), and
  mremap does not notice and leaves the old pages mapped (`stranded`). madvise
  makes holes, too, if the new commit fails.
- `ContentsKept`: stores, file contents and zeros survive moves and the
  mappings of others. Pages that mremap adds are zero when the region grows in
  place, but hold anything when it moves (`"any"` in `expect`). madvise clears
  only up to the end of the first region of its range.
- `ProtectionKnown`: the recorded protection is the real one, but where
  mprotect named a part of a region, or was refused after the table was
  changed. There a later madvise or mremap brings the recorded one back.
- `FaultsOnlyCopying`: the memset and pread of mmap never hit a protected page;
  the memcpy of mremap faults on a page that is PROT_NONE or a hole.
- `PoolExact`: no block of `_net_init` is leaked, whichever step fails. `free`
  takes the pool from a running SceNet only if sceNetTerm failed, whose result
  `_net_init` ignores (`"term_failed"`).
- `ReadyUnlessFailed`: a caller that loses the compare-and-swap may find the
  network down while the winner is still at work.
- `ListsHeld` promises that nothing but lists is freed only to callers that set
  their pointer to NULL before they ask for a name. For others, a malloc that
  fails frees whatever was there (`careless`). `AnswersTheQuestion` concedes the
  answers that another thread's gethostbyname overwrote (`disturbed`).
- `EnvStringsExact`, `EnvImplementsMap` (each function is its own operation of
  `EnvMap`): whoever made the strings
  and whatever addresses come back from malloc, getenv finds what was set last,
  only strings of setenv are freed, and all of them. Conceded: a string for
  which no slot could be had (`untracked`) is never freed.
- `HandlersKept`, `LagKept`: without overlapping calls the
  state is right; with them a handler can be lost, an unwritten one returned, a
  NULL table used, and an index of random run past the table.
- `TellIsPosition`: seekdir of what telldir returned leads back to the same
  entry, also after rewinds that fail, unless streams share a handle.
- `ScanWhole`: scandir's list is right if no error broke the loop off. One that
  did is cleared by closedir, and the part is returned as the whole.
- `ResolvedExact`: `__realpath` returns exactly the path
  that was meant and refuses none that fits. Conceded: `drive:name`; an
  absolute path that does not fit into the buffer `left`, which becomes the
  root of its drive; and a relative path whose length and that of the working
  directory add up to `PATH_MAX - 1`. Its NUL is written behind `full_path`.
  What happens then depends on what the compiler put there: nothing
  (`Realpath` answers as usual) or anything (`SmashStack`, after which
  nothing is claimed).
- `PtonExact`: conceded are one colon after the last number, and `::` among
  eight words, which clears the words behind it. `AtonExact`: a single number
  beyond 32 bits saturates.
- `ReadyCounted`: of two elements with the same socket only the first reports;
  select without a set for errors writes through a
  NULL pointer when epoll reports one; HUP alone reports nothing.

### Bounds

In all runs but `held_files`, three slots and three entries, the first of them a
standard descriptor (`FirstFd = 1` for the code's 3): room for two descriptors
and for the table to be full, which is where allocation, pipe and dup fail. Two
threads are one to use and one to close; the third would add no new pair of
steps on an entry. One or two handles for each family, so that a closed number
is given out again. Handles are outside the range of descriptors, but in
`dispatch` and `writev_target`, where the nested call needs the handle to be
one. Poll arrays have two elements in `dispatch`, one of them negative or both
descriptors, and one in `held_net`. Which closes may fail is a set of codes for
each family (`CloseErrors`), and each run has the families that matter to it,
since handles and entries that leak multiply the states. In `table_any` the
close of a terminal fails with an error that translates to 0; in `dispatch`
those of terminals, files and sockets, each with an error that its translation
knows and one that it does not or turns into 0; in `held_net` none. In
`held_files` the closes of directories and pipes fail, which rewinddir and the
cleanups of open and pipe ignore; those of files succeed, so that the cleanup of
open is held to giving its handle back. That run leaves the standard descriptor
aside (`FirstFd = 0`): two slots and two entries are again room for two
descriptors and for a full table. Symmetry is used over the threads where only
safety is checked. `CHECK_DEADLOCK` is off where the process may really stop:
after a fault, after a thread kept the mutex, or when an undisciplined
application has closed everything while the only handle is stranded.

For `Mman` a table of two regions is full as soon as a split is wanted, and a
pool of three pages has room for a region with a head, a middle and a tail, and
for a gap too short for a second one. Reservations lie anywhere in six pages,
where a move can also find the table full (`stranded`). The lengths 1 and 3
give cuts of each kind; 0 and lengths across the end of the address space occur
in `mman_any`. Two reservations are enough for one to be split while the other is
free. Contents and protections matter by page, so that six to eight pages keep
the runs below a million states.

In `Library`, two threads are enough for the races, which are between pairs of
accesses; the network, with few states, has three. Two strings of the
application and three addresses let a name occur twice and an address come
back. A table of two handlers shows an element that is still unwritten behind
one that is written; a random table of five with distance three wraps both
indices several times. Directories have three entries (scandir's list grows
twice), indices go to five, past the end; descriptor 0 is one of the two.
Paths have up to three tokens, names of one and four characters and `PATH_MAX`
nine, so that texts exceed each of the buffers, with and without the drive.
Addresses have any words of 0, 1 and ffff; texts up to ten groups, one more
than `::` with eight numbers needs; inet_aton counts in bytes of base 16, with
the numbers at each side of each power. poll arrays have two elements and
select two descriptors of any kind, the same socket among them. The run uses
symmetry over the racing threads, the names and values of the environment, and
the hosts and lists of the resolver; it checks safety only.

### Fairness

`FairSpec` asks for weak fairness of each thread's next step within a call: the
scheduler runs every ready thread, a kernel mutex that is free is obtained, and
a backend call or a wait returns. The last is what the caller of a blocking
read or of poll without timeout has to provide; no fairness is asked of the
application's own decisions to make calls.

`FairSpec` of `Mman` asks for strong fairness of each thread's step within a
call. A thread that waits for `_mman_mutex` finds it free and taken again as
another passes through its loops; the kernel queues the waiting threads in
order of arrival (`__init_mman` asks for no other attribute than recursion), so
that a thread that can proceed infinitely often does.

## Proofs

`FdCallsProofs` proves for every table size, every finite set of threads, every
set of calls and every application, disciplined or not:

- `TypeCorrect`: `Spec => []TypeOK`;
- `RefCountCorrect`: `Spec => []RefCountExact`;
- `NoDanglingCorrect`: `Spec => []NoDangling`;
- `CellsCorrect`: `Spec => []CellsExact`.

They rest on one inductive invariant `IInv`. `RefCountExact` alone is not
inductive: a drop lowers the count of the entry in a cell, which is right only
if the cell holds a reference (`CellsExact`, by the place in the function) and
the count is not that of an entry already given up (`LostOnce`: such an entry
counts exactly one). `CellsExact` in turn needs the loop index of poll within
its array and the array shorter than the table (`Locals`). The proof has a
lemma for each critical section (`GrabStep`, `DropStep`, `AcquireStep`,
`DupStep`, `ReleaseStep`, `Dup2OverStep`) that counts references before and
after, and one for each action of `FdCalls`. The counting rests on five lemmas
about the cardinality of the cells that hold a value.

The assumptions are those of the modules: `TableAssumption` (the sizes, NULL is
no entry, error codes are negative), `CallsAssumption` (poll arrays are shorter
than the table, which poll and select test) and `NetErrnoAssumption`.

`MmanProofs` proves for every size of the table, the pool and the address
space, every set of threads, lengths, addresses and calls, both back ends and
every application:

- `MmanTypeCorrect`: `Spec => []TypeOK`, which includes that `_regions` is not
  overrun;
- `MmanDisjoint`: `Spec => []RegionsDisjoint`;
- `MmanInside`: `Spec => []RegionsInside`;
- `MmanReservations`: `Spec => []ReservationsExact`.

The inductive invariant `IInv` adds to them: that a thread in a loop has the
mutex (`OneHolder`), so that its cursor speaks of a table nobody else changes;
that in the loop of `_vm_pool_alloc` every region before the cursor ends at or
below the candidate, which lies in the pool (`LocalsAt`), so that the gap found
meets no region before it, and by the order none behind it; that the regions
are all of one back end (`OneBackend`), so that the regions `_vm_pool_alloc`
and kubridge skip do not exist; and that no reservation is without a region
(`NoLeakedBlock`). Lemmas on the table (`InsertOrdered`, `RemoveOrdered`,
`ReplaceOrdered`) say what `_region_insert`, `_region_remove` and a change of
bounds do to the order; that the loop of `_region_insert` finds its place
(`InsertPosType`) is a choice of a smallest element (`Smallest`). `QuietStep`
and `TableStep` reduce an action to what it does to its own thread, and there is
one lemma for each action or group of like actions. The assumptions are
`MmanAssumption` (the pool lies inside the address space, the sizes are not
zero) and `GrowAssumption` (below).

`MmanHeldProofs` proves of the same system, page by page:

- for any application: `MmanHeldMapped`, `MmanHeldBacked`, `MmanLeaked` and
  `MmanProtection` (`HeldMapped`, `HeldBacked`, `LeakedOnlyByFullTable`,
  `ProtectionKnown`);
- for one whose threads only name pages that they mapped (the hypothesis
  `Disciplined`; the run `mman_any` is about any other):
  `MmanContents` (`ContentsKept`) and `MmanFaults` (`FaultsOnlyCopying`).

The table is looked at through `ProtsOf(regions, p)`, the protections of the
regions that have the page: at most one, since the table is sorted. Five lemmas
say what inserting, removing, trimming, splitting and protecting do to it
(`InsertProts`, `RemoveProts`, `ReplaceProts`, `SplitProts`, `ProtectProts`). On
that, `PagesInv` says of each page that it is mapped if held, backed with the
table's protection but for the ghosts' exceptions, and owned if mapped, or about
to be unmapped by some thread (`PageAt`). The last is not inductive without
knowing that the loop of `__mman_unmap` leaves nothing of its range behind its
cursor (`UnmappingAt`), which is what makes the end of the loop right; and
module_stop leaves nothing at all (`StoppedEmpty`).

`OwnInv` adds, for the disciplined application, that the range a call was given
and the range it mapped are its thread's at every place where they are used
(`GivenAt`, `MadeAt`), except that the pages of an mmap whose file could not be
read are nobody's; that two threads never unmap a common page (`Apart`); and
that a mapping is writable while it is filled. Each action is shown to keep to
pages that are its thread's, that nobody mapped, or that it unmaps (`Frame`);
`OthersOwn` then gives the other threads' part once for all actions, and
`ContentsAt` follows for pages outside the frame because nothing writes to them.
mremap's copy reads a source that is not a hole, since a hole has no memory and
the copy of it would have been the fault. That `PagesInv` and `OwnInv` are
invariants was checked with TLC on the instances of the runs first.

`FdHeldProofs` assumes in addition a disciplined application on a FIOS that does
not open a directory as a file (`DisciplinedApp`: `Disciplined`, not
`DirAsFile`; what happens otherwise is what the runs with other values show) and
proves `HeldLiveCorrect`, `NoAliasCorrect`, `NoFaultCorrect`, `UseLiveCorrect`,
`PollLiveCorrect`, `OrphansCorrect` and, of the steps, `StrandedCorrect` (`Spec
=> StrandedByEmfileOrClose`). Nothing of this follows from reference counts: the
new invariant `HeldInv` says who has each backend handle. An entry is settled
once its creator has stored the handle in it; every settled entry and every call
between the backend's open and that store (`HasLocal`) has an open handle, and
no two have the same one (`Handles`). A slot that no application knows of yet
belongs to one call that is filling it, or is the first slot of a failed pipe
(`Slots`), and that call knows its entry (`FillAt`), which is why its unguarded
write through `__fdmap[fd]` cannot fault. A free entry has the type `FILE`
(`FreeIsFile`), because `__fd_drop` clears it and `open` relies on that. A
rewind has its entry for itself between the close and the reopen (`RewindAt`),
and what poll has collected are open sockets of entries it holds (`PollAt`). For
the action property each step is shown to leave every handle a holder but those
it may lose (`HeldBut(Leaky)`: in a full table, or in rewinddir before a close
that can fail), and an entry that stays counted after its last reference to keep
its handle, which its refused close left open (`LostFate`). `Placed` says which
calls may be where.

`UnguardedProofs`, for every set of names, values and initial arrays:
`EnvStringsCorrect` needs that only a string of the application is in the array
twice (`Once`), so that freeing the one that leaves it leaves no other reference
behind, and that a string of the library in the array has a slot or could not
get one (`Owned`). `EnvRefinesMap` proves the refinement of `EnvMap` together
with its action property: each function is its own operation of the map. Its
core is that the first match of a name is what getenv finds (`Matches`), and
what replacing, appending and the compaction of unsetenv do to the first match of
every other name. The compaction is `InOrder`, the elements left in their order,
for which the proofs construct the enumeration.

It also proves `LagCorrect` for every table length and distance, through the
states of the one call under way (the distance is one more between the two
increments), and `HandlersCorrect` through `SigInv`: the table that is published
was allocated, and unless calls raced (`Calm`) a thread in `_init_signal` is
alone, the elements before its index are filled, and afterwards the table holds
what was stored.

`PathsProofs`, for any drives, names, lengths and `PATH_MAX`, paths of any
tokens and any working directory: `ResolvedCorrect` (`PathTypeOK` and
`ResolvedExact`, with what it concedes about `full_path`). The loop of
`__resolve_path` is a recursive function over the tokens, and induction over
data has to be done by hand: `FirstNumber` takes the smallest number of a set
from the well-foundedness of `<`, `Turns` is induction over the turns of a loop
for one set at a time, and `Iterates` says that a function defined by recursion
exists and is unique. With them `TextLens` and the lemmas on sums give the
length of a text, and the loop is shown to hold, after each turn, in its buffer
the names that are meant by the tokens read, and to give up only where the text
is too long. `..` removes the last name, of which there may be none; that is
where the turn by turn comparison is needed. `PathInv` then only has to say of
the last answer that it was right when it was given (`AnswerRight`): the working
directory may have changed since.

`InetProofs`, for any words, fewer than 65535 groups and any base of a byte:
`NtopCorrect`, `PtonCorrect`, `AtonCorrect` and `InetTypeCorrect`. The
invariant `InetInv` says that the answer is that of the function; the rest is
about the functions. inet_ntop6: after each turn of the scan the open run and
the best one are what they should be of the words before it, so that the end of
the loop has the first of the longest runs. The text is cut into what stands
before the run, the gap and what stands behind it; inet_pton6 is followed over
each of these, so that it reads back the address, with the run or without, and
with the dotted form. inet_pton6 alone: what a text stands for is compared with
what was stored and where `::` was seen after each group (`Turns` again); the
shift at the end moves the words behind it. inet_aton: the cascade of
remainders and quotients gives the digits of the number. Powers of a variable
base are out of the SMT solver's reach, so they are named as products (`Power`)
and the facts on quotients are lemmas.

`LibraryProofs`, for any number of threads, hosts and failures: `PoolCorrect`
and `ReadyCorrect` rest on `NetInv`: the compare-and-swap admits one thread to
the body (`OneInBody`), so the block allocated and what SceNet runs on are
determined by where that thread is (`BodyAt`) and by whether sceNetTerm failed,
and what it leaves allocated is the pool or nothing (`AfterBody`).
`ListsCorrect` and `AnswersCorrect` rest on `GaiInv`: every list is somebody's
(`NoLeak`), what a call is about to copy is its own unless it was disturbed
(`InBuffer`), and with careful callers each answer is a list of its caller's own
(`Owns`). `ResolverImplementsNet` shows `GaiSpec => NetSpec`, a step of the
resolver being one of `NetInit` or none, so that the properties of `NetInit`
hold with the resolver at work (`ResolverNetCorrect`).

Further, for any number of streams, descriptors and entries: `TellCorrect` needs
that streams that share a handle are all marked (`SharedTainted`), `ScanCorrect`
that in the loop the names collected so far are the selected ones among the
entries read, each once and in order, and as many as those (`Collected`), within
the capacity.

It proves `PollCorrect` (`ReadyCounted`, by counting disjoint sets:
regular files and sockets; the bits of the three sets), that `LibrarySpec`
implements the specification of every part (`LibraryImplementsParts`), and with
it that the composition the run `library_parts` checks has all of these properties
(`LibraryCorrect`, `LibraryTypeCorrect`) and implements `EnvMap`
(`LibraryEnvRefines`).

Besides those named above the assumptions are: the standard streams have
handles, different ones (`TableAssumption`); `NetAssumption`,
`ResolverAssumption`, `SigAssumption`, `EnvAssumption` and `PollAssumption`
keep NULL and the names of states apart from addresses, strings and sockets;
the model's cap on an index of random lies past the end of the table
(`RandomAssumption`); racing threads are threads (`RacersAreThreads`); the empty
name, `.` and `..` name no directory and drives and names have characters
(`PathAssumption`), and NULL is neither a path nor an address (`NullIsNoPath`,
`NullIsNoAddress`); a byte has two values or more and numbers are not negative
(`AtonAssumption`); words have 16 bits, and a text has fewer groups than a word
has values, since `Spelled` numbers its groups so as to tell them apart
(`InetAssumption`). TLC evaluates all of them.

Only model-checked are `CallReturns` and `CallEnds`: liveness is outside the
prover. Every other property of the passing runs is a theorem, those of
`FdHeldProofs` and the last two of `MmanHeldProofs` under the hypotheses on the
application named there.

## Not modelled

Data, offsets, errno values and messages; the raw FIOS fallback; constant
tables (`conf/`, `locale/`, `gai_strerror.c`) and functions without state of
their own (`string/`, `time/`, `ctype`, `stdio`, the user and group ids); the
hints and services of getaddrinfo; the 32-bit values of random; the length of
the waits of poll and select; a failing calloc of `__realpath`, which changes
nothing. `environ` and `__cwd` have no lock: `Environ` and
`Paths` have one thread, and the races on them are left out. `Inet`
and `PollResults` leave out that their functions first call `_net_init` or hold
descriptors, which `NetInit` and `FdCalls` model.

munmap and mremap of a range that wraps around the end of the address space
(`NoWrap`) and mremap to a length that does so or that rounds up to zero
(`GrowAssumption`) are left out: the sums at lines 272 and 368 of
`vitamman.c` wrap, and the code was not written for what follows.
`sceKernelFreeMemBlock` and `sceKernelFreeMemBlockForVM` are taken to succeed; the
code ignores their results, and a block that could not be freed would stay
without a region that names it.
`module_stop` runs with no thread inside a call; `_mman_ready` is read before
the mutex is taken, and a call racing with it could lock a deleted mutex.

## Plan

1. `_free_fd` and module_stop with the descriptor table; `Mman` composed with
   `FdCalls` through the `pread` of mmap.
2. An abstract POSIX descriptor table (open file descriptions and names), and
   `FdCalls` of a disciplined application shown to implement it.
