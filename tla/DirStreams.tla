---------------------------- MODULE DirStreams -----------------------------
(***************************************************************************)
(* Directory streams of dirent/ on top of the descriptors: the position a   *)
(* DIR believes to have (index) against the one its directory handle has,   *)
(* and the list scandir builds.  The directory has Entries entries; a       *)
(* descriptor is its handle's position.  External are the FIOS directory    *)
(* functions (an entry, the end, or an error), malloc, realloc, calloc, and *)
(* close.  Descriptors and their tables are FdCalls' matter.                *)
(***************************************************************************)
EXTENDS Integers, Sequences, FiniteSets, LibcThreads

CONSTANTS
    Streams,     \* addresses of a DIR
    Descriptors, \* a set of numbers; 0 is what closedir takes for "no descriptor"
    Entries,     \* how many entries the directory has
    MaxIndex     \* bound of the model on the index of a DIR

ASSUME DirAssumption ==
    /\ Entries \in Nat /\ MaxIndex \in Nat
    /\ Descriptors \subseteq Nat /\ NULL \notin Nat

VARIABLES
    position,    \* external: the entries read from each open directory handle
    stream,      \* the DIRs: descriptor and index, NULL if free
    tainted,     \* the DIRs that are not the only users of their handle (ghost)
    scan,        \* the locals of a scandir under way
    scanned      \* the last call, if it was a scandir that returned a list (ghost)

dirVars == <<position, stream, tainted, scan, scanned>>

DIR == [fd : Descriptors, index : 0 .. MaxIndex]

(* The descriptor, the entries sel accepts, the list and its capacity, and  *)
(* whether the loop was broken off, with errno set.                         *)
Scan == [fd : Descriptors, sel : SUBSET (1 .. Entries), names : Seq(1 .. Entries),
         len : Nat, broken : BOOLEAN]

DirInit ==
    /\ position = [fd \in Descriptors |-> NULL]
    /\ stream = [d \in Streams |-> NULL]
    /\ tainted = {}
    /\ scan = NULL
    /\ scanned = NULL

DirTypeOK ==
    /\ position \in [Descriptors -> 0 .. Entries \cup {NULL}]
    /\ stream \in [Streams -> DIR \cup {NULL}]
    /\ tainted \subseteq Streams
    /\ scan \in Scan \cup {NULL}
    /\ scanned \in Scan \cup {NULL}

Open == {fd \in Descriptors : position[fd] # NULL}
Users(fd) == {d \in Streams : IF stream[d] = NULL THEN FALSE ELSE stream[d].fd = fd}

(* __fd_grab finds the descriptor of the stream.                            *)
Usable(d) == \E fd \in Open : d \in Users(fd)

(* A call on a stream: one thread, which is not in scandir.                 *)
StreamCall == scan = NULL /\ scan' = NULL /\ scanned' = NULL

-----------------------------------------------------------------------------
opendir(d, fd) ==
    /\ stream[d] = NULL /\ fd \notin Open
    /\ position' = [position EXCEPT ![fd] = 0]
    /\ stream' = [stream EXCEPT ![d] = [fd |-> fd, index |-> 0]]
    /\ tainted' = IF Users(fd) = {} THEN tainted \ {d} ELSE tainted \cup Users(fd) \cup {d}
    /\ StreamCall

(* The index starts at 0 wherever the handle is.                            *)
fdopendir(d, fd) ==
    /\ stream[d] = NULL /\ fd \in Open
    /\ stream' = [stream EXCEPT ![d] = [fd |-> fd, index |-> 0]]
    /\ tainted' = tainted \cup Users(fd) \cup {d}
    /\ StreamCall /\ UNCHANGED position

(* n successful calls of readdir.                                           *)
Advance(d, n) ==
    /\ position' = [position EXCEPT ![stream[d].fd] = @ + n]
    /\ stream' = [stream EXCEPT ![d].index = @ + n]

Left(d) == Entries - position[stream[d].fd]

(* readdir; at the end, and when the handle cannot be read, nothing moves.  *)
readdir(d) ==
    /\ Usable(d) /\ Left(d) > 0 /\ stream[d].index < MaxIndex
    /\ Advance(d, 1)
    /\ StreamCall /\ UNCHANGED tainted

(* Mutant: the index is reset before the directory is opened again.         *)
RewoundEarly(d) ==
    /\ \E p \in {0, position[stream[d].fd]} : position' = [position EXCEPT ![stream[d].fd] = p]
    /\ stream' = [stream EXCEPT ![d].index = 0]

(* The directory is opened again by its path.  If that fails nothing        *)
(* changes.                                                                 *)
Rewound(d) ==
    /\ position' = [position EXCEPT ![stream[d].fd] = 0]
    /\ stream' = [stream EXCEPT ![d].index = 0]

rewinddir(d) ==
    /\ Usable(d)
    /\ Rewound(d)
    /\ StreamCall /\ UNCHANGED tainted

(* seekdir forwards: readdir until the index is reached, the listing ends   *)
(* or a read fails.                                                         *)
SeekForward(d, k) ==
    /\ Usable(d) /\ k > stream[d].index
    /\ \E n \in 1 .. k - stream[d].index : n <= Left(d) /\ Advance(d, n)
    /\ StreamCall /\ UNCHANGED tainted

(* seekdir backwards: rewinddir first, which must have succeeded.           *)
SeekBack(d, k) ==
    /\ Usable(d) /\ k < stream[d].index
    /\ \E n \in 0 .. Entries :
          /\ n <= k
          /\ position' = [position EXCEPT ![stream[d].fd] = n]
          /\ stream' = [stream EXCEPT ![d].index = n]
    /\ StreamCall /\ UNCHANGED tainted

(* closedir refuses descriptor 0, and leaves the DIR and the descriptor.    *)
(* The DIR is freed whether close finds the descriptor or not.              *)
closedir(d) ==
    /\ stream[d] # NULL /\ stream[d].fd # 0
    /\ position' = [position EXCEPT ![stream[d].fd] = NULL]
    /\ stream' = [stream EXCEPT ![d] = NULL]
    /\ StreamCall /\ UNCHANGED tainted

-----------------------------------------------------------------------------
ScanStart(fd) ==
    /\ scan = NULL /\ fd \notin Open
    /\ position' = [position EXCEPT ![fd] = 0]
    /\ tainted' = tainted \cup Users(fd)
    /\ \E S \in SUBSET (1 .. Entries) :
          scan' = [fd |-> fd, sel |-> S, names |-> <<>>, len |-> 0, broken |-> FALSE]
    /\ scanned' = NULL
    /\ UNCHANGED stream

Scanning == IF scan = NULL THEN FALSE ELSE ~scan.broken
NextEntry(fd) == position[fd] + 1

(* The capacity for one more name.                                          *)
Room(len, cnt) == IF cnt >= len THEN 2 * len + 1 ELSE len

(* Mutant: the names are lost when the array grows.                         *)
ScanTurnLoses ==
    /\ Scanning /\ NextEntry(scan.fd) <= Entries
    /\ position' = [position EXCEPT ![scan.fd] = @ + 1]
    /\ scan' = IF NextEntry(scan.fd) \in scan.sel
                 THEN [scan EXCEPT !.names = IF Len(@) >= scan.len THEN <<NextEntry(scan.fd)>>
                                             ELSE Append(@, NextEntry(scan.fd)),
                                   !.len = Room(@, Len(scan.names))]
                 ELSE scan
    /\ UNCHANGED <<stream, tainted, scanned>>

(* One turn of the loop: the next entry is read, and stored if sel wants    *)
(* it.                                                                      *)
ScanTurn ==
    /\ Scanning /\ NextEntry(scan.fd) <= Entries
    /\ position' = [position EXCEPT ![scan.fd] = @ + 1]
    /\ scan' = IF NextEntry(scan.fd) \in scan.sel
                 THEN [scan EXCEPT !.names = Append(@, NextEntry(scan.fd)),
                                   !.len = Room(@, Len(scan.names))]
                 ELSE scan
    /\ UNCHANGED <<stream, tainted, scanned>>

(* readdir, realloc or malloc fails, which sets errno and ends the loop.    *)
ScanBreak ==
    /\ Scanning
    /\ scan' = [scan EXCEPT !.broken = TRUE]
    /\ UNCHANGED <<position, stream, tainted, scanned>>

(* After the loop errno is what closedir made of it, not what broke the     *)
(* loop off: 0, unless close failed or the descriptor is 0.                 *)
ErrnoSet(closeFails) == closeFails \/ scan.fd = 0

ScanEnd(closeFails) ==
    /\ scan # NULL
    /\ scan.broken \/ NextEntry(scan.fd) > Entries
    /\ position' = IF scan.fd = 0 THEN position ELSE [position EXCEPT ![scan.fd] = NULL]
    /\ scanned' = IF ErrnoSet(closeFails) THEN NULL ELSE scan
    /\ scan' = NULL
    /\ UNCHANGED <<stream, tainted>>

DirNext ==
    \/ \E d \in Streams, fd \in Descriptors : opendir(d, fd) \/ fdopendir(d, fd)
    \/ \E d \in Streams : readdir(d) \/ rewinddir(d) \/ closedir(d)
    \/ \E d \in Streams, k \in 0 .. MaxIndex : SeekForward(d, k) \/ SeekBack(d, k)
    \/ \E fd \in Descriptors : ScanStart(fd)
    \/ ScanTurn \/ ScanBreak
    \/ \E closeFails \in BOOLEAN : ScanEnd(closeFails)

DirSpec == DirInit /\ [][DirNext]_dirVars

-----------------------------------------------------------------------------
(* telldir tells the truth: whatever reads, failing rewinds and seeks came  *)
(* before, the index of a stream is the number of entries read from its     *)
(* handle, unless another stream shares the handle.  So seekdir of what     *)
(* telldir returned leads back to the same entry.                           *)
TellIsPosition ==
    \A d \in Streams \ tainted : Usable(d) => stream[d].index = position[stream[d].fd]

Ascending(seq) == \A i, j \in DOMAIN seq : i < j => seq[i] < seq[j]

(* The names fit into the array that scandir has allocated for them, and    *)
(* the list it returns holds the selected entries, each once and in the     *)
(* order they were read, and all of them unless the loop was broken off (an *)
(* error that closedir has cleared by then).                                *)
ScanWhole ==
    /\ scan # NULL => Len(scan.names) <= scan.len
    /\ scanned # NULL =>
           /\ {scanned.names[i] : i \in DOMAIN scanned.names} \subseteq scanned.sel
           /\ Ascending(scanned.names)
           /\ ~scanned.broken => Len(scanned.names) = Cardinality(scanned.sel)

=============================================================================
