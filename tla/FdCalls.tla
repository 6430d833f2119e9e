------------------------------ MODULE FdCalls ------------------------------
(***************************************************************************)
(* The POSIX calls on descriptors, run by the threads of one process over   *)
(* the table of DescriptorTable.  A call is a sequence of steps: each       *)
(* critical section of the table, each backend call and each unlocked       *)
(* access to a table entry is a step of its own, and other threads run in   *)
(* between.  A call that fails before it changed anything stutters and has  *)
(* no action; so has the raw FIOS access that read, write, readv, writev,   *)
(* lseek, fstat and poll fall back to for a number that is no descriptor.   *)
(***************************************************************************)
EXTENDS DescriptorTable, Dispatch, Sequences

CONSTANTS
    CreateCalls,  \* which of open, socket and pipe the application calls
    UseCalls,     \* calls of Dispatch it makes
    PollArrays,   \* arrays it passes to poll and select: sequences over PollFd
    Disciplined,  \* does it name only descriptors it holds?
    SelfDup2,     \* does it call dup2(fd, fd)?
    DirAsFile     \* may FIOS give a file handle for a path seen as directory?

PollFd == FD \cup {-1}    \* -1: a negative fd, or no event asked for

ASSUME CallsAssumption ==
    /\ CreateCalls \subseteq {"open", "open_dir", "socket", "pipe"}
    /\ UseCalls \subseteq FdUsers
    /\ PollArrays \subseteq Seq(PollFd)
    /\ \A a \in PollArrays : Len(a) < MAX_OPEN_FILES   \* else EINVAL
    /\ {Disciplined, SelfDup2, DirAsFile} \subseteq BOOLEAN

VARIABLES
    pc,      \* where each thread is
    call,    \* the function it is in
    fd,      \* the descriptor being created
    uid,     \* a backend handle in a local variable
    typ,     \* the type the new entry will have
    ptr,     \* the entry pointer loaded from __fdmap
    idx,     \* i, the loop index of poll and select
    pfd,     \* the array of poll; for select, element i is i or -1
    lock,    \* references held by calls: lock[<<t, i>>]; a single one is in cell 0
    owned    \* descriptors handed to the application and not closed by it

localVars == <<pc, call, fd, uid, typ, ptr, idx, pfd>>
vars == <<tableVars, localVars, lock, owned>>

OpenCalls   == {"open", "open_dir"}    \* open_dir: with O_DIRECTORY
PollCalls   == {"poll", "select"}
Cells       == Threads \X FD

Create  == {"acquire", "load_uid", "store_uid", "load_type", "store_type", "pipe_dup"}
Rewind  == {"rewind_close", "rewind_store"}
PCs     == {"idle", "fault", "use", "nested", "drop", "accept_drop",
            "scan", "scan_type", "scan_drop", "wait", "unlock"} \cup Create \cup Rewind

Init ==
    /\ init_fd
    /\ pc   = [t \in Threads |-> "idle"]
    /\ call = [t \in Threads |-> "none"]
    /\ fd   = [t \in Threads |-> NULL]
    /\ uid  = [t \in Threads |-> NoUid]
    /\ typ  = [t \in Threads |-> "FILE"]
    /\ ptr  = [t \in Threads |-> NULL]
    /\ idx  = [t \in Threads |-> 0]
    /\ pfd  = [t \in Threads |-> <<>>]
    /\ lock = [c \in Cells |-> NULL]
    /\ owned = Std

LocalTypeOK ==
    /\ pc \in [Threads -> PCs]
    /\ call \in [Threads -> {"none"} \cup CreateCalls \cup PollCalls \cup UseCalls]
    /\ fd \in [Threads -> FD \cup {NULL}]
    /\ uid \in [Threads -> Uid \cup {NoUid}]
    /\ typ \in [Threads -> Types]
    /\ ptr \in [Threads -> Pool \cup {NULL}]
    /\ idx \in [Threads -> 0 .. MAX_OPEN_FILES]
    /\ pfd \in [Threads -> PollArrays \cup {<<>>}]

TypeOK ==
    /\ TableTypeOK
    /\ LocalTypeOK
    /\ lock \in [Cells -> Pool \cup {NULL}]
    /\ owned \in SUBSET FD

Goto(t, l) == pc' = [pc EXCEPT ![t] = l]

(* Leave the function: its locals are gone.                                 *)
Return(t) ==
    /\ Goto(t, "idle")
    /\ call' = [call EXCEPT ![t] = "none"]
    /\ fd'   = [fd EXCEPT ![t] = NULL]
    /\ uid'  = [uid EXCEPT ![t] = NoUid]
    /\ typ'  = [typ EXCEPT ![t] = "FILE"]
    /\ ptr'  = [ptr EXCEPT ![t] = NULL]
    /\ idx'  = [idx EXCEPT ![t] = 0]
    /\ pfd'  = [pfd EXCEPT ![t] = <<>>]

(* What the application holds is followed only if it keeps to it.           *)
Owns(S) == owned' = IF Disciplined THEN S ELSE owned

(* A backend hands out a handle of family k that is not open.               *)
NewHandle(t, k, u) ==
    /\ u \in Uid \ opened[k]
    /\ opened' = [opened EXCEPT ![k] = @ \cup {u}]
    /\ uid' = [uid EXCEPT ![t] = u]

(* A close whose result the caller ignores; it may have failed.             *)
CloseHandle(k, u) ==
    \/ opened' = [opened EXCEPT ![k] = @ \ {u}]
    \/ MayFail(k) /\ UNCHANGED opened

-----------------------------------------------------------------------------
(* open, creat, opendir: __is_dir, then the FIOS open.  The directory       *)
(* functions are used only with O_DIRECTORY, the type only looks at is_dir. *)
OpenKind(c, isDir) == IF isDir /\ c = "open_dir" THEN "dh" ELSE "fh"
OpenType(isDir)    == IF isDir THEN "DIRECTORY" ELSE "FILE"

Open(t, c, isDir) ==
    /\ pc[t] = "idle" /\ c \in CreateCalls \cap OpenCalls
    /\ isDir /\ OpenKind(c, isDir) = "fh" => DirAsFile
    /\ \E u \in Uid : NewHandle(t, OpenKind(c, isDir), u)
    /\ typ' = [typ EXCEPT ![t] = OpenType(isDir)]
    /\ call' = [call EXCEPT ![t] = c]
    /\ Goto(t, "acquire")
    /\ UNCHANGED <<fdmap, sce_uid, type, ref_count, lost, owner,
                   fd, ptr, idx, pfd, lock, owned>>

Socket(t) ==
    /\ pc[t] = "idle" /\ "socket" \in CreateCalls
    /\ \E u \in Uid : NewHandle(t, "net", u)
    /\ typ' = [typ EXCEPT ![t] = "SOCKET"]
    /\ call' = [call EXCEPT ![t] = "socket"]
    /\ Goto(t, "acquire")
    /\ UNCHANGED <<fdmap, sce_uid, type, ref_count, lost, owner,
                   fd, ptr, idx, pfd, lock, owned>>

Pipe(t) ==
    /\ pc[t] = "idle" /\ "pipe" \in CreateCalls
    /\ \E u \in Uid : NewHandle(t, "msgpipe", u)
    /\ typ' = [typ EXCEPT ![t] = "PIPE"]
    /\ call' = [call EXCEPT ![t] = "pipe"]
    /\ Goto(t, "acquire")
    /\ UNCHANGED <<fdmap, sce_uid, type, ref_count, lost, owner,
                   fd, ptr, idx, pfd, lock, owned>>

Acquire(t) ==
    /\ pc[t] = "acquire" /\ CanLock(t)
    /\ \E f \in FD, p \in Pool :
          /\ acquire_descriptor(f, p)
          /\ fd' = [fd EXCEPT ![t] = f]
    /\ Goto(t, "load_uid")
    /\ UNCHANGED <<call, uid, typ, ptr, idx, pfd, lock, owned>>

(* Mutant: the handle is forgotten.                                         *)
NoCleanup(t) == UNCHANGED opened

(* EMFILE.  open closes with the function of the type it would have stored, *)
(* pipe deletes the message pipe, socket and accept keep the net handle.    *)
CleanupEmfile(t) ==
    IF typ[t] = "SOCKET" THEN UNCHANGED opened
    ELSE CloseHandle(KindOf(typ[t]), uid[t])

(* Mutant: the early return forgets to unlock.                              *)
AcquireFailsLocked(t) ==
    /\ pc[t] = "acquire" /\ CanLock(t)
    /\ NoFreeDescriptor
    /\ CleanupEmfile(t)
    /\ owner' = t
    /\ Return(t)
    /\ UNCHANGED <<fdmap, sce_uid, type, ref_count, lost, lock, owned>>

AcquireFails(t) ==
    /\ pc[t] = "acquire" /\ CanLock(t)
    /\ NoFreeDescriptor
    /\ CleanupEmfile(t)
    /\ Return(t)
    /\ UNCHANGED <<fdmap, sce_uid, type, ref_count, lost, owner, lock, owned>>

(* The entry is filled in without the mutex: __fdmap[fd] is loaded, then    *)
(* written through, once for each field.                                    *)
LoadPtr(t) ==
    /\ pc[t] \in {"load_uid", "load_type"} /\ fdmap[fd[t]] # NULL
    /\ ptr' = [ptr EXCEPT ![t] = fdmap[fd[t]]]
    /\ Goto(t, IF pc[t] = "load_uid" THEN "store_uid" ELSE "store_type")
    /\ UNCHANGED <<tableVars, call, fd, uid, typ, idx, pfd, lock, owned>>

Fault(t) ==
    /\ pc[t] \in {"load_uid", "load_type"} /\ fdmap[fd[t]] = NULL
    /\ Goto(t, "fault")
    /\ UNCHANGED <<tableVars, call, fd, uid, typ, ptr, idx, pfd, lock, owned>>

(* The compiler may keep the pointer for the second store or load it again. *)
StoreUid(t) ==
    /\ pc[t] = "store_uid"
    /\ sce_uid' = [sce_uid EXCEPT ![ptr[t]] = uid[t]]
    /\ \E l \in {"load_type", "store_type"} : Goto(t, l)
    /\ UNCHANGED <<fdmap, type, ref_count, opened, lost, owner,
                   call, fd, uid, typ, ptr, idx, pfd, lock, owned>>

(* The last step of open, socket and accept; pipe goes on.                  *)
StoreType(t) ==
    /\ pc[t] = "store_type"
    /\ type' = [type EXCEPT ![ptr[t]] = typ[t]]
    /\ IF call[t] = "pipe"
       THEN /\ Goto(t, "pipe_dup")
            /\ UNCHANGED <<call, fd, uid, typ, ptr, idx, pfd, owned>>
       ELSE /\ Return(t)
            /\ Owns(owned \cup {fd[t]})
    /\ UNCHANGED <<fdmap, sce_uid, ref_count, opened, lost, owner, lock>>

PipeDup(t) ==
    /\ pc[t] = "pipe_dup" /\ CanLock(t)
    /\ \E f \in FD :
          /\ duplicate_descriptor(fd[t], 0, f)
          /\ Owns(owned \cup {fd[t], f})
    /\ Return(t)
    /\ UNCHANGED lock

(* The message pipe is deleted, the first descriptor stays in the table.    *)
PipeDupFails(t) ==
    /\ pc[t] = "pipe_dup" /\ CanLock(t)
    /\ ~is_fd_valid(fd[t]) \/ \A f \in FD : f >= FirstFd => fdmap[f] # NULL
    /\ CloseHandle("msgpipe", uid[t])
    /\ Return(t)
    /\ UNCHANGED <<fdmap, sce_uid, type, ref_count, lost, owner, lock, owned>>

-----------------------------------------------------------------------------
(* close, closedir, dup, fcntl(F_DUPFD) and dup2 are one critical section.  *)
Held(f) == Disciplined => f \in owned

Close(t, f) ==
    /\ pc[t] = "idle" /\ CanLock(t) /\ Held(f)
    /\ \E r \in CloseResults : release_descriptor(f, r)
    /\ Owns(IF fdmap'[f] = NULL THEN owned \ {f} ELSE owned)
    /\ UNCHANGED <<localVars, lock>>

(* Mutant: the old descriptor is returned in place of the new one.          *)
DupReturnsOld(t, f, minfd) ==
    /\ pc[t] = "idle" /\ CanLock(t) /\ Held(f)
    /\ \E g \in FD : duplicate_descriptor(f, minfd, g)
    /\ UNCHANGED <<localVars, lock, owned>>

Dup(t, f, minfd) ==
    /\ pc[t] = "idle" /\ CanLock(t) /\ Held(f)
    /\ \E g \in FD :
          /\ duplicate_descriptor(f, minfd, g)
          /\ Owns(owned \cup {g})
    /\ UNCHANGED <<localVars, lock>>

Dup2(t, old, new) ==
    /\ pc[t] = "idle" /\ CanLock(t) /\ Held(old) /\ (new \in Std \/ Held(new))
    /\ \/ duplicate_descriptor2_free(old, new)
       \/ \E r \in CloseResults :
             duplicate_descriptor2_over(old, new, r)
    /\ Owns(owned \cup {new})
    /\ UNCHANGED <<localVars, lock>>

Dup2Self(t, f) ==
    /\ pc[t] = "idle" /\ CanLock(t) /\ Held(f) /\ SelfDup2
    /\ duplicate_descriptor2_same(t, f)
    /\ UNCHANGED <<localVars, lock, owned>>

-----------------------------------------------------------------------------
(* The calls of Dispatch: __fd_grab, the backend call, __fd_drop.           *)
Entry(t) == lock[<<t, 0>>]
Family(t) == Api[call[t]][type[Entry(t)]]

Rewinding(p) ==
    \E t \in Threads : call[t] = "rewinddir" /\ pc[t] # "drop" /\ Entry(t) = p

Referenced(p) == \E c \in Cells : lock[c] = p

(* A disciplined application makes a DIR only of a directory, and does not  *)
(* use a directory stream while it is being rewound.                        *)
MayUse(c, p) ==
    Disciplined => /\ c \in DirCalls => type[p] = "DIRECTORY"
                   /\ ~Rewinding(p)
                   /\ c = "rewinddir" => ~Referenced(p)

Grab(t, c, f) ==
    /\ pc[t] = "idle" /\ CanLock(t) /\ Held(f)
    /\ fd_grab(f)
    /\ MayUse(c, fdmap[f])
    /\ lock' = [lock EXCEPT ![<<t, 0>>] = fdmap[f]]
    /\ call' = [call EXCEPT ![t] = c]
    /\ Goto(t, "use")
    /\ UNCHANGED <<fd, uid, typ, ptr, idx, pfd, owned>>

(* The backend call of every function but accept and rewinddir leaves the   *)
(* table and the set of open handles alone; so do their failing calls.      *)
Use(t) ==
    /\ pc[t] = "use" /\ Family(t) # "as_fd"
    /\ Goto(t, "drop")
    /\ UNCHANGED <<tableVars, call, fd, uid, typ, ptr, idx, pfd, lock, owned>>

(* readv and its relatives hand the handle on as a descriptor: that call    *)
(* grabs the entry this number happens to name, if any, and drops it again. *)
UseNested(t) ==
    /\ pc[t] = "use" /\ Family(t) = "as_fd" /\ CanLock(t)
    /\ fd_grab(sce_uid[Entry(t)])
    /\ lock' = [lock EXCEPT ![<<t, 1>>] = fdmap[sce_uid[Entry(t)]]]
    /\ Goto(t, "nested")
    /\ UNCHANGED <<call, fd, uid, typ, ptr, idx, pfd, owned>>

(* The lengths overflow, malloc fails, or the handle names no descriptor.   *)
UseNestedFails(t) ==
    /\ pc[t] = "use" /\ Family(t) = "as_fd"
    /\ Goto(t, "drop")
    /\ UNCHANGED <<tableVars, call, fd, uid, typ, ptr, idx, pfd, lock, owned>>

(* Drop the reference in cell i.                                            *)
DropCell(t, i) ==
    /\ CanLock(t)
    /\ \E r \in CloseResults : fd_drop(lock[<<t, i>>], r)
    /\ lock' = [lock EXCEPT ![<<t, i>>] = NULL]

(* Mutant: an error of the nested call returns before its __fd_drop.        *)
NestedReturns(t) ==
    /\ pc[t] = "nested"
    /\ Goto(t, "drop")
    /\ UNCHANGED <<tableVars, call, fd, uid, typ, ptr, idx, pfd, lock, owned>>

DropNested(t) ==
    /\ pc[t] = "nested" /\ DropCell(t, 1)
    /\ Goto(t, "drop")
    /\ UNCHANGED <<call, fd, uid, typ, ptr, idx, pfd, owned>>

Drop(t) ==
    /\ pc[t] = "drop" /\ DropCell(t, 0)
    /\ Return(t)
    /\ UNCHANGED owned

(* accept: a connection arrives; the listener is dropped before the new     *)
(* handle gets a descriptor the way socket's does.                          *)
Accept(t) ==
    /\ pc[t] = "use" /\ call[t] = "accept"
    /\ sce_uid[Entry(t)] \in opened["net"]
    /\ \E u \in Uid : NewHandle(t, "net", u)
    /\ typ' = [typ EXCEPT ![t] = "SOCKET"]
    /\ Goto(t, "accept_drop")
    /\ UNCHANGED <<fdmap, sce_uid, type, ref_count, lost, owner,
                   call, fd, ptr, idx, pfd, lock, owned>>

AcceptDrop(t) ==
    /\ pc[t] = "accept_drop" /\ DropCell(t, 0)
    /\ Goto(t, "acquire")
    /\ UNCHANGED <<call, fd, uid, typ, ptr, idx, pfd, owned>>

(* rewinddir: a second handle is opened on the path of the first, the first *)
(* is closed and the entry is redirected, all without the mutex.            *)
RewindOpen(t) ==
    /\ pc[t] = "use" /\ call[t] = "rewinddir"
    /\ sce_uid[Entry(t)] \in opened["dh"]
    /\ \E u \in Uid : NewHandle(t, "dh", u)
    /\ Goto(t, "rewind_close")
    /\ UNCHANGED <<fdmap, sce_uid, type, ref_count, lost, owner,
                   call, fd, typ, ptr, idx, pfd, lock, owned>>

RewindClose(t) ==
    /\ pc[t] = "rewind_close"
    /\ CloseHandle("dh", sce_uid[Entry(t)])
    /\ Goto(t, "rewind_store")
    /\ UNCHANGED <<fdmap, sce_uid, type, ref_count, lost, owner,
                   call, fd, uid, typ, ptr, idx, pfd, lock, owned>>

(* Mutant: the entry keeps the closed handle.                               *)
RewindForgets(t) ==
    /\ pc[t] = "rewind_store"
    /\ Goto(t, "drop")
    /\ UNCHANGED <<tableVars, call, fd, uid, typ, ptr, idx, pfd, lock, owned>>

RewindStore(t) ==
    /\ pc[t] = "rewind_store"
    /\ sce_uid' = [sce_uid EXCEPT ![Entry(t)] = uid[t]]
    /\ Goto(t, "drop")
    /\ UNCHANGED <<fdmap, type, ref_count, opened, lost, owner,
                   call, fd, uid, typ, ptr, idx, pfd, lock, owned>>

-----------------------------------------------------------------------------
(* poll and select: grab every element, keep the sockets locked, wait, then *)
(* drop what is locked.                                                     *)
PollStart(t, c, a) ==
    /\ pc[t] = "idle" /\ a # <<>>
    /\ c = "select" => \A i \in 1 .. Len(a) : a[i] \in {i - 1, -1}
    /\ call' = [call EXCEPT ![t] = c]
    /\ pfd' = [pfd EXCEPT ![t] = a]
    /\ Goto(t, "scan")
    /\ UNCHANGED <<tableVars, fd, uid, typ, ptr, idx, lock, owned>>

Advance(t) == idx' = [idx EXCEPT ![t] = @ + 1]
Element(t) == pfd[t][idx[t] + 1]

PollSkip(t) ==
    /\ pc[t] = "scan" /\ idx[t] < Len(pfd[t])
    /\ Element(t) = -1 \/ CanLock(t)
    /\ ~is_fd_valid(Element(t))
    /\ Advance(t)
    /\ UNCHANGED <<tableVars, pc, call, fd, uid, typ, ptr, pfd, lock, owned>>

PollGrab(t) ==
    /\ pc[t] = "scan" /\ idx[t] < Len(pfd[t]) /\ CanLock(t)
    /\ fd_grab(Element(t))
    /\ lock' = [lock EXCEPT ![<<t, idx[t]>>] = fdmap[Element(t)]]
    /\ Goto(t, "scan_type")
    /\ UNCHANGED <<call, fd, uid, typ, ptr, idx, pfd, owned>>

PollType(t) ==
    /\ pc[t] = "scan_type"
    /\ IF type[lock[<<t, idx[t]>>]] = "SOCKET"
       THEN Goto(t, "scan") /\ Advance(t)
       ELSE Goto(t, "scan_drop") /\ UNCHANGED idx
    /\ UNCHANGED <<tableVars, call, fd, uid, typ, ptr, pfd, lock, owned>>

PollDrop(t) ==
    /\ pc[t] = "scan_drop" /\ DropCell(t, idx[t])
    /\ Advance(t)
    /\ Goto(t, "scan")
    /\ UNCHANGED <<call, fd, uid, typ, ptr, pfd, owned>>

PollWait(t) ==
    /\ pc[t] = "scan" /\ idx[t] = Len(pfd[t])
    /\ Goto(t, "wait")
    /\ UNCHANGED <<tableVars, call, fd, uid, typ, ptr, idx, pfd, lock, owned>>

(* sceNetEpollWait returns: events, timeout or error.                       *)
PollWake(t) ==
    /\ pc[t] = "wait"
    /\ Goto(t, "unlock")
    /\ idx' = [idx EXCEPT ![t] = 0]
    /\ UNCHANGED <<tableVars, call, fd, uid, typ, ptr, pfd, lock, owned>>

PollUnlock(t) ==
    /\ pc[t] = "unlock" /\ idx[t] < Len(pfd[t])
    /\ \/ lock[<<t, idx[t]>>] # NULL /\ DropCell(t, idx[t])
       \/ lock[<<t, idx[t]>>] = NULL /\ UNCHANGED <<tableVars, lock>>
    /\ Advance(t)
    /\ UNCHANGED <<pc, call, fd, uid, typ, ptr, pfd, owned>>

PollReturn(t) ==
    /\ pc[t] = "unlock" /\ idx[t] = Len(pfd[t])
    /\ Return(t)
    /\ UNCHANGED <<tableVars, lock, owned>>

-----------------------------------------------------------------------------
Start(t) ==
    \/ \E c \in OpenCalls, isDir \in BOOLEAN : Open(t, c, isDir)
    \/ Socket(t)
    \/ Pipe(t)
    \/ \E f \in FD : Close(t, f)
    \/ \E f, m \in FD : Dup(t, f, m)
    \/ \E f, g \in FD : Dup2(t, f, g)
    \/ \E f \in FD : Dup2Self(t, f)
    \/ \E c \in UseCalls, f \in FD : Grab(t, c, f)
    \/ \E c \in PollCalls, a \in PollArrays : PollStart(t, c, a)

Continue(t) ==
    \/ Acquire(t) \/ AcquireFails(t)
    \/ LoadPtr(t) \/ Fault(t) \/ StoreUid(t) \/ StoreType(t)
    \/ PipeDup(t) \/ PipeDupFails(t)
    \/ Use(t) \/ UseNested(t) \/ UseNestedFails(t) \/ DropNested(t) \/ Drop(t)
    \/ Accept(t) \/ AcceptDrop(t)
    \/ RewindOpen(t) \/ RewindClose(t) \/ RewindStore(t)
    \/ PollSkip(t) \/ PollGrab(t) \/ PollType(t) \/ PollDrop(t)
    \/ PollWait(t) \/ PollWake(t) \/ PollUnlock(t) \/ PollReturn(t)

Running == \A t \in Threads : pc[t] # "fault"     \* a fault ends the process

Next == Running /\ \E t \in Threads : Start(t) \/ Continue(t)

Spec == Init /\ [][Next]_vars

(* Every thread that can take the next step of its call eventually takes    *)
(* it: the scheduler is fair, backend calls and poll's wait return.         *)
FairSpec == Spec /\ \A t \in Threads : WF_vars(Running /\ Continue(t))

-----------------------------------------------------------------------------
(* Properties that hold whatever descriptors the application names.         *)

MapRefs(p)  == {f \in FD : fdmap[f] = p}
LockRefs(p) == {c \in Cells : lock[c] = p}

(* ref_count of every entry is the number of table slots and of running     *)
(* calls that point to it, plus one for an entry whose last close failed.   *)
(* __fd_drop decides from this count alone when a handle is closed.         *)
RefCountExact ==
    \A p \in Pool :
        ref_count[p] = Cardinality(MapRefs(p)) + Cardinality(LockRefs(p))
                       + (IF p \in lost THEN 1 ELSE 0)

(* An entry that __acquire_descriptor may hand out is pointed to by no slot *)
(* and by no running call, and an entry counted without a reference to it   *)
(* is never pointed to again.                                               *)
NoDangling ==
    \A p \in Pool : ref_count[p] = 0 \/ p \in lost
                     => MapRefs(p) = {} /\ LockRefs(p) = {}

(* The references a thread holds are those of the function it is in, at the *)
(* point where it is: none outside a call, and no early exit keeps one.     *)
HeldCells(t) == {i \in FD : lock[<<t, i>>] # NULL}

CellsAt(t) ==
    LET H == HeldCells(t)
    IN  /\ pc[t] \in {"idle", "fault"} \cup Create => H = {}
        /\ pc[t] \in {"use", "drop", "accept_drop"} \cup Rewind => H = {0}
        /\ pc[t] = "nested" => H = {0, 1}
        /\ pc[t] = "scan" => \A i \in H : i < idx[t]
        /\ pc[t] \in {"scan_type", "scan_drop"} =>
                idx[t] \in H /\ \A i \in H : i <= idx[t]
        /\ pc[t] = "wait" => \A i \in H : i < Len(pfd[t])
        /\ pc[t] = "unlock" => \A i \in H : idx[t] <= i /\ i < Len(pfd[t])

CellsExact == \A t \in Threads : CellsAt(t)

-----------------------------------------------------------------------------
(* Properties of a disciplined application.                                 *)

Live(p) == sce_uid[p] \in opened[KindOf(type[p])]

Reachable(p) ==
    \/ \E f \in owned : fdmap[f] = p
    \/ \E t \in Threads : pc[t] \in {"use", "accept_drop"} /\ Entry(t) = p

(* A descriptor the application holds, and the entry a call is about to     *)
(* use, has an open handle of the entry's type, whoever closed what in the  *)
(* meantime; only an entry being rewound is in between two handles.         *)
HeldLive ==
    /\ \A f \in owned : fdmap[f] # NULL
    /\ \A p \in Pool : Reachable(p) /\ ~Rewinding(p) => Live(p)

(* The handle a function passes to a backend is an open handle of that      *)
(* backend's family at the time of the call, but for the calls that are     *)
(* not made for the type of the descriptor.                                 *)
UseLive ==
    \A t \in Threads :
        /\ pc[t] = "use" /\ Family(t) \notin {"none", "as_fd"}
        /\ <<call[t], type[Entry(t)]>> \notin Mismatched
        => /\ Family(t) = KindOf(type[Entry(t)])
           /\ sce_uid[Entry(t)] \in opened[Family(t)]

(* While poll or select waits, every handle it put into its epoll set is an *)
(* open socket, though other threads may close the descriptors.             *)
PollLive ==
    \A t \in Threads : pc[t] = "wait" =>
        \A i \in HeldCells(t) :
            type[lock[<<t, i>>]] = "SOCKET" /\ sce_uid[lock[<<t, i>>]] \in opened["net"]

(* Two entries in use never stand for the same backend handle, so closing   *)
(* one descriptor cannot close the file behind another.                     *)
NoAlias ==
    \A p, q \in Pool :
        /\ p # q /\ Reachable(p) /\ Reachable(q)
        /\ ~Rewinding(p) /\ ~Rewinding(q)
        => <<type[p], sce_uid[p]>> # <<type[q], sce_uid[q]>>

(* A slot that is in use but that neither the application nor a running     *)
(* call knows of was left by a pipe that got only one descriptor.           *)
OrphanSlotsArePipes ==
    \A f \in FD :
        fdmap[f] # NULL /\ f \notin owned /\ (\A t \in Threads : fd[t] # f)
            => type[fdmap[f]] = "PIPE"

(* The NULL check missing from open, socket, accept and pipe is not needed: *)
(* the slot they fill in is never emptied under them.                       *)
NoFault == \A t \in Threads : pc[t] # "fault"

(* Who will close a handle: a call that has it in a local variable and has  *)
(* not yet stored it for good,                                              *)
LocalKind(t)   == IF call[t] = "rewinddir" THEN "dh" ELSE KindOf(typ[t])
LocalHandle(t) == <<LocalKind(t), uid[t]>>
HasLocal(t)    == pc[t] \in Create \cup {"accept_drop"} \cup Rewind

(* or an entry that is in use, is known to the application by every slot    *)
(* that has it, and is not about to get another handle.                     *)
EntryHandle(p) == <<KindOf(type[p]), sce_uid[p]>>
Unowned(p) == \E f \in FD : fdmap[f] = p /\ f \notin owned
Rewound(p) == \E t \in Threads : pc[t] = "rewind_store" /\ Entry(t) = p
Settled(p) == ref_count[p] > 0 /\ ~Unowned(p) /\ ~Rewound(p)

(* The open handles nobody will ever close; the entries that still count a  *)
(* reference after their last one is gone do not close theirs either.       *)
Stranded ==
    {h \in Kinds \X Uid :
        /\ h[2] \in opened[h[1]]
        /\ \A p \in Pool \ lost : EntryHandle(p) = h => ~Settled(p)
        /\ \A t \in Threads : LocalHandle(t) = h => ~HasLocal(t)}

(* A handle is stranded only                                                *)
(*   - by a call that finds the table full: socket and accept never close   *)
(*     it, open and pipe do (open.c:67, pipe.c:46 and 56) but do not look   *)
(*     whether that close failed;                                           *)
(*   - by rewinddir, which does not look either (rewinddir.c:37);           *)
(*   - by the failing close of a last reference, after which the entry      *)
(*     stays counted (internal/vitadescriptor.c, __fd_drop).                *)
(* Every other path gives its handle back, and in a family whose closes     *)
(* succeed all do but those of socket and accept.                           *)
StrandedByEmfileOrClose ==
    [][\A h \in Stranded' : h \notin Stranded =>
          \/ /\ NoFreeDescriptor /\ (h[1] = "net" \/ MayFail(h[1]))
             /\ \E t \in Threads : pc[t] \in {"acquire", "pipe_dup"} /\ LocalHandle(t) = h
          \/ /\ MayFail(h[1])
             /\ \/ \E t \in Threads : pc[t] = "rewind_close" /\ EntryHandle(Entry(t)) = h
                \/ \E p \in lost' \ lost : EntryHandle(p) = h]_vars

-----------------------------------------------------------------------------
(* Every call returns, if the backend calls it makes return: no call waits  *)
(* for _fd_mutex forever.                                                   *)
CallReturns == \A t \in Threads : pc[t] # "idle" ~> pc[t] = "idle"

-----------------------------------------------------------------------------
(* What a comment of the source promises.                                   *)

(* writev.c: __writev "Operates just like 'write'": the write it makes is a *)
(* write to the descriptor the application named.                           *)
WritevReachesDescriptor ==
    \A t \in Threads : pc[t] = "nested" => lock[<<t, 1>>] = Entry(t)

=============================================================================
