---- MODULE FdHeldProofs ----
(***************************************************************************)
(* What the descriptor table promises an application that names only the    *)
(* descriptors it holds: they stay usable, whatever other threads open,     *)
(* close, duplicate, rewind or poll.                                        *)
(***************************************************************************)
EXTENDS FdCallsProofs

-----------------------------------------------------------------------------
(* Slots.  A slot in use that the application does not hold is being filled *)
(* in by the call that will return it, or was left by a failing pipe.       *)

Filling == Create \ {"acquire"}
Single  == {"use", "nested", "drop", "accept_drop"} \cup Rewind   \* with one grabbed entry

(* The entry of such a slot has no other slot, and no call was given it.    *)
SlotAt(f) ==
    /\ f >= FirstFd
    /\ \A g \in FD : fdmap[g] = fdmap[f] => g = f
    /\ \A t \in Threads : pc[t] \in Single => Entry(t) # fdmap[f]
    /\ type[fdmap[f]] = "PIPE" \/ \E t \in Threads : fd[t] = f

Slots ==
    /\ \A f \in owned : fdmap[f] # NULL
    /\ \A f \in FD : fdmap[f] # NULL /\ f \notin owned => SlotAt(f)

(* The call that fills in a slot knows it, its entry and its handle.        *)
FillAt(t) ==
    /\ fd[t] # NULL <=> pc[t] \in Filling
    /\ fd[t] # NULL =>
        /\ fdmap[fd[t]] # NULL /\ fd[t] \notin owned
        /\ \A u \in Threads : fd[u] = fd[t] => u = t
        /\ pc[t] \in {"store_uid", "store_type"} => ptr[t] = fdmap[fd[t]]
        /\ pc[t] # "pipe_dup" => type[fdmap[fd[t]]] = "FILE"
        /\ pc[t] \in {"load_type", "store_type", "pipe_dup"} => sce_uid[fdmap[fd[t]]] = uid[t]
        /\ pc[t] = "pipe_dup" => type[fdmap[fd[t]]] = "PIPE"
    /\ pc[t] \in Create \cup {"accept_drop"} =>
        /\ call[t] # "rewinddir"
        /\ call[t] = "pipe" <=> typ[t] = "PIPE"
    /\ pc[t] = "pipe_dup" => call[t] = "pipe"
    /\ typ[t] # "FILE" => pc[t] \in Create \cup {"accept_drop"}

(* A free entry has no type yet.                                            *)
FreeIsFile == \A p \in Pool : ref_count[p] = 0 => type[p] = "FILE"

-----------------------------------------------------------------------------
(* Calls.  A directory that is rewound is used by no other call.            *)
RewindAt(t) ==
    /\ call[t] = "rewinddir" => pc[t] \in {"use", "drop"} \cup Rewind
    /\ pc[t] \in Rewind => call[t] = "rewinddir"
    /\ call[t] = "rewinddir" /\ pc[t] # "drop" =>
        /\ type[Entry(t)] = "DIRECTORY"
        /\ \A u \in Threads : pc[u] \in Single /\ Entry(u) = Entry(t) => u = t

(* poll and select keep only sockets.                                       *)
PollAt(t) ==
    /\ pc[t] \in {"scan", "wait"} =>
            \A i \in HeldCells(t) : type[lock[<<t, i>>]] = "SOCKET"
    /\ pc[t] \in {"scan_type", "scan_drop"} =>
            \A i \in HeldCells(t) : i # idx[t] => type[lock[<<t, i>>]] = "SOCKET"

-----------------------------------------------------------------------------
(* Handles.  Each has one holder: an entry that is settled, or a call that  *)
(* has it in a local variable.                                              *)
IsOpen(h) == h[2] \in opened[h[1]]

Handles ==
    /\ \A p \in Pool : Settled(p) => IsOpen(EntryHandle(p))
    /\ \A t \in Threads : HasLocal(t) => IsOpen(LocalHandle(t))
    /\ \A p, q \in Pool : Settled(p) /\ Settled(q) /\ p # q => EntryHandle(p) # EntryHandle(q)
    /\ \A t, u \in Threads : HasLocal(t) /\ HasLocal(u) /\ t # u => LocalHandle(t) # LocalHandle(u)
    /\ \A p \in Pool, t \in Threads : Settled(p) /\ HasLocal(t) => EntryHandle(p) # LocalHandle(t)

HeldBySomeone(h) ==
    \/ \E p \in Pool : Settled(p) /\ EntryHandle(p) = h
    \/ \E t \in Threads : HasLocal(t) /\ LocalHandle(t) = h

Calls == \A t \in Threads : FillAt(t) /\ RewindAt(t) /\ PollAt(t)

HeldInv == Slots /\ FreeIsFile /\ Calls /\ Handles

-----------------------------------------------------------------------------
(* What a step may do to the holders of handles.                            *)

(* No handle loses its last holder and stays open, or gets none when it is  *)
(* opened, but for those of H.                                              *)
HeldBut(H) ==
    \A h \in (Kinds \X Uid) \ H :
        IsOpen(h)' /\ (IsOpen(h) => HeldBySomeone(h)) => HeldBySomeone(h)'

(* The handles for which the step may do so: those of a call that finds the *)
(* table full (a handle other than a socket's only if its close can fail)   *)
(* and that which rewinddir is about to close, if it can fail.              *)
LeftByFull(h) ==
    /\ NoFreeDescriptor /\ (h[1] = "net" \/ MayFail(h[1]))
    /\ \E t \in Threads : pc[t] \in {"acquire", "pipe_dup"} /\ LocalHandle(t) = h

LeftByRewind(h) ==
    MayFail(h[1]) /\ \E t \in Threads : pc[t] = "rewind_close" /\ EntryHandle(Entry(t)) = h

Leaky == {h \in Kinds \X Uid : LeftByFull(h) \/ LeftByRewind(h)}

EntriesKept(P) ==
    \A p \in P : /\ Settled(p)' <=> Settled(p)
                 /\ Settled(p) => EntryHandle(p)' = EntryHandle(p)

LocalsKept(T) ==
    \A t \in T : /\ HasLocal(t)' <=> HasLocal(t)
                 /\ HasLocal(t) => LocalHandle(t)' = LocalHandle(t)

LEMMA HeldButMore ==
    ASSUME NEW H, HeldBut({})
    PROVE  HeldBut(H)
BY DEF HeldBut

(* Opening and closing, seen as sets of handles.                            *)
LEMMA OpenedStep ==
    ASSUME opened \in [Kinds -> SUBSET Uid], NEW k \in Kinds, NEW u \in Uid
    PROVE  /\ opened' = [opened EXCEPT ![k] = @ \cup {u}] =>
                \A h \in Kinds \X Uid : IsOpen(h)' <=> IsOpen(h) \/ h = <<k, u>>
           /\ opened' = [opened EXCEPT ![k] = @ \ {u}] =>
                \A h \in Kinds \X Uid : IsOpen(h)' <=> IsOpen(h) /\ h # <<k, u>>
BY DEF IsOpen

(* The handles of the holders are handles.                                  *)
LEMMA HandleTypes ==
    ASSUME TypeOK, Handles
    PROVE  /\ \A p \in Pool : Settled(p) => EntryHandle(p) \in Kinds \X Uid
           /\ \A t \in Threads : HasLocal(t) => LocalHandle(t) \in Kinds \X Uid
<1>1. \A ty \in Types : KindOf(ty) \in Kinds
  BY DEF Types, KindOf, Kinds
<1>2. \A t \in Threads : LocalKind(t) \in Kinds
  BY <1>1 DEF LocalKind, TypeOK, LocalTypeOK, Kinds
<1>3. ASSUME NEW p \in Pool, Settled(p) PROVE EntryHandle(p) \in Kinds \X Uid
  <2>1. KindOf(type[p]) \in Kinds
    BY <1>1 DEF TypeOK, TableTypeOK
  <2>2. sce_uid[p] \in opened[KindOf(type[p])]
    BY <1>3 DEF Handles, IsOpen, EntryHandle
  <2> QED
    BY <2>1, <2>2 DEF EntryHandle, TypeOK, TableTypeOK
<1>4. ASSUME NEW t \in Threads, HasLocal(t) PROVE LocalHandle(t) \in Kinds \X Uid
  <2>1. uid[t] \in opened[LocalKind(t)]
    BY <1>4 DEF Handles, IsOpen, LocalHandle
  <2> QED
    BY <1>2, <2>1 DEF LocalHandle, TypeOK, TableTypeOK
<1> QED
  BY <1>3, <1>4

(* Nothing happens to handles.                                              *)
LEMMA HandlesQuiet ==
    ASSUME Handles, TypeOK, EntriesKept(Pool), LocalsKept(Threads), UNCHANGED opened
    PROVE  Handles' /\ HeldBut({})
<1>1. \A h : IsOpen(h)' <=> IsOpen(h)
  BY DEF IsOpen
<1>2. Handles'
  BY <1>1 DEF Handles, EntriesKept, LocalsKept
<1>3. HeldBut({})
  BY <1>1 DEF HeldBut, HeldBySomeone, EntriesKept, LocalsKept
<1> QED
  BY <1>2, <1>3

(* A call gets a new handle.                                                *)
LEMMA HandlesNew ==
    ASSUME Handles, TypeOK, NEW t \in Threads, EntriesKept(Pool), LocalsKept(Threads \ {t}),
           ~HasLocal(t), HasLocal(t)', NEW k \in Kinds, NEW u \in Uid \ opened[k], LocalHandle(t)' = <<k, u>>,
           opened' = [opened EXCEPT ![k] = @ \cup {u}]
    PROVE  Handles' /\ HeldBut({})
<1> DEFINE h0 == <<k, u>>
<1>1. h0 \in Kinds \X Uid /\ ~IsOpen(h0) /\ LocalHandle(t)' = h0
  BY DEF IsOpen
<1>2. \A h \in Kinds \X Uid : IsOpen(h)' <=> IsOpen(h) \/ h = h0
  BY OpenedStep DEF TypeOK, TableTypeOK
<1> HIDE DEF h0
<1>3. /\ \A p \in Pool : Settled(p) => EntryHandle(p) # h0 /\ EntryHandle(p) \in Kinds \X Uid
      /\ \A v \in Threads : HasLocal(v) => LocalHandle(v) # h0 /\ LocalHandle(v) \in Kinds \X Uid
  BY <1>1, HandleTypes DEF Handles
<1>4. Handles'
  BY <1>1, <1>2, <1>3 DEF Handles, EntriesKept, LocalsKept
<1>5. HeldBut({})
  BY <1>1, <1>2 DEF HeldBut, HeldBySomeone, EntriesKept, LocalsKept
<1> QED
  BY <1>4, <1>5

(* The handle of an entry is closed with it, or under it.                   *)
LEMMA HandlesClose ==
    ASSUME Handles, TypeOK, NEW p \in Pool, EntriesKept(Pool \ {p}), LocalsKept(Threads),
           Settled(p), ~Settled(p)',
           opened' = [opened EXCEPT ![KindOf(type[p])] = @ \ {sce_uid[p]}]
    PROVE  Handles' /\ HeldBut({})
<1> DEFINE h0 == EntryHandle(p)
<1>1. h0 \in Kinds \X Uid
  BY HandleTypes
<1>2. \A h \in Kinds \X Uid : IsOpen(h)' <=> IsOpen(h) /\ h # h0
  <2> DEFINE k == KindOf(type[p])
             u == sce_uid[p]
  <2>1. h0 = <<k, u>> /\ opened' = [opened EXCEPT ![k] = @ \ {u}]
    BY DEF EntryHandle
  <2> HIDE DEF k, u
  <2>2. k \in Kinds /\ u \in Uid
    BY <1>1, <2>1
  <2>3. \A h \in Kinds \X Uid : IsOpen(h)' <=> IsOpen(h) /\ h # <<k, u>>
    BY <2>1, <2>2, OpenedStep DEF TypeOK, TableTypeOK
  <2> QED
    BY <2>1, <2>3
<1>3. /\ \A q \in Pool \ {p} : Settled(q) => EntryHandle(q) # h0 /\ EntryHandle(q) \in Kinds \X Uid
      /\ \A v \in Threads : HasLocal(v) => LocalHandle(v) # h0 /\ LocalHandle(v) \in Kinds \X Uid
  BY HandleTypes DEF Handles
<1>h. EntryHandle(p) = h0
  OBVIOUS
<1> HIDE DEF h0
<1>4. Handles'
  BY <1>2, <1>3 DEF Handles, EntriesKept, LocalsKept
<1>5. HeldBut({})
  BY <1>2, <1>h DEF HeldBut, HeldBySomeone, EntriesKept, LocalsKept
<1> QED
  BY <1>4, <1>5

(* A call closes the handle it has.                                         *)
LEMMA HandlesDiscard ==
    ASSUME Handles, TypeOK, NEW t \in Threads, EntriesKept(Pool), LocalsKept(Threads \ {t}),
           HasLocal(t), ~HasLocal(t)',
           opened' = [opened EXCEPT ![LocalKind(t)] = @ \ {uid[t]}]
    PROVE  Handles' /\ HeldBut({})
<1> DEFINE h0 == LocalHandle(t)
<1>1. h0 \in Kinds \X Uid
  BY HandleTypes
<1>2. \A h \in Kinds \X Uid : IsOpen(h)' <=> IsOpen(h) /\ h # h0
  <2> DEFINE k == LocalKind(t)
             u == uid[t]
  <2>1. h0 = <<k, u>> /\ opened' = [opened EXCEPT ![k] = @ \ {u}]
    BY DEF LocalHandle
  <2> HIDE DEF k, u
  <2>2. k \in Kinds /\ u \in Uid
    BY <1>1, <2>1
  <2>3. \A h \in Kinds \X Uid : IsOpen(h)' <=> IsOpen(h) /\ h # <<k, u>>
    BY <2>1, <2>2, OpenedStep DEF TypeOK, TableTypeOK
  <2> QED
    BY <2>1, <2>3
<1>3. /\ \A q \in Pool : Settled(q) => EntryHandle(q) # h0 /\ EntryHandle(q) \in Kinds \X Uid
      /\ \A v \in Threads \ {t} : HasLocal(v) => LocalHandle(v) # h0 /\ LocalHandle(v) \in Kinds \X Uid
  BY HandleTypes DEF Handles
<1>h. LocalHandle(t) = h0
  OBVIOUS
<1> HIDE DEF h0
<1>4. Handles'
  BY <1>2, <1>3 DEF Handles, EntriesKept, LocalsKept
<1>5. HeldBut({})
  BY <1>2, <1>h DEF HeldBut, HeldBySomeone, EntriesKept, LocalsKept
<1> QED
  BY <1>4, <1>5

(* A call forgets the handle it has, or did not close it.                   *)
LEMMA HandlesForget ==
    ASSUME Handles, TypeOK, NEW t \in Threads, EntriesKept(Pool), LocalsKept(Threads \ {t}),
           ~HasLocal(t)', UNCHANGED opened
    PROVE  Handles' /\ HeldBut({LocalHandle(t)})
<1>1. \A h : IsOpen(h)' <=> IsOpen(h)
  BY DEF IsOpen
<1>2. Handles'
  BY <1>1 DEF Handles, EntriesKept, LocalsKept
<1>3. HeldBut({LocalHandle(t)})
  BY <1>1 DEF HeldBut, HeldBySomeone, EntriesKept, LocalsKept
<1> QED
  BY <1>2, <1>3

(* The handle of an entry is not closed, though the entry will forget it.   *)
LEMMA HandlesAbandon ==
    ASSUME Handles, TypeOK, NEW p \in Pool, EntriesKept(Pool \ {p}), LocalsKept(Threads),
           ~Settled(p)', UNCHANGED opened
    PROVE  Handles' /\ HeldBut({EntryHandle(p)})
<1>1. \A h : IsOpen(h)' <=> IsOpen(h)
  BY DEF IsOpen
<1>2. Handles'
  BY <1>1 DEF Handles, EntriesKept, LocalsKept
<1>3. HeldBut({EntryHandle(p)})
  BY <1>1 DEF HeldBut, HeldBySomeone, EntriesKept, LocalsKept
<1> QED
  BY <1>2, <1>3

(* An entry takes over the handle of a call.                                *)
LEMMA HandlesMove ==
    ASSUME Handles, TypeOK, NEW t \in Threads, NEW p \in Pool,
           EntriesKept(Pool \ {p}), LocalsKept(Threads \ {t}),
           HasLocal(t), ~HasLocal(t)', ~Settled(p), Settled(p)',
           EntryHandle(p)' = LocalHandle(t), UNCHANGED opened
    PROVE  Handles' /\ HeldBut({})
<1>1. \A h : IsOpen(h)' <=> IsOpen(h)
  BY DEF IsOpen
<1>2. Handles'
  BY <1>1 DEF Handles, EntriesKept, LocalsKept
<1>3. HeldBut({})
  <2> SUFFICES ASSUME NEW h, HeldBySomeone(h) PROVE HeldBySomeone(h)'
    BY <1>1 DEF HeldBut
  <2>1. CASE \E q \in Pool : Settled(q) /\ EntryHandle(q) = h
    BY <2>1 DEF HeldBySomeone, EntriesKept
  <2>2. CASE \E v \in Threads : HasLocal(v) /\ LocalHandle(v) = h
    BY <2>2 DEF HeldBySomeone, LocalsKept
  <2> QED
    BY <2>1, <2>2 DEF HeldBySomeone
<1> QED
  BY <1>2, <1>3

-----------------------------------------------------------------------------
(* An entry that is about to lose its last reference has no other.          *)
LEMMA LastReference ==
    ASSUME IInv, NEW p \in Pool, ref_count[p] = 1
    PROVE  /\ \A f, g \in FD : fdmap[f] = p /\ fdmap[g] = p => f = g
           /\ \A c, d \in Cells : lock[c] = p /\ lock[d] = p => c = d
           /\ \A f \in FD, c \in Cells : ~(fdmap[f] = p /\ lock[c] = p)
<1>1. /\ MapCount(p) \in Nat /\ LockCount(p) \in Nat
      /\ 1 = MapCount(p) + LockCount(p) + LostCount(p)
      /\ LostCount(p) \in {0, 1}
  BY CountsNat, RefCountAsCounts DEF IInv, RefInv, LostCount
<1>2. /\ \A f \in FD : fdmap[f] = p => MapCount(p) > 0
      /\ \A c \in Cells : lock[c] = p => LockCount(p) > 0
  BY CountsPositive
<1>3. ASSUME NEW f \in FD, NEW g \in FD, f # g, fdmap[f] = p, fdmap[g] = p PROVE MapCount(p) > 1
  BY <1>3, Finiteness, CountTwo DEF MapCount
<1>4. ASSUME NEW c \in Cells, NEW d \in Cells, c # d, lock[c] = p, lock[d] = p PROVE LockCount(p) > 1
  BY <1>4, Finiteness, CountTwo DEF LockCount
<1>5. \A f, g \in FD : fdmap[f] = p /\ fdmap[g] = p => f = g
  BY <1>1, <1>3
<1>6. \A c, d \in Cells : lock[c] = p /\ lock[d] = p => c = d
  BY <1>1, <1>4
<1> QED
  BY <1>1, <1>2, <1>5, <1>6

-----------------------------------------------------------------------------
(* Every step is a step of one thread t.                                    *)
OthersSame(t) ==
    \A u \in Threads \ {t} :
        /\ pc'[u] = pc[u] /\ call'[u] = call[u] /\ fd'[u] = fd[u] /\ uid'[u] = uid[u]
        /\ typ'[u] = typ[u] /\ ptr'[u] = ptr[u] /\ idx'[u] = idx[u]
        /\ \A i \in FD : lock'[<<u, i>>] = lock[<<u, i>>]

LEMMA OthersKeep ==
    ASSUME NEW t \in Threads, OthersSame(t), NEW u \in Threads \ {t}
    PROVE  /\ Entry(u)' = Entry(u) /\ HeldCells(u)' = HeldCells(u)
           /\ HasLocal(u)' <=> HasLocal(u)
           /\ LocalHandle(u)' = LocalHandle(u)
<1>1. Entry(u)' = Entry(u) /\ HeldCells(u)' = HeldCells(u)
  BY Indices DEF OthersSame, Entry, HeldCells
<1>2. (HasLocal(u)' <=> HasLocal(u)) /\ LocalHandle(u)' = LocalHandle(u)
  BY DEF OthersSame, HasLocal, LocalHandle, LocalKind
<1> QED
  BY <1>1, <1>2

LEMMA OtherLocals ==
    ASSUME NEW t \in Threads, OthersSame(t)
    PROVE  LocalsKept(Threads \ {t})
BY OthersKeep DEF LocalsKept

(* A call with one grabbed entry has it in cell 0.                          *)
LEMMA SingleEntry ==
    ASSUME IInv, NEW t \in Threads, pc[t] \in Single
    PROVE  Entry(t) \in Pool /\ 0 \in HeldCells(t)
<1>1. 0 \in HeldCells(t)
  BY DEF IInv, CellsExact, CellsAt, Single
<1> QED
  BY <1>1, CellOf DEF HeldCells, Entry, IInv, TypeOK

(* What the other calls rely on survives the step.                          *)
LEMMA CallsStep ==
    ASSUME IInv, HeldInv, NEW t \in Threads, OthersSame(t),
           FillAt(t)', RewindAt(t)', PollAt(t)',
           \A u \in Threads \ {t} : fd[u] # NULL =>
                /\ fdmap'[fd[u]] = fdmap[fd[u]] /\ fd[u] \notin owned' /\ fd'[t] # fd[u]
                /\ type'[fdmap[fd[u]]] = type[fdmap[fd[u]]]
                /\ sce_uid'[fdmap[fd[u]]] = sce_uid[fdmap[fd[u]]],
           \A u \in Threads \ {t}, i \in FD :
                i \in HeldCells(u) /\ type[lock[<<u, i>>]] # "FILE" => type'[lock[<<u, i>>]] = type[lock[<<u, i>>]],
           \A u \in Threads \ {t} :
                call[u] = "rewinddir" /\ pc[u] # "drop" /\ pc'[t] \in Single => Entry(t)' # Entry(u)
    PROVE  Calls'
<1> SUFFICES ASSUME NEW u \in Threads \ {t} PROVE FillAt(u)' /\ RewindAt(u)' /\ PollAt(u)'
  BY DEF Calls
<1>1. FillAt(u) /\ RewindAt(u) /\ PollAt(u)
  BY DEF HeldInv, Calls
<1>2. /\ Entry(u)' = Entry(u) /\ HeldCells(u)' = HeldCells(u)
      /\ \A v \in Threads \ {t} : Entry(v)' = Entry(v)
  BY OthersKeep
<1>3. FillAt(u)'
  BY <1>1 DEF FillAt, OthersSame
<1>4. RewindAt(u)'
  <2>1. call[u] = "rewinddir" => pc[u] \in Single
    BY <1>1 DEF RewindAt, Single
  <2>2. call[u] = "rewinddir" /\ pc[u] # "drop" => type'[Entry(u)] = "DIRECTORY"
    BY <1>1, <2>1, SingleEntry, Indices DEF RewindAt, Entry
  <2> QED
    BY <1>1, <1>2, <2>2 DEF RewindAt, OthersSame
<1>5. PollAt(u)'
  <2>1. \A i \in HeldCells(u) : i \in FD /\ lock'[<<u, i>>] = lock[<<u, i>>]
    BY DEF HeldCells, OthersSame
  <2>2. \A i \in HeldCells(u) : type[lock[<<u, i>>]] = "SOCKET" => type'[lock'[<<u, i>>]] = "SOCKET"
    BY <2>1
  <2> QED
    BY <1>1, <1>2, <2>2 DEF PollAt, OthersSame
<1> QED
  BY <1>3, <1>4, <1>5

(* What is known of a slot that the application does not hold survives.     *)
SlotKept(t, f) ==
    /\ fdmap'[f] = fdmap[f] /\ f \notin owned
    /\ \A g \in FD : fdmap'[g] = fdmap[f] => fdmap[g] = fdmap[f]
    /\ pc'[t] \in Single => Entry(t)' # fdmap[f]
    /\ type[fdmap[f]] = "PIPE" => type'[fdmap[f]] = "PIPE"
    /\ fd[t] = f => fd'[t] = f \/ type'[fdmap[f]] = "PIPE"

LEMMA SlotsStep ==
    ASSUME IInv, HeldInv, NEW t \in Threads, OthersSame(t),
           \A f \in owned' : fdmap'[f] # NULL,
           \A f \in FD \ owned' : fdmap'[f] # NULL => SlotKept(t, f) \/ SlotAt(f)'
    PROVE  Slots'
<1> SUFFICES ASSUME NEW f \in FD, fdmap'[f] # NULL, f \notin owned', SlotKept(t, f)
             PROVE  SlotAt(f)'
  BY DEF Slots
<1>1. SlotAt(f) /\ fdmap'[f] = fdmap[f]
  BY DEF HeldInv, Slots, SlotKept
<1>2. \A u \in Threads \ {t} : Entry(u)' = Entry(u) /\ pc'[u] = pc[u] /\ fd'[u] = fd[u]
  BY OthersKeep DEF OthersSame
<1>3. \A u \in Threads : pc'[u] \in Single => Entry(u)' # fdmap[f]
  BY <1>1, <1>2 DEF SlotAt, SlotKept
<1>4. type'[fdmap[f]] = "PIPE" \/ \E u \in Threads : fd'[u] = f
  BY <1>1, <1>2 DEF SlotAt, SlotKept
<1> QED
  BY <1>1, <1>3, <1>4 DEF SlotAt, SlotKept

(* No call was given an entry that the application does not hold.           *)
LEMMA SingleOwned ==
    ASSUME IInv, HeldInv, NEW t \in Threads, pc[t] \in Single
    PROVE  ~Unowned(Entry(t))
<1>1. Entry(t) \in Pool
  BY SingleEntry
<1> QED
  BY <1>1, Indices DEF Unowned, HeldInv, Slots, SlotAt

(* An entry that is rewound is used by the call that rewinds it alone.      *)
LEMMA SingleRewinder ==
    ASSUME HeldInv, NEW t \in Threads, pc[t] \in Single, NEW u \in Threads \ {t},
           call[u] = "rewinddir", pc[u] # "drop"
    PROVE  Entry(u) # Entry(t)
BY DEF HeldInv, Calls, RewindAt

-----------------------------------------------------------------------------
(* A step that changes no entry, no slot and no handle, but for references  *)
(* to entries that keep others.                                             *)
LEMMA QuietHeld ==
    ASSUME IInv, HeldInv, NEW t \in Threads, OthersSame(t),
           UNCHANGED <<fdmap, sce_uid, type, opened, owned>>, fd'[t] = fd[t],
           \A p \in Pool : ref_count'[p] > 0 <=> ref_count[p] > 0,
           ref_count' \in [Pool -> Nat],
           pc[t] # "rewind_store", pc'[t] # "rewind_store",
           HasLocal(t)' <=> HasLocal(t), HasLocal(t) => LocalHandle(t)' = LocalHandle(t),
           pc'[t] \in Single =>
                /\ ~Unowned(Entry(t)')
                /\ \A u \in Threads \ {t} :
                        call[u] = "rewinddir" /\ pc[u] # "drop" => Entry(t)' # Entry(u),
           FillAt(t)', RewindAt(t)', PollAt(t)'
    PROVE  HeldInv' /\ HeldBut({})
<1>1. \A u \in Threads \ {t} : fd[u] # NULL => fd[u] \notin owned /\ fd[t] # fd[u]
  BY DEF HeldInv, Calls, FillAt
<1>2. Calls'
  BY <1>1, CallsStep
<1>3. \A f \in FD : fdmap[f] # NULL /\ f \notin owned /\ pc'[t] \in Single => Entry(t)' # fdmap[f]
  BY DEF Unowned
<1>4. Slots'
  BY <1>3, SlotsStep DEF SlotKept, HeldInv, Slots
<1>5. FreeIsFile'
  BY DEF HeldInv, FreeIsFile, IInv, TypeOK, TableTypeOK
<1>6. EntriesKept(Pool)
  <2>1. \A p \in Pool : Unowned(p)' <=> Unowned(p)
    BY DEF Unowned
  <2>2. \A p \in Pool : Rewound(p)' <=> Rewound(p)
    BY OthersKeep DEF Rewound, OthersSame
  <2> QED
    BY <2>1, <2>2 DEF EntriesKept, Settled, EntryHandle
<1>7. LocalsKept(Threads)
  BY OtherLocals DEF LocalsKept
<1> QED
  BY <1>2, <1>4, <1>5, <1>6, <1>7, HandlesQuiet DEF HeldInv, IInv

-----------------------------------------------------------------------------
(* Where a call fills in no slot, rewinds no directory and polls nothing.   *)
LEMMA FillsNothing ==
    ASSUME NEW t \in Threads, fd'[t] = NULL, typ'[t] = "FILE",
           pc'[t] \notin Create \cup {"accept_drop"}
    PROVE  FillAt(t)'
BY DEF FillAt, Filling, Create

LEMMA FilledNothing ==
    ASSUME HeldInv, NEW t \in Threads
    PROVE  /\ pc[t] \notin Filling => fd[t] = NULL
           /\ pc[t] \notin Create \cup {"accept_drop"} => typ[t] = "FILE"
           /\ pc[t] \notin {"use", "drop"} \cup Rewind => call[t] # "rewinddir"
BY DEF HeldInv, Calls, FillAt, RewindAt

LEMMA RewindsNothing ==
    ASSUME NEW t \in Threads, call'[t] # "rewinddir", pc'[t] \notin Rewind
    PROVE  RewindAt(t)'
BY DEF RewindAt

LEMMA PollsNothing ==
    ASSUME NEW t \in Threads, pc'[t] \notin {"scan", "wait", "scan_type", "scan_drop"}
    PROVE  PollAt(t)'
BY DEF PollAt

(* A call that returns leaves nothing behind in its locals.                 *)
LEMMA ReturnHeld ==
    ASSUME IInv, NEW t \in Threads, Return(t), \A u \in Threads \ {t}, i \in FD : lock'[<<u, i>>] = lock[<<u, i>>]
    PROVE  /\ OthersSame(t) /\ pc'[t] = "idle" /\ fd'[t] = NULL /\ ~HasLocal(t)'
           /\ FillAt(t)' /\ RewindAt(t)' /\ PollAt(t)'
<1>1. /\ OthersSame(t) /\ pc'[t] = "idle" /\ fd'[t] = NULL /\ typ'[t] = "FILE" /\ call'[t] = "none"
  BY DEF Return, Goto, OthersSame, IInv, TypeOK, LocalTypeOK
<1>2. ~HasLocal(t)' /\ "idle" \notin Create \cup {"accept_drop"} /\ "idle" \notin Rewind
  BY <1>1 DEF HasLocal, Create, Rewind
<1> QED
  BY <1>1, <1>2, FillsNothing, RewindsNothing, PollsNothing

-----------------------------------------------------------------------------
(* The steps that touch neither the table nor a handle.                     *)
LEMMA UseHeld ==
    ASSUME IInv, HeldInv, NEW t \in Threads, Use(t) \/ UseNestedFails(t)
    PROVE  HeldInv' /\ HeldBut({})
<1>1. /\ pc[t] = "use" /\ pc'[t] = "drop" /\ UNCHANGED <<call, fd, uid, typ, lock, owned>>
      /\ UNCHANGED <<fdmap, sce_uid, type, opened, ref_count>> /\ OthersSame(t)
  BY DEF Use, UseNestedFails, Goto, tableVars, OthersSame, IInv, TypeOK, LocalTypeOK
<1>2. pc[t] \in Single /\ Entry(t)' = Entry(t) /\ ~HasLocal(t) /\ ~HasLocal(t)'
  BY <1>1 DEF Single, Entry, HasLocal, Create, Rewind
<1>3. fd'[t] = NULL /\ typ'[t] = "FILE"
  BY <1>1, FilledNothing DEF Filling, Create
<1>4. FillAt(t)' /\ PollAt(t)' /\ RewindAt(t)'
  BY <1>1, <1>3, FillsNothing, PollsNothing DEF Create, RewindAt, Rewind
<1> QED
  BY <1>1, <1>2, <1>4, QuietHeld, SingleOwned, SingleRewinder DEF IInv, TypeOK, TableTypeOK

LEMMA LoadPtrHeld ==
    ASSUME IInv, HeldInv, NEW t \in Threads, LoadPtr(t)
    PROVE  HeldInv' /\ HeldBut({})
<1>1. /\ pc[t] \in {"load_uid", "load_type"} /\ pc'[t] \in {"store_uid", "store_type"}
      /\ (pc[t] = "load_uid" => pc'[t] = "store_uid") /\ (pc[t] = "load_type" => pc'[t] = "store_type")
      /\ ptr'[t] = fdmap[fd[t]]
      /\ UNCHANGED <<call, fd, uid, typ, lock, owned>>
      /\ UNCHANGED <<fdmap, sce_uid, type, opened, ref_count>> /\ OthersSame(t)
  BY DEF LoadPtr, Goto, tableVars, OthersSame, IInv, TypeOK, LocalTypeOK
<1>2. HasLocal(t) /\ HasLocal(t)' /\ LocalHandle(t)' = LocalHandle(t)
  BY <1>1 DEF HasLocal, Create, LocalHandle, LocalKind
<1>3. FillAt(t)
  BY DEF HeldInv, Calls
<1>4. FillAt(t)'
  BY <1>1, <1>3 DEF FillAt, Filling, Create
<1>5. PollAt(t)' /\ RewindAt(t)' /\ pc'[t] \notin Single
  BY <1>1, PollsNothing, RewindsNothing, FilledNothing DEF Single, Rewind
<1> QED
  BY <1>1, <1>2, <1>4, <1>5, QuietHeld DEF IInv, TypeOK, TableTypeOK

(* Fault cannot happen.                                                     *)
LEMMA NeverFault ==
    ASSUME IInv, HeldInv, NEW t \in Threads
    PROVE  ~Fault(t)
BY DEF Fault, HeldInv, Calls, FillAt, Filling, Create

(* dup2(fd, fd), and no step at all.                                        *)
LEMMA StillHeld ==
    ASSUME IInv, HeldInv, UNCHANGED <<fdmap, sce_uid, type, ref_count, opened, localVars, lock, owned>>
    PROVE  HeldInv' /\ HeldBut({})
<1>1. UNCHANGED <<pc, call, fd, uid, typ, ptr, idx, pfd>>
  BY DEF localVars
<1>2. \A t \in Threads : Entry(t)' = Entry(t) /\ HeldCells(t)' = HeldCells(t)
  BY DEF Entry, HeldCells
<1>3. Slots' /\ FreeIsFile'
  BY <1>1, <1>2 DEF HeldInv, Slots, SlotAt, FreeIsFile
<1>4. Calls'
  <2> SUFFICES ASSUME NEW t \in Threads PROVE FillAt(t)' /\ RewindAt(t)' /\ PollAt(t)'
    BY DEF Calls
  <2>1. FillAt(t)'
    BY <1>1 DEF HeldInv, Calls, FillAt
  <2>2. RewindAt(t)'
    BY <1>1, <1>2 DEF HeldInv, Calls, RewindAt
  <2>3. PollAt(t)'
    BY <1>1, <1>2 DEF HeldInv, Calls, PollAt
  <2> QED
    BY <2>1, <2>2, <2>3
<1>5. EntriesKept(Pool)
  BY <1>1, <1>2 DEF EntriesKept, Settled, EntryHandle, Unowned, Rewound
<1>6. LocalsKept(Threads)
  BY <1>1 DEF LocalsKept, HasLocal, LocalHandle, LocalKind
<1> QED
  BY <1>3, <1>4, <1>5, <1>6, HandlesQuiet DEF HeldInv, IInv

(* The steps of poll and select that only move on.                          *)
Polling == {"scan", "scan_type", "scan_drop", "wait", "unlock"}

LEMMA PollingStep ==
    ASSUME IInv, HeldInv, NEW t \in Threads, OthersSame(t), UNCHANGED <<fdmap, sce_uid, type, opened, ref_count, owned>>,
           pc[t] \in Polling \cup {"idle"}, pc'[t] \in Polling \cup {"idle"},
           fd'[t] = fd[t], typ'[t] = typ[t], call'[t] # "rewinddir", PollAt(t)'
    PROVE  HeldInv' /\ HeldBut({})
<1>1. /\ pc[t] \notin Create \cup {"accept_drop"} \cup Rewind
      /\ pc'[t] \notin Create \cup {"accept_drop"} \cup Rewind
      /\ pc'[t] \notin Single
  BY DEF Polling, Create, Rewind, Single
<1>2. FillAt(t)' /\ RewindAt(t)'
  BY <1>1, FilledNothing, FillsNothing, RewindsNothing DEF Filling
<1>3. pc[t] # "rewind_store" /\ pc'[t] # "rewind_store" /\ ~HasLocal(t) /\ ~HasLocal(t)'
  BY <1>1 DEF Rewind, HasLocal
<1> QED
  BY <1>1, <1>2, <1>3, QuietHeld DEF IInv, TypeOK, TableTypeOK

LEMMA PollMoves ==
    ASSUME IInv, HeldInv, NEW t \in Threads,
           \/ PollSkip(t) \/ PollType(t) \/ PollWait(t) \/ PollWake(t) \/ PollReturn(t)
           \/ \E c \in PollCalls, a \in PollArrays : PollStart(t, c, a)
    PROVE  HeldInv' /\ HeldBut({})
<1> USE DEF Goto, Advance, tableVars
<1>0. TypeOK /\ LocalTypeOK /\ PollAt(t)
  BY DEF IInv, TypeOK, HeldInv, Calls
<1>1. ASSUME PollSkip(t) \/ PollType(t) \/ PollWait(t) \/ PollWake(t)
      PROVE  HeldInv' /\ HeldBut({})
  <2>1. /\ pc[t] \in Polling /\ pc'[t] \in Polling
        /\ UNCHANGED <<fdmap, sce_uid, type, opened, ref_count, owned, call, fd, typ, lock>>
    BY <1>0, <1>1 DEF PollSkip, PollType, PollWait, PollWake, Polling, LocalTypeOK
  <2>2. OthersSame(t)
    BY <1>0, <1>1 DEF PollSkip, PollType, PollWait, PollWake, OthersSame, LocalTypeOK
  <2>3. HeldCells(t)' = HeldCells(t)
    BY <2>1 DEF HeldCells
  <2>4. PollAt(t)'
    BY <1>0, <1>1, <2>1, <2>3 DEF PollSkip, PollType, PollWait, PollWake, PollAt, LocalTypeOK
  <2>5. call'[t] # "rewinddir"
    BY <2>1, FilledNothing DEF Polling, Rewind
  <2> QED
    BY <2>1, <2>2, <2>4, <2>5, PollingStep
<1>2. CASE PollReturn(t)
  <2>1. /\ pc[t] = "unlock" /\ UNCHANGED <<fdmap, sce_uid, type, opened, ref_count, owned>>
        /\ typ'[t] = "FILE" /\ call'[t] = "none"
    BY <1>0, <1>2 DEF PollReturn, Return, LocalTypeOK
  <2>2. OthersSame(t) /\ pc'[t] = "idle" /\ fd'[t] = NULL /\ PollAt(t)'
    BY <1>2, ReturnHeld DEF PollReturn
  <2>3. fd[t] = NULL /\ typ[t] = "FILE"
    BY <2>1, FilledNothing DEF Filling, Create
  <2> QED
    BY <2>1, <2>2, <2>3, PollingStep DEF Polling
<1>3. ASSUME NEW c \in PollCalls, NEW a \in PollArrays, PollStart(t, c, a)
      PROVE  HeldInv' /\ HeldBut({})
  <2>1. /\ pc[t] = "idle" /\ pc'[t] = "scan" /\ call'[t] = c
        /\ UNCHANGED <<fdmap, sce_uid, type, opened, ref_count, owned, fd, typ, lock>>
    BY <1>0, <1>3 DEF PollStart, LocalTypeOK
  <2>2. OthersSame(t)
    BY <1>0, <1>3 DEF PollStart, OthersSame, LocalTypeOK
  <2>3. HeldCells(t)' = {}
    BY <2>1 DEF HeldCells, IInv, CellsExact, CellsAt
  <2>4. PollAt(t)'
    BY <2>1, <2>3 DEF PollAt
  <2> QED
    BY <2>1, <2>2, <2>4, PollingStep DEF Polling, PollCalls
<1> QED
  BY <1>1, <1>2, <1>3

-----------------------------------------------------------------------------
(* __fd_grab.                                                               *)
LEMMA GrabEffect ==
    ASSUME IInv, NEW f, fd_grab(f)
    PROVE  /\ f \in FD /\ fdmap[f] \in Pool
           /\ UNCHANGED <<fdmap, sce_uid, type, opened>>
           /\ ref_count' \in [Pool -> Nat]
           /\ \A p \in Pool : ref_count'[p] > 0 <=> ref_count[p] > 0
<1>1. f \in FD /\ fdmap[f] \in Pool /\ fdmap[f] # NULL
  BY DEF fd_grab, is_fd_valid, IInv, TypeOK, TableTypeOK
<1>2. ref_count[fdmap[f]] > 0
  BY <1>1, ReferencedEntry DEF IInv, TypeOK
<1> QED
  BY <1>1, <1>2 DEF fd_grab, IInv, TypeOK, TableTypeOK

(* An entry of a slot the application holds has no slot it does not hold.   *)
LEMMA OwnedEntry ==
    ASSUME IInv, HeldInv, NEW f \in owned
    PROVE  f \in FD /\ fdmap[f] \in Pool /\ ~Unowned(fdmap[f])
<1>1. f \in FD /\ fdmap[f] # NULL /\ fdmap[f] \in Pool
  BY DEF HeldInv, Slots, IInv, TypeOK, TableTypeOK
<1> QED
  BY <1>1 DEF HeldInv, Slots, SlotAt, Unowned

LEMMA GrabHeld ==
    ASSUME IInv, HeldInv, Disciplined, NEW t \in Threads, NEW c \in UseCalls, NEW f \in FD, Grab(t, c, f)
    PROVE  HeldInv' /\ HeldBut({})
<1>1. /\ pc[t] = "idle" /\ pc'[t] = "use" /\ call'[t] = c /\ f \in owned
      /\ UNCHANGED <<fd, uid, typ, ptr, idx, owned>>
      /\ fd_grab(f) /\ lock' = [lock EXCEPT ![<<t, 0>>] = fdmap[f]]
  BY DEF Grab, Goto, Held, IInv, TypeOK, LocalTypeOK
<1>2. /\ fdmap[f] \in Pool /\ UNCHANGED <<fdmap, sce_uid, type, opened>> /\ ref_count' \in [Pool -> Nat]
      /\ \A p \in Pool : ref_count'[p] > 0 <=> ref_count[p] > 0
  BY <1>1, GrabEffect
<1>3. Entry(t)' = fdmap[f]
  BY <1>1, Indices, CellOf DEF Entry, IInv, TypeOK
<1>4. OthersSame(t)
  <2>1. \A u \in Threads \ {t}, i \in FD : lock'[<<u, i>>] = lock[<<u, i>>]
    BY <1>1, <1>2, Indices, CellWrite DEF IInv, TypeOK
  <2> QED
    BY <2>1 DEF OthersSame, Grab, Goto, IInv, TypeOK, LocalTypeOK
<1>5. ~HasLocal(t) /\ ~HasLocal(t)'
  BY <1>1 DEF HasLocal, Create, Rewind
<1>6. MayUse(c, fdmap[f])
  BY DEF Grab
<1>7. ASSUME NEW u \in Threads, call[u] = "rewinddir", pc[u] # "drop"
      PROVE  Entry(u) # Entry(t)'
  BY <1>3, <1>6, <1>7 DEF MayUse, Rewinding
<1>8. RewindAt(t)'
  <2>1. CASE c = "rewinddir"
    <3>1. "rewinddir" \in DirCalls
      BY DEF DirCalls, Api, rewinddir
    <3>2. type[fdmap[f]] = "DIRECTORY" /\ ~Referenced(fdmap[f])
      BY <1>6, <2>1, <3>1 DEF MayUse
    <3>3. \A u \in Threads \ {t} : Entry(u)' # fdmap[f]
      <4>1. \A u \in Threads : Entry(u) # fdmap[f]
        BY <3>2, CellOf, Indices DEF Referenced, Entry
      <4> QED
        BY <1>4, <4>1, OthersKeep
    <3> QED
      BY <1>1, <1>2, <1>3, <3>2, <3>3 DEF RewindAt, Rewind
  <2>2. CASE c # "rewinddir"
    BY <1>1, <2>2, RewindsNothing DEF Rewind
  <2> QED
    BY <2>1, <2>2
<1>9. FillAt(t)' /\ PollAt(t)'
  BY <1>1, FillsNothing, FilledNothing, PollsNothing DEF Filling, Create
<1>10. ~Unowned(Entry(t)')
  BY <1>1, <1>3, OwnedEntry
<1> QED
  BY <1>1, <1>2, <1>4, <1>5, <1>7, <1>8, <1>9, <1>10, QuietHeld

LEMMA UseNestedHeld ==
    ASSUME IInv, HeldInv, NEW t \in Threads, UseNested(t)
    PROVE  HeldInv' /\ HeldBut({})
<1> DEFINE n == sce_uid[Entry(t)]
<1>1. /\ pc[t] = "use" /\ pc'[t] = "nested" /\ UNCHANGED <<call, fd, uid, typ, ptr, idx, owned>>
      /\ fd_grab(n) /\ lock' = [lock EXCEPT ![<<t, 1>>] = fdmap[n]] /\ Family(t) = "as_fd"
  BY DEF UseNested, Goto, IInv, TypeOK, LocalTypeOK
<1> HIDE DEF n
<1>2. /\ fdmap[n] \in Pool /\ UNCHANGED <<fdmap, sce_uid, type, opened>> /\ ref_count' \in [Pool -> Nat]
      /\ \A p \in Pool : ref_count'[p] > 0 <=> ref_count[p] > 0
  BY <1>1, GrabEffect
<1>3. Entry(t)' = Entry(t)
  BY <1>1, Indices, CellOf DEF Entry, IInv, TypeOK
<1>4. OthersSame(t)
  <2>1. \A u \in Threads \ {t}, i \in FD : lock'[<<u, i>>] = lock[<<u, i>>]
    BY <1>1, <1>2, Indices, CellWrite DEF IInv, TypeOK
  <2> QED
    BY <2>1 DEF OthersSame, UseNested, Goto, IInv, TypeOK, LocalTypeOK
<1>5. ~HasLocal(t) /\ ~HasLocal(t)' /\ pc[t] \in Single
  BY <1>1 DEF HasLocal, Create, Rewind, Single
<1>6. call[t] # "rewinddir"
  <2> SUFFICES ASSUME call[t] = "rewinddir" PROVE FALSE
    OBVIOUS
  <2>1. type[Entry(t)] = "DIRECTORY"
    BY <1>1 DEF HeldInv, Calls, RewindAt
  <2> QED
    BY <1>1, <2>1 DEF Family, Api, rewinddir, Always, Row
<1>7. FillAt(t)' /\ PollAt(t)' /\ RewindAt(t)'
  BY <1>1, <1>6, FillsNothing, FilledNothing, PollsNothing, RewindsNothing DEF Filling, Create, Rewind
<1> QED
  BY <1>1, <1>2, <1>3, <1>4, <1>5, <1>7, QuietHeld, SingleOwned, SingleRewinder

LEMMA PollGrabHeld ==
    ASSUME IInv, HeldInv, NEW t \in Threads, PollGrab(t)
    PROVE  HeldInv' /\ HeldBut({})
<1> DEFINE n == Element(t)
<1>1. /\ pc[t] = "scan" /\ pc'[t] = "scan_type" /\ UNCHANGED <<call, fd, uid, typ, ptr, idx, owned>>
      /\ fd_grab(n) /\ lock' = [lock EXCEPT ![<<t, idx[t]>>] = fdmap[n]] /\ idx[t] < Len(pfd[t])
  BY DEF PollGrab, Goto, IInv, TypeOK, LocalTypeOK
<1> HIDE DEF n
<1>2. /\ fdmap[n] \in Pool /\ UNCHANGED <<fdmap, sce_uid, type, opened>> /\ ref_count' \in [Pool -> Nat]
      /\ \A p \in Pool : ref_count'[p] > 0 <=> ref_count[p] > 0
  BY <1>1, GrabEffect
<1>i. idx[t] \in FD
  BY <1>1, PollIndex
<1>3. /\ HeldCells(t)' = HeldCells(t) \cup {idx[t]}
      /\ \A u \in Threads \ {t}, i \in FD : lock'[<<u, i>>] = lock[<<u, i>>]
  BY <1>1, <1>2, <1>i, Indices, CellWrite DEF IInv, TypeOK
<1>4. OthersSame(t)
  BY <1>3 DEF OthersSame, PollGrab, Goto, IInv, TypeOK, LocalTypeOK
<1>5. \A i \in FD : i # idx[t] => lock'[<<t, i>>] = lock[<<t, i>>]
  BY <1>1, <1>i, CellOf DEF IInv, TypeOK
<1>6. PollAt(t)'
  <2>1. \A i \in HeldCells(t) : i \in FD /\ type[lock[<<t, i>>]] = "SOCKET"
    BY <1>1 DEF HeldInv, Calls, PollAt, HeldCells
  <2> QED
    BY <1>1, <1>2, <1>3, <1>5, <2>1 DEF PollAt
<1>7. ~HasLocal(t) /\ ~HasLocal(t)' /\ pc'[t] \notin Single
  BY <1>1 DEF HasLocal, Create, Rewind, Single
<1>8. FillAt(t)' /\ RewindAt(t)'
  BY <1>1, FillsNothing, FilledNothing, RewindsNothing DEF Filling, Create, Rewind
<1> QED
  BY <1>1, <1>2, <1>4, <1>6, <1>7, <1>8, QuietHeld

-----------------------------------------------------------------------------
(* What losing a reference does to the entry p: it keeps another one, or is *)
(* given up because its close was refused, or it goes with its handle.      *)
DropKeeps(p) == UNCHANGED <<sce_uid, type, opened>> /\ ref_count[p] > 0 /\ ref_count'[p] > 0

DropCloses(p) ==
    /\ ref_count[p] = 1 /\ ref_count'[p] = 0 /\ type'[p] = "FILE"
    /\ opened' = [opened EXCEPT ![KindOf(type[p])] = @ \ {sce_uid[p]}]

(* What a close may return is a number.                                     *)
LEMMA CloseResultType == \A r \in CloseResults : r \in Int
BY TableAssumption DEF CloseResults

LEMMA DropFields ==
    ASSUME IInv, NEW p \in Pool, ref_count[p] > 0,
           NEW r \in CloseResults, r \in CloseReturns(p),
           ref_count' = RefAfterDrop(p, r), FieldsAfterDrop(p, r)
    PROVE  /\ DropKeeps(p) \/ DropCloses(p)
           /\ ref_count' \in [Pool -> Nat]
           /\ \A q \in Pool \ {p} :
                ref_count'[q] = ref_count[q] /\ type'[q] = type[q] /\ sce_uid'[q] = sce_uid[q]
<1>1. r \in Int
  BY CloseResultType
<1>2. ref_count \in [Pool -> Nat] /\ type \in [Pool -> Types] /\ sce_uid \in [Pool -> Uid \cup {NoUid}]
  BY DEF IInv, TypeOK, TableTypeOK
<1>3. CASE Closes(p, r)
  <2>1. ref_count[p] = 1 /\ ~Refused(p, r)
    BY <1>1, <1>3 DEF Closes, Refused
  <2> QED
    BY <1>2, <1>3, <2>1 DEF RefAfterDrop, FieldsAfterDrop, DropCloses
<1>4. CASE ~Closes(p, r)
  BY <1>1, <1>2, <1>4 DEF Closes, Refused, RefAfterDrop, FieldsAfterDrop, DropKeeps
<1> QED
  BY <1>3, <1>4

(* A call drops the reference in its cell i.                                *)
LEMMA DropEffect ==
    ASSUME IInv, HeldInv, NEW t \in Threads, NEW i \in HeldCells(t), DropCell(t, i),
           NEW p, p = lock[<<t, i>>]
    PROVE  /\ p \in Pool /\ UNCHANGED fdmap /\ ref_count' \in [Pool -> Nat]
           /\ \A u \in Threads, j \in FD :
                lock'[<<u, j>>] = IF u = t /\ j = i THEN NULL ELSE lock[<<u, j>>]
           /\ HeldCells(t)' = HeldCells(t) \ {i}
           /\ DropKeeps(p) \/ DropCloses(p)
           /\ \A q \in Pool \ {p} :
                ref_count'[q] = ref_count[q] /\ type'[q] = type[q] /\ sce_uid'[q] = sce_uid[q]
           /\ DropCloses(p) => /\ \A f \in FD : fdmap[f] # p
                               /\ \A u \in Threads, j \in FD : lock[<<u, j>>] = p => u = t /\ j = i
           /\ \A u \in Threads, j \in FD : lock'[<<u, j>>] # NULL =>
                type'[lock'[<<u, j>>]] = type[lock[<<u, j>>]] /\ lock'[<<u, j>>] = lock[<<u, j>>]
<1>1. i \in FD /\ <<t, i>> \in Cells /\ p # NULL /\ p \in Pool
  BY CellOf DEF HeldCells, IInv, TypeOK
<1> PICK r \in CloseResults : fd_drop(p, r)
  BY DEF DropCell
<1>2. lock' = [lock EXCEPT ![<<t, i>>] = NULL]
  BY DEF DropCell
<1>3. ref_count[p] > 0
  BY <1>1, ReferencedEntry DEF IInv, TypeOK
<1>4. /\ DropKeeps(p) \/ DropCloses(p)
      /\ ref_count' \in [Pool -> Nat]
      /\ \A q \in Pool \ {p} :
           ref_count'[q] = ref_count[q] /\ type'[q] = type[q] /\ sce_uid'[q] = sce_uid[q]
  BY <1>1, <1>3, DropFields DEF fd_drop
<1>5. \A u \in Threads, j \in FD :
         lock'[<<u, j>>] = IF u = t /\ j = i THEN NULL ELSE lock[<<u, j>>]
  BY <1>2, CellOf DEF IInv, TypeOK
<1>6. DropCloses(p) => /\ \A f \in FD : fdmap[f] # p
                       /\ \A u \in Threads, j \in FD : lock[<<u, j>>] = p => u = t /\ j = i
  <2> SUFFICES ASSUME DropCloses(p)
               PROVE  /\ \A f \in FD : fdmap[f] # p
                      /\ \A u \in Threads, j \in FD : lock[<<u, j>>] = p => u = t /\ j = i
    OBVIOUS
  <2>1. ref_count[p] = 1
    BY DEF DropCloses
  <2>2. \A u \in Threads, j \in FD : lock[<<u, j>>] = p => <<u, j>> = <<t, i>>
    BY <1>1, <2>1, LastReference, CellOf
  <2> QED
    BY <1>1, <2>1, <2>2, LastReference
<1>7. HeldCells(t)' = HeldCells(t) \ {i}
  BY <1>1, <1>2, CellWrite DEF IInv, TypeOK
<1>8. ASSUME NEW u \in Threads, NEW j \in FD, lock'[<<u, j>>] # NULL
      PROVE  type'[lock'[<<u, j>>]] = type[lock[<<u, j>>]] /\ lock'[<<u, j>>] = lock[<<u, j>>]
  <2>1. lock'[<<u, j>>] = lock[<<u, j>>] /\ ~(u = t /\ j = i) /\ lock[<<u, j>>] \in Pool
    BY <1>5, <1>8, CellOf DEF IInv, TypeOK
  <2> QED
    BY <1>4, <1>6, <2>1 DEF DropKeeps
<1> QED
  BY <1>1, <1>4, <1>5, <1>6, <1>7, <1>8 DEF fd_drop

LEMMA DropCells ==
    ASSUME IInv, HeldInv, NEW t \in Threads, NEW i \in HeldCells(t), DropCell(t, i)
    PROVE  /\ \A u \in Threads, j \in FD :
                lock'[<<u, j>>] = IF u = t /\ j = i THEN NULL ELSE lock[<<u, j>>]
           /\ \A u \in Threads \ {t}, j \in FD : lock'[<<u, j>>] = lock[<<u, j>>]
           /\ HeldCells(t)' = HeldCells(t) \ {i}
           /\ \A u \in Threads, j \in FD : lock'[<<u, j>>] # NULL =>
                type'[lock'[<<u, j>>]] = type[lock[<<u, j>>]] /\ lock'[<<u, j>>] = lock[<<u, j>>]
<1>1. i \in FD /\ lock' = [lock EXCEPT ![<<t, i>>] = NULL]
  BY DEF DropCell, HeldCells
<1>2. \A u \in Threads, j \in FD :
         lock'[<<u, j>>] = IF u = t /\ j = i THEN NULL ELSE lock[<<u, j>>]
  BY <1>1, CellOf DEF IInv, TypeOK
<1>3. \A u \in Threads \ {t}, j \in FD : lock'[<<u, j>>] = lock[<<u, j>>]
  BY <1>2
<1>4. PICK p : p = lock[<<t, i>>]
  OBVIOUS
<1>5. /\ HeldCells(t)' = HeldCells(t) \ {i}
      /\ \A u \in Threads, j \in FD : lock'[<<u, j>>] # NULL =>
           type'[lock'[<<u, j>>]] = type[lock[<<u, j>>]] /\ lock'[<<u, j>>] = lock[<<u, j>>]
  BY <1>4, DropEffect
<1> QED
  BY <1>2, <1>3, <1>5

(* After it the table is as sound as before.                                *)
LEMMA DropHeld ==
    ASSUME IInv, HeldInv, NEW t \in Threads, NEW i \in HeldCells(t), DropCell(t, i),
           OthersSame(t), UNCHANGED owned, fd'[t] = fd[t],
           pc[t] # "rewind_store", pc'[t] # "rewind_store",
           HasLocal(t)' <=> HasLocal(t), HasLocal(t) => LocalHandle(t)' = LocalHandle(t),
           pc'[t] \in Single => pc[t] \in Single /\ Entry(t)' = Entry(t),
           FillAt(t)', RewindAt(t)', PollAt(t)'
    PROVE  HeldInv' /\ HeldBut({})
<1> PICK p : p = lock[<<t, i>>]
  OBVIOUS
<1>1. /\ p \in Pool /\ UNCHANGED fdmap /\ ref_count' \in [Pool -> Nat]
      /\ DropKeeps(p) \/ DropCloses(p)
      /\ \A q \in Pool \ {p} :
           ref_count'[q] = ref_count[q] /\ type'[q] = type[q] /\ sce_uid'[q] = sce_uid[q]
      /\ DropCloses(p) => /\ \A f \in FD : fdmap[f] # p
                          /\ \A u \in Threads, j \in FD : lock[<<u, j>>] = p => u = t /\ j = i
      /\ \A u \in Threads, j \in FD : lock'[<<u, j>>] # NULL =>
           type'[lock'[<<u, j>>]] = type[lock[<<u, j>>]] /\ lock'[<<u, j>>] = lock[<<u, j>>]
  BY DropEffect
<1>2. i \in FD
  BY DEF HeldCells
<1>3. pc'[t] \in Single =>
        /\ ~Unowned(Entry(t)')
        /\ \A u \in Threads \ {t} : call[u] = "rewinddir" /\ pc[u] # "drop" => Entry(t)' # Entry(u)
  BY SingleOwned, SingleRewinder
<1>4. CASE DropKeeps(p)
  <2>1. \A q \in Pool : ref_count'[q] > 0 <=> ref_count[q] > 0
    BY <1>1, <1>4 DEF DropKeeps
  <2> QED
    BY <1>1, <1>3, <1>4, <2>1, QuietHeld DEF DropKeeps
<1>5. CASE DropCloses(p)
  <2>1. \A f \in FD : fdmap[f] # NULL => fdmap[f] \in Pool \ {p}
    BY <1>1, <1>5 DEF IInv, TypeOK, TableTypeOK
  <2>2. Calls'
    <3>1. \A u \in Threads \ {t} : fd[u] # NULL =>
            fd[u] \in FD /\ fdmap[fd[u]] # NULL /\ fd[u] \notin owned /\ fd[t] # fd[u]
      BY DEF HeldInv, Calls, FillAt, IInv, TypeOK, LocalTypeOK
    <3>2. ASSUME NEW u \in Threads \ {t}, NEW j \in FD, j \in HeldCells(u)
          PROVE  type'[lock[<<u, j>>]] = type[lock[<<u, j>>]]
      <4>1. lock'[<<u, j>>] = lock[<<u, j>>] /\ lock[<<u, j>>] # NULL
        BY <3>2 DEF OthersSame, HeldCells
      <4> QED
        BY <1>1, <4>1
    <3> QED
      BY <1>1, <1>3, <2>1, <3>1, <3>2, CallsStep
  <2>3. Slots'
    <3>1. \A f \in FD : fdmap[f] # NULL /\ f \notin owned /\ pc'[t] \in Single => Entry(t)' # fdmap[f]
      BY <1>3 DEF Unowned
    <3> QED
      BY <1>1, <2>1, <3>1, SlotsStep DEF SlotKept, HeldInv, Slots
  <2>4. FreeIsFile'
    BY <1>1, <1>5 DEF HeldInv, FreeIsFile, DropCloses
  <2>5. ~Unowned(p) /\ ~Rewound(p)
    <3>1. \A u \in Threads : Entry(u) = p => u = t
      BY <1>1, <1>5, Indices DEF Entry
    <3> QED
      BY <1>1, <1>5, <3>1 DEF Unowned, Rewound
  <2>6. Settled(p) /\ ~Settled(p)'
    BY <1>5, <2>5 DEF Settled, DropCloses
  <2>7. EntriesKept(Pool \ {p})
    <3>1. \A q \in Pool : (Unowned(q)' <=> Unowned(q)) /\ (Rewound(q)' <=> Rewound(q))
      BY <1>1, OthersKeep DEF Unowned, Rewound, OthersSame
    <3> QED
      BY <1>1, <3>1 DEF EntriesKept, Settled, EntryHandle
  <2>8. LocalsKept(Threads)
    BY OtherLocals DEF LocalsKept
  <2> QED
    BY <1>1, <1>5, <2>2, <2>3, <2>4, <2>6, <2>7, <2>8, HandlesClose DEF HeldInv, IInv, DropCloses
<1> QED
  BY <1>1, <1>4, <1>5

LEMMA DropNestedHeld ==
    ASSUME IInv, HeldInv, NEW t \in Threads, DropNested(t)
    PROVE  HeldInv' /\ HeldBut({})
<1>1. /\ pc[t] = "nested" /\ pc'[t] = "drop" /\ UNCHANGED <<call, fd, uid, typ, ptr, idx, owned>>
      /\ DropCell(t, 1)
  BY DEF DropNested, Goto, IInv, TypeOK, LocalTypeOK
<1>2. 1 \in HeldCells(t)
  BY <1>1 DEF IInv, CellsExact, CellsAt
<1>3. \A u \in Threads, j \in FD :
         lock'[<<u, j>>] = IF u = t /\ j = 1 THEN NULL ELSE lock[<<u, j>>]
  BY <1>1, <1>2, DropCells
<1>4. OthersSame(t) /\ Entry(t)' = Entry(t)
  BY <1>1, <1>3, Indices DEF OthersSame, DropNested, Goto, Entry, IInv, TypeOK, LocalTypeOK
<1>5. ~HasLocal(t) /\ ~HasLocal(t)' /\ pc[t] \in Single
  BY <1>1 DEF HasLocal, Create, Rewind, Single
<1>6. FillAt(t)' /\ PollAt(t)' /\ RewindAt(t)'
  BY <1>1, FillsNothing, FilledNothing, PollsNothing, RewindsNothing DEF Filling, Create, Rewind
<1> QED
  BY <1>1, <1>2, <1>4, <1>5, <1>6, DropHeld

LEMMA DropCallHeld ==
    ASSUME IInv, HeldInv, NEW t \in Threads, Drop(t)
    PROVE  HeldInv' /\ HeldBut({})
<1>1. pc[t] = "drop" /\ UNCHANGED owned /\ DropCell(t, 0) /\ Return(t)
  BY DEF Drop
<1>2. 0 \in HeldCells(t)
  BY <1>1 DEF IInv, CellsExact, CellsAt
<1>3. \A u \in Threads \ {t}, j \in FD : lock'[<<u, j>>] = lock[<<u, j>>]
  BY <1>1, <1>2, DropCells
<1>4. /\ OthersSame(t) /\ pc'[t] = "idle" /\ fd'[t] = NULL /\ ~HasLocal(t)'
      /\ FillAt(t)' /\ RewindAt(t)' /\ PollAt(t)'
  BY <1>1, <1>3, ReturnHeld
<1>5. ~HasLocal(t) /\ pc'[t] \notin Single /\ fd[t] = NULL
  BY <1>1, <1>4, FilledNothing DEF HasLocal, Create, Rewind, Single, Filling
<1> QED
  BY <1>1, <1>2, <1>4, <1>5, DropHeld

LEMMA AcceptDropHeld ==
    ASSUME IInv, HeldInv, NEW t \in Threads, AcceptDrop(t)
    PROVE  HeldInv' /\ HeldBut({})
<1>1. /\ pc[t] = "accept_drop" /\ pc'[t] = "acquire" /\ UNCHANGED <<call, fd, uid, typ, ptr, idx, owned>>
      /\ DropCell(t, 0)
  BY DEF AcceptDrop, Goto, IInv, TypeOK, LocalTypeOK
<1>2. 0 \in HeldCells(t)
  BY <1>1 DEF IInv, CellsExact, CellsAt
<1>3. \A u \in Threads \ {t}, j \in FD : lock'[<<u, j>>] = lock[<<u, j>>]
  BY <1>1, <1>2, DropCells
<1>4. OthersSame(t)
  BY <1>3 DEF OthersSame, AcceptDrop, Goto, IInv, TypeOK, LocalTypeOK
<1>5. HasLocal(t) /\ HasLocal(t)' /\ LocalHandle(t)' = LocalHandle(t) /\ pc'[t] \notin Single
  BY <1>1 DEF HasLocal, Create, Rewind, Single, LocalHandle, LocalKind
<1>6. FillAt(t)
  BY DEF HeldInv, Calls
<1>7. FillAt(t)'
  BY <1>1, <1>6 DEF FillAt, Filling, Create
<1>8. PollAt(t)' /\ RewindAt(t)'
  BY <1>1, FilledNothing, PollsNothing, RewindsNothing DEF Rewind
<1> QED
  BY <1>1, <1>2, <1>4, <1>5, <1>7, <1>8, DropHeld

LEMMA PollDropHeld ==
    ASSUME IInv, HeldInv, NEW t \in Threads, PollDrop(t) \/ PollUnlock(t)
    PROVE  HeldInv' /\ HeldBut({})
<1>1. /\ \/ pc[t] = "scan_drop" /\ pc'[t] = "scan"
         \/ pc[t] = "unlock" /\ pc'[t] = "unlock" /\ idx[t] < Len(pfd[t])
      /\ UNCHANGED <<call, fd, uid, typ, ptr, owned>>
  BY DEF PollDrop, PollUnlock, Goto, IInv, TypeOK, LocalTypeOK
<1>2. /\ ~HasLocal(t) /\ ~HasLocal(t)' /\ pc'[t] \notin Single /\ call[t] # "rewinddir"
      /\ FillAt(t)' /\ RewindAt(t)'
  BY <1>1, FilledNothing, FillsNothing, RewindsNothing DEF HasLocal, Single, Create, Rewind, Filling
<1>3. CASE DropCell(t, idx[t]) /\ idx[t] \in HeldCells(t)
  <2>1. /\ \A u \in Threads, j \in FD :
             lock'[<<u, j>>] = IF u = t /\ j = idx[t] THEN NULL ELSE lock[<<u, j>>]
        /\ HeldCells(t)' = HeldCells(t) \ {idx[t]}
        /\ \A u \in Threads, j \in FD : lock'[<<u, j>>] # NULL =>
             type'[lock'[<<u, j>>]] = type[lock[<<u, j>>]] /\ lock'[<<u, j>>] = lock[<<u, j>>]
    BY <1>3, DropCells
  <2>2. OthersSame(t)
    BY <2>1 DEF OthersSame, PollDrop, PollUnlock, Goto, Advance, IInv, TypeOK, LocalTypeOK
  <2>3. PollAt(t)'
    <3>1. CASE pc[t] = "unlock"
      BY <1>1, <3>1 DEF PollAt
    <3>2. CASE pc[t] = "scan_drop"
      <4>1. pc'[t] = "scan" /\ \A j \in HeldCells(t) \ {idx[t]} : type[lock[<<t, j>>]] = "SOCKET"
        BY <1>1, <3>2 DEF HeldInv, Calls, PollAt
      <4>2. \A j \in HeldCells(t)' : j \in FD /\ lock'[<<t, j>>] # NULL
        BY DEF HeldCells
      <4> QED
        BY <2>1, <4>1, <4>2 DEF PollAt
    <3> QED
      BY <1>1, <3>1, <3>2
  <2> QED
    BY <1>1, <1>2, <1>3, <2>2, <2>3, DropHeld
<1>4. CASE PollUnlock(t) /\ lock[<<t, idx[t]>>] = NULL /\ UNCHANGED <<tableVars, lock>>
  <2>1. OthersSame(t)
    BY <1>4 DEF OthersSame, PollUnlock, Advance, IInv, TypeOK, LocalTypeOK
  <2>2. PollAt(t)' /\ pc[t] = "unlock" /\ pc'[t] = "unlock"
    BY <1>4 DEF PollAt, PollUnlock
  <2> QED
    BY <1>1, <1>2, <1>4, <2>1, <2>2, PollingStep DEF tableVars, Polling
<1>5. CASE PollDrop(t)
  <2>1. idx[t] \in HeldCells(t) /\ DropCell(t, idx[t])
    BY <1>5 DEF PollDrop, IInv, CellsExact, CellsAt
  <2> QED
    BY <1>3, <2>1
<1>6. CASE PollUnlock(t) /\ lock[<<t, idx[t]>>] # NULL
  <2>1. idx[t] < Len(pfd[t]) /\ DropCell(t, idx[t])
    BY <1>6 DEF PollUnlock
  <2>2. idx[t] \in HeldCells(t)
    BY <1>6, <2>1, PollIndex DEF HeldCells
  <2> QED
    BY <1>3, <2>1, <2>2
<1> QED
  BY <1>4, <1>5, <1>6 DEF PollUnlock

-----------------------------------------------------------------------------
(* A call gets a handle of its own from the backend.                        *)
LEMMA NewHandleHeld ==
    ASSUME IInv, HeldInv, NEW t \in Threads, OthersSame(t),
           UNCHANGED <<fdmap, sce_uid, type, ref_count, owned, fd, lock>>,
           NEW k \in Kinds, NEW u \in Uid, NewHandle(t, k, u), LocalKind(t)' = k,
           ~HasLocal(t), HasLocal(t)', pc'[t] # "rewind_store",
           pc'[t] \in Single => pc[t] \in Single,
           FillAt(t)', RewindAt(t)', PollAt(t)'
    PROVE  HeldInv' /\ HeldBut({})
<1>1. Entry(t)' = Entry(t) /\ \A v \in Threads : Entry(v)' = Entry(v)
  BY DEF Entry
<1>2. \A v \in Threads \ {t} : fd[v] # NULL => fd[v] \notin owned /\ fd[t] # fd[v]
  BY DEF HeldInv, Calls, FillAt
<1>3. Calls'
  BY <1>1, <1>2, CallsStep, SingleRewinder
<1>4. Slots'
  <2>1. \A f \in FD : fdmap[f] # NULL /\ f \notin owned /\ pc'[t] \in Single => Entry(t)' # fdmap[f]
    BY <1>1, SingleOwned DEF Unowned
  <2> QED
    BY <2>1, SlotsStep DEF SlotKept, HeldInv, Slots
<1>5. FreeIsFile'
  BY DEF HeldInv, FreeIsFile
<1>6. EntriesKept(Pool)
  <2>1. pc[t] # "rewind_store"
    BY DEF HasLocal, Rewind
  <2>2. \A p \in Pool : (Unowned(p)' <=> Unowned(p)) /\ (Rewound(p)' <=> Rewound(p))
    BY <1>1, <2>1 DEF Unowned, Rewound, OthersSame
  <2> QED
    BY <2>2 DEF EntriesKept, Settled, EntryHandle
<1>7. u \in Uid \ opened[k] /\ opened' = [opened EXCEPT ![k] = @ \cup {u}] /\ uid'[t] = u
  BY DEF NewHandle, IInv, TypeOK, LocalTypeOK
<1>8. LocalHandle(t)' = <<k, u>>
  BY <1>7 DEF LocalHandle
<1> QED
  BY <1>3, <1>4, <1>5, <1>6, <1>7, <1>8, OtherLocals, HandlesNew DEF HeldInv, IInv

LEMMA CreateStep ==
    ASSUME IInv, HeldInv, NEW t \in Threads, NEW k \in Kinds, NEW u \in Uid, NEW ty \in Types, NEW c,
           NewHandle(t, k, u), k = KindOf(ty), c # "rewinddir", c = "pipe" <=> ty = "PIPE",
           typ' = [typ EXCEPT ![t] = ty], call' = [call EXCEPT ![t] = c],
           pc[t] = "idle", Goto(t, "acquire"),
           UNCHANGED <<fdmap, sce_uid, type, ref_count, fd, ptr, idx, lock, owned>>
    PROVE  HeldInv' /\ HeldBut({})
<1>1. pc'[t] = "acquire" /\ typ'[t] = ty /\ call'[t] = c
  BY DEF Goto, IInv, TypeOK, LocalTypeOK
<1>2. OthersSame(t)
  BY DEF OthersSame, NewHandle, Goto, IInv, TypeOK, LocalTypeOK
<1>3. ~HasLocal(t) /\ HasLocal(t)' /\ pc'[t] \notin Single /\ fd[t] = NULL
  BY <1>1, FilledNothing DEF HasLocal, Create, Rewind, Single, Filling
<1>4. LocalKind(t)' = k
  BY <1>1 DEF LocalKind
<1>5. FillAt(t)' /\ RewindAt(t)' /\ PollAt(t)'
  BY <1>1, <1>3, RewindsNothing, PollsNothing DEF FillAt, Filling, Create, Rewind
<1> QED
  BY <1>1, <1>2, <1>3, <1>4, <1>5, NewHandleHeld

LEMMA CreateHeld ==
    ASSUME IInv, HeldInv, ~DirAsFile, NEW t \in Threads,
           \/ \E c \in OpenCalls, isDir \in BOOLEAN : Open(t, c, isDir)
           \/ Socket(t) \/ Pipe(t)
    PROVE  HeldInv' /\ HeldBut({})
<1>1. ASSUME NEW c \in OpenCalls, NEW isDir \in BOOLEAN, Open(t, c, isDir)
      PROVE  HeldInv' /\ HeldBut({})
  <2>1. isDir => OpenKind(c, isDir) # "fh"
    BY <1>1 DEF Open
  <2>2. /\ OpenType(isDir) \in Types /\ OpenKind(c, isDir) = KindOf(OpenType(isDir))
        /\ OpenKind(c, isDir) \in Kinds /\ OpenType(isDir) # "PIPE"
    <3>1. CASE isDir
      BY <2>1, <3>1 DEF OpenType, OpenKind, OpenCalls, KindOf, Types, Kinds
    <3>2. CASE ~isDir
      BY <3>2 DEF OpenType, OpenKind, KindOf, Types, Kinds
    <3> QED
      BY <3>1, <3>2
  <2>3. c # "rewinddir" /\ c # "pipe"
    BY DEF OpenCalls
  <2>4. PICK u \in Uid : NewHandle(t, OpenKind(c, isDir), u)
    BY <1>1 DEF Open
  <2> QED
    BY <1>1, <2>2, <2>3, <2>4, CreateStep DEF Open
<1>2. CASE Socket(t)
  <2>1. "SOCKET" \in Types /\ KindOf("SOCKET") = "net" /\ "net" \in Kinds
    BY DEF Types, KindOf, Kinds
  <2>2. PICK u \in Uid : NewHandle(t, "net", u)
    BY <1>2 DEF Socket
  <2> QED
    BY <1>2, <2>1, <2>2, CreateStep DEF Socket
<1>3. CASE Pipe(t)
  <2>1. "PIPE" \in Types /\ KindOf("PIPE") = "msgpipe" /\ "msgpipe" \in Kinds
    BY DEF Types, KindOf, Kinds
  <2>2. PICK u \in Uid : NewHandle(t, "msgpipe", u)
    BY <1>3 DEF Pipe
  <2> QED
    BY <1>3, <2>1, <2>2, CreateStep DEF Pipe
<1> QED
  BY <1>1, <1>2, <1>3

-----------------------------------------------------------------------------
(* __acquire_descriptor: the call gets a slot and an entry nobody knows.    *)
LEMMA AcquireHeld ==
    ASSUME IInv, HeldInv, NEW t \in Threads, Acquire(t)
    PROVE  HeldInv' /\ HeldBut({})
<1>1. PICK f \in FD, p \in Pool : acquire_descriptor(f, p) /\ fd' = [fd EXCEPT ![t] = f]
  BY DEF Acquire
<1>2. /\ pc[t] = "acquire" /\ pc'[t] = "load_uid" /\ fd'[t] = f /\ f # NULL
      /\ UNCHANGED <<call, uid, typ, lock, owned, sce_uid, type, opened>> /\ OthersSame(t)
  BY <1>1, Indices DEF Acquire, Goto, acquire_descriptor, OthersSame, IInv, TypeOK, LocalTypeOK
<1>3. /\ f >= FirstFd /\ fdmap[f] = NULL /\ ref_count[p] = 0
      /\ \A g \in FD : fdmap'[g] = IF g = f THEN p ELSE fdmap[g]
      /\ \A q \in Pool : ref_count'[q] = IF q = p THEN 1 ELSE ref_count[q]
  BY <1>1 DEF acquire_descriptor, FreeFd, FreeEntry, IInv, TypeOK, TableTypeOK
<1>4. (\A g \in FD : fdmap[g] # p) /\ (\A c \in Cells : lock[c] # p)
  BY <1>3, ReferencedEntry DEF IInv, TypeOK
<1>5. f \notin owned /\ type[p] = "FILE" /\ p # NULL
  BY <1>3, Indices DEF HeldInv, Slots, FreeIsFile
<1>6. \A u \in Threads : fd[u] # NULL => fd[u] \in FD /\ fdmap[fd[u]] # NULL /\ fd[u] \notin owned
  BY DEF HeldInv, Calls, FillAt, IInv, TypeOK, LocalTypeOK
<1>7. \A u \in Threads : Entry(u)' = Entry(u) /\ Entry(u) # p
  BY <1>2, <1>4, Indices, CellOf DEF Entry
<1>8. pc'[t] \notin Single /\ fd[t] = NULL /\ HasLocal(t) /\ HasLocal(t)' /\ LocalHandle(t)' = LocalHandle(t)
  BY <1>2, FilledNothing DEF Single, Rewind, Filling, HasLocal, Create, LocalHandle, LocalKind
<1>9. Calls'
  <2>1. FillAt(t)
    BY DEF HeldInv, Calls
  <2>2. \A u \in Threads : fd'[u] = fd'[t] => u = t
    BY <1>2, <1>3, <1>6 DEF OthersSame
  <2>3. FillAt(t)'
    BY <1>2, <1>3, <1>5, <2>1, <2>2 DEF FillAt, Filling, Create
  <2>4. RewindAt(t)' /\ PollAt(t)'
    BY <1>2, FilledNothing, RewindsNothing, PollsNothing DEF Rewind
  <2> QED
    BY <1>2, <1>3, <1>6, <1>8, <2>3, <2>4, CallsStep
<1>10. Slots'
  <2>1. SlotAt(f)'
    BY <1>2, <1>3, <1>4, <1>7 DEF SlotAt
  <2>2. ASSUME NEW g \in FD \ owned, g # f, fdmap'[g] # NULL PROVE SlotKept(t, g)
    BY <1>2, <1>3, <1>4, <1>8, <2>2, Indices DEF SlotKept
  <2>3. \A g \in owned : fdmap'[g] # NULL
    BY <1>3, <1>5 DEF HeldInv, Slots, IInv, TypeOK
  <2> QED
    BY <1>2, <2>1, <2>2, <2>3, SlotsStep
<1>11. FreeIsFile'
  BY <1>2, <1>3 DEF HeldInv, FreeIsFile
<1>12. EntriesKept(Pool)
  <2>1. ~Settled(p) /\ ~Settled(p)'
    BY <1>2, <1>3, <1>5 DEF Settled, Unowned
  <2>2. \A q \in Pool \ {p} : (Unowned(q)' <=> Unowned(q)) /\ (Rewound(q)' <=> Rewound(q))
    BY <1>2, <1>3, <1>7, <1>5, Indices DEF Unowned, Rewound, OthersSame
  <2> QED
    BY <1>2, <1>3, <2>1, <2>2 DEF EntriesKept, Settled, EntryHandle
<1>13. LocalsKept(Threads)
  BY <1>2, <1>8, OtherLocals DEF LocalsKept
<1> QED
  BY <1>2, <1>9, <1>10, <1>11, <1>12, <1>13, HandlesQuiet DEF HeldInv, IInv

(* A call that gives up leaves every entry as it is.                        *)
LEMMA GiveUpHeld ==
    ASSUME IInv, HeldInv, NEW t \in Threads, Return(t), pc[t] \in Create,
           fd[t] # NULL => type[fdmap[fd[t]]] = "PIPE",
           UNCHANGED <<fdmap, sce_uid, type, ref_count, lock, owned>>
    PROVE  /\ Slots' /\ FreeIsFile' /\ Calls' /\ EntriesKept(Pool) /\ LocalsKept(Threads \ {t})
           /\ HasLocal(t) /\ ~HasLocal(t)'
<1>1. /\ OthersSame(t) /\ pc'[t] = "idle" /\ fd'[t] = NULL /\ ~HasLocal(t)'
      /\ FillAt(t)' /\ RewindAt(t)' /\ PollAt(t)' /\ "idle" \notin Single
  BY ReturnHeld DEF Single, Rewind
<1>2. HasLocal(t) /\ pc[t] # "rewind_store"
  BY DEF HasLocal, Create
<1>3. \A u \in Threads : Entry(u)' = Entry(u)
  BY DEF Entry
<1>4. Calls'
  <2>1. \A v \in Threads \ {t} : fd[v] # NULL => fd[v] \notin owned
    BY DEF HeldInv, Calls, FillAt
  <2> QED
    BY <1>1, <2>1, CallsStep
<1>5. Slots'
  BY <1>1, SlotsStep DEF SlotKept, HeldInv, Slots
<1>6. FreeIsFile'
  BY DEF HeldInv, FreeIsFile
<1>7. EntriesKept(Pool)
  <2>1. \A p \in Pool : (Unowned(p)' <=> Unowned(p)) /\ (Rewound(p)' <=> Rewound(p))
    BY <1>1, <1>2, <1>3 DEF Unowned, Rewound, OthersSame
  <2> QED
    BY <2>1 DEF EntriesKept, Settled, EntryHandle
<1> QED
  BY <1>1, <1>2, <1>4, <1>5, <1>6, <1>7, OtherLocals

(* EMFILE: the handle is closed, unless it is one of the network or the     *)
(* close fails.                                                             *)
LEMMA AcquireFailsHeld ==
    ASSUME IInv, HeldInv, NEW t \in Threads, AcquireFails(t)
    PROVE  HeldInv' /\ HeldBut(Leaky)
<1>1. /\ pc[t] = "acquire" /\ Return(t) /\ CleanupEmfile(t) /\ NoFreeDescriptor
      /\ UNCHANGED <<fdmap, sce_uid, type, ref_count, lock, owned>>
  BY DEF AcquireFails
<1>2. pc[t] \in Create /\ fd[t] = NULL /\ call[t] # "rewinddir"
  BY <1>1, FilledNothing DEF Create, Filling, Rewind
<1>3. /\ Slots' /\ FreeIsFile' /\ Calls' /\ EntriesKept(Pool) /\ LocalsKept(Threads \ {t})
      /\ HasLocal(t) /\ ~HasLocal(t)'
  BY <1>1, <1>2, GiveUpHeld
<1>4. CASE UNCHANGED opened /\ (LocalKind(t) = "net" \/ MayFail(LocalKind(t)))
  <2>1. Handles' /\ HeldBut({LocalHandle(t)})
    BY <1>3, <1>4, HandlesForget DEF HeldInv, IInv
  <2>2. LeftByFull(LocalHandle(t))
    BY <1>1, <1>4 DEF LeftByFull, LocalHandle
  <2>3. LocalHandle(t) \in Kinds \X Uid
    BY <1>3, HandleTypes DEF HeldInv, IInv
  <2> QED
    BY <1>3, <2>1, <2>2, <2>3 DEF HeldInv, HeldBut, Leaky
<1>5. CASE opened' = [opened EXCEPT ![LocalKind(t)] = @ \ {uid[t]}]
  <2>1. Handles' /\ HeldBut({})
    BY <1>3, <1>5, HandlesDiscard DEF HeldInv, IInv
  <2> QED
    BY <1>3, <2>1, HeldButMore DEF HeldInv
<1> QED
  BY <1>1, <1>2, <1>4, <1>5 DEF LocalKind, KindOf, CleanupEmfile, CloseHandle

(* A pipe that gets one descriptor only leaves its slot behind, and its     *)
(* handle too if deleting that fails.                                       *)
LEMMA PipeDupFailsHeld ==
    ASSUME IInv, HeldInv, NEW t \in Threads, PipeDupFails(t)
    PROVE  HeldInv' /\ HeldBut(Leaky)
<1>1. /\ pc[t] = "pipe_dup" /\ Return(t) /\ CloseHandle("msgpipe", uid[t])
      /\ UNCHANGED <<fdmap, sce_uid, type, ref_count, lock, owned>>
  BY DEF PipeDupFails
<1>2. /\ pc[t] \in Create /\ fd[t] # NULL /\ type[fdmap[fd[t]]] = "PIPE" /\ call[t] = "pipe"
      /\ typ[t] = "PIPE" /\ fdmap[fd[t]] # NULL
  BY <1>1 DEF HeldInv, Calls, FillAt, Filling, Create
<1>3. /\ Slots' /\ FreeIsFile' /\ Calls' /\ EntriesKept(Pool) /\ LocalsKept(Threads \ {t})
      /\ HasLocal(t) /\ ~HasLocal(t)'
  BY <1>1, <1>2, GiveUpHeld
<1>4. NoFreeDescriptor
  <2>1. fd[t] \in FD
    BY <1>2 DEF IInv, TypeOK, LocalTypeOK
  <2>2. is_fd_valid(fd[t])
    BY <1>2, <2>1 DEF is_fd_valid
  <2> QED
    BY <2>2 DEF PipeDupFails, NoFreeDescriptor
<1>5. CASE opened' = [opened EXCEPT ![LocalKind(t)] = @ \ {uid[t]}]
  <2>1. Handles' /\ HeldBut({})
    BY <1>3, <1>5, HandlesDiscard DEF HeldInv, IInv
  <2> QED
    BY <1>3, <2>1, HeldButMore DEF HeldInv
<1>6. CASE UNCHANGED opened /\ MayFail("msgpipe")
  <2>1. Handles' /\ HeldBut({LocalHandle(t)})
    BY <1>3, <1>6, HandlesForget DEF HeldInv, IInv
  <2>2. LeftByFull(LocalHandle(t))
    BY <1>1, <1>2, <1>4, <1>6 DEF LeftByFull, LocalHandle, LocalKind, KindOf
  <2>3. LocalHandle(t) \in Kinds \X Uid
    BY <1>3, HandleTypes DEF HeldInv, IInv
  <2> QED
    BY <1>3, <2>1, <2>2, <2>3 DEF HeldInv, HeldBut, Leaky
<1> QED
  BY <1>1, <1>2, <1>5, <1>6 DEF LocalKind, KindOf, CloseHandle

-----------------------------------------------------------------------------
(* The entry a call fills in is its own.                                    *)
LEMMA FillEntry ==
    ASSUME IInv, HeldInv, NEW t \in Threads, fd[t] # NULL, NEW p, p = fdmap[fd[t]]
    PROVE  /\ p \in Pool /\ fd[t] \in FD \ owned /\ pc[t] \in Filling
           /\ ref_count[p] > 0 /\ Unowned(p) /\ ~Rewound(p)
           /\ \A g \in FD : fdmap[g] = p => g = fd[t]
           /\ \A u \in Threads : pc[u] \in Single => Entry(u) # p
           /\ \A u \in Threads \ {t} : fd[u] # NULL =>
                fd[u] \in FD \ owned /\ fd[u] # fd[t] /\ fdmap[fd[u]] \in Pool \ {p}
<1>1. \A u \in Threads : fd[u] # NULL =>
         /\ fd[u] \in FD \ owned /\ fdmap[fd[u]] \in Pool /\ pc[u] \in Filling
         /\ \A v \in Threads : fd[v] = fd[u] => v = u
  BY DEF HeldInv, Calls, FillAt, IInv, TypeOK, TableTypeOK, LocalTypeOK
<1>2. SlotAt(fd[t])
  BY <1>1, Indices DEF HeldInv, Slots
<1>3. ref_count[p] > 0
  BY <1>1, ReferencedEntry DEF IInv, TypeOK
<1>4. /\ \A g \in FD : fdmap[g] = p => g = fd[t]
      /\ \A u \in Threads : pc[u] \in Single => Entry(u) # p
  BY <1>2 DEF SlotAt
<1>5. Unowned(p) /\ ~Rewound(p)
  BY <1>1, <1>4 DEF Unowned, Rewound, Single, Rewind
<1> QED
  BY <1>1, <1>3, <1>4, <1>5

LEMMA StoreUidHeld ==
    ASSUME IInv, HeldInv, NEW t \in Threads, StoreUid(t)
    PROVE  HeldInv' /\ HeldBut({})
<1>1. /\ pc[t] = "store_uid" /\ pc'[t] \in {"load_type", "store_type"}
      /\ UNCHANGED <<fdmap, type, ref_count, opened, call, fd, uid, typ, ptr, lock, owned>>
      /\ sce_uid' = [sce_uid EXCEPT ![ptr[t]] = uid[t]] /\ OthersSame(t)
  BY DEF StoreUid, Goto, OthersSame, IInv, TypeOK, LocalTypeOK
<1>2. FillAt(t) /\ fd[t] # NULL /\ ptr[t] = fdmap[fd[t]]
  BY <1>1 DEF HeldInv, Calls, FillAt, Filling, Create
<1>3. PICK p : p = fdmap[fd[t]]
  OBVIOUS
<1>4. /\ p \in Pool /\ Unowned(p) /\ fd[t] \in FD \ owned
      /\ \A u \in Threads \ {t} : fd[u] # NULL =>
           fd[u] \in FD \ owned /\ fd[u] # fd[t] /\ fdmap[fd[u]] \in Pool \ {p}
  BY <1>2, <1>3, FillEntry
<1>5. sce_uid'[p] = uid[t] /\ \A q \in Pool \ {p} : sce_uid'[q] = sce_uid[q]
  BY <1>1, <1>2, <1>3, <1>4 DEF IInv, TypeOK, TableTypeOK
<1>6. /\ HasLocal(t) /\ HasLocal(t)' /\ LocalHandle(t)' = LocalHandle(t) /\ pc'[t] \notin Single
      /\ call[t] # "rewinddir"
  BY <1>1, <1>2 DEF HasLocal, Create, LocalHandle, LocalKind, Single, Rewind, FillAt
<1>7. Calls'
  <2>1. \A u \in Threads : fd'[u] = fd'[t] => u = t
    BY <1>1, <1>2 DEF FillAt
  <2>2. FillAt(t)'
    BY <1>1, <1>2, <1>3, <1>5, <2>1 DEF FillAt, Filling, Create
  <2>3. RewindAt(t)' /\ PollAt(t)'
    BY <1>1, <1>6, RewindsNothing, PollsNothing DEF Rewind
  <2> QED
    BY <1>1, <1>4, <1>5, <1>6, <2>2, <2>3, CallsStep
<1>8. Slots'
  BY <1>1, <1>6, SlotsStep DEF SlotKept, HeldInv, Slots
<1>9. FreeIsFile'
  BY <1>1 DEF HeldInv, FreeIsFile
<1>10. EntriesKept(Pool)
  <2>1. \A q \in Pool : (Unowned(q)' <=> Unowned(q)) /\ (Rewound(q)' <=> Rewound(q))
    BY <1>1 DEF Unowned, Rewound, OthersSame, Entry
  <2>2. ~Settled(p) /\ ~Settled(p)'
    BY <1>4, <2>1 DEF Settled
  <2> QED
    BY <1>1, <1>5, <2>1, <2>2 DEF EntriesKept, Settled, EntryHandle
<1>11. LocalsKept(Threads)
  BY <1>1, <1>6, OtherLocals DEF LocalsKept
<1> QED
  BY <1>1, <1>7, <1>8, <1>9, <1>10, <1>11, HandlesQuiet DEF HeldInv, IInv

(* pipe goes on with its entry complete but not yet handed out.             *)
LEMMA PipeTypeHeld ==
    ASSUME IInv, HeldInv, NEW t \in Threads, StoreType(t), call[t] = "pipe"
    PROVE  HeldInv' /\ HeldBut({})
<1>1. /\ pc[t] = "store_type" /\ pc'[t] = "pipe_dup"
      /\ UNCHANGED <<fdmap, sce_uid, ref_count, opened, call, fd, uid, typ, ptr, lock, owned>>
      /\ type' = [type EXCEPT ![ptr[t]] = typ[t]] /\ OthersSame(t)
  BY DEF StoreType, Goto, OthersSame, IInv, TypeOK, LocalTypeOK
<1>2. /\ FillAt(t) /\ fd[t] # NULL /\ ptr[t] = fdmap[fd[t]] /\ typ[t] = "PIPE"
      /\ type[fdmap[fd[t]]] = "FILE"
  BY <1>1 DEF HeldInv, Calls, FillAt, Filling, Create
<1>3. PICK p : p = fdmap[fd[t]]
  OBVIOUS
<1>4. /\ p \in Pool /\ Unowned(p) /\ fd[t] \in FD \ owned /\ ref_count[p] > 0
      /\ \A u \in Threads \ {t} : fd[u] # NULL =>
           fd[u] \in FD \ owned /\ fd[u] # fd[t] /\ fdmap[fd[u]] \in Pool \ {p}
  BY <1>2, <1>3, FillEntry
<1>5. type'[p] = "PIPE" /\ type[p] = "FILE" /\ \A q \in Pool \ {p} : type'[q] = type[q]
  BY <1>1, <1>2, <1>3, <1>4 DEF IInv, TypeOK, TableTypeOK
<1>6. /\ HasLocal(t) /\ HasLocal(t)' /\ LocalHandle(t)' = LocalHandle(t) /\ pc'[t] \notin Single
  BY <1>1, <1>2 DEF HasLocal, Create, LocalHandle, LocalKind, Single, Rewind
<1>7. Calls'
  <2>1. \A u \in Threads : fd'[u] = fd'[t] => u = t
    BY <1>1, <1>2 DEF FillAt
  <2>2. FillAt(t)'
    BY <1>1, <1>2, <1>3, <1>5, <2>1 DEF FillAt, Filling, Create
  <2>3. RewindAt(t)' /\ PollAt(t)'
    BY <1>1, RewindsNothing, PollsNothing DEF Rewind
  <2>4. \A u \in Threads, i \in FD : i \in HeldCells(u) => lock[<<u, i>>] \in Pool
    BY CellOf DEF HeldCells, IInv, TypeOK
  <2> QED
    BY <1>1, <1>4, <1>5, <1>6, <2>2, <2>3, <2>4, CallsStep
<1>8. Slots'
  <2>1. \A f \in FD : fdmap[f] # NULL => fdmap[f] \in Pool
    BY DEF IInv, TypeOK, TableTypeOK
  <2> QED
    BY <1>1, <1>5, <1>6, <2>1, SlotsStep DEF SlotKept, HeldInv, Slots
<1>9. FreeIsFile'
  BY <1>1, <1>4, <1>5 DEF HeldInv, FreeIsFile
<1>10. EntriesKept(Pool)
  <2>1. \A q \in Pool : (Unowned(q)' <=> Unowned(q)) /\ (Rewound(q)' <=> Rewound(q))
    BY <1>1 DEF Unowned, Rewound, OthersSame, Entry
  <2>2. ~Settled(p) /\ ~Settled(p)'
    BY <1>4, <2>1 DEF Settled
  <2> QED
    BY <1>1, <1>5, <2>1, <2>2 DEF EntriesKept, Settled, EntryHandle
<1>11. LocalsKept(Threads)
  BY <1>1, <1>6, OtherLocals DEF LocalsKept
<1> QED
  BY <1>1, <1>7, <1>8, <1>9, <1>10, <1>11, HandlesQuiet DEF HeldInv, IInv

(* The entry of a call is complete, and the call returns its slot and those *)
(* of N.                                                                    *)
LEMMA PublishHeld ==
    ASSUME IInv, HeldInv, NEW t \in Threads, fd[t] # NULL, NEW p, p = fdmap[fd[t]], Return(t),
           UNCHANGED <<sce_uid, opened, lock>>,
           NEW N \in SUBSET FD, \A g \in N : fdmap[g] = NULL,
           \A g \in FD : fdmap'[g] = IF g \in N THEN p ELSE fdmap[g],
           owned' = owned \cup {fd[t]} \cup N,
           \A q \in Pool \ {p} : type'[q] = type[q],
           type[p] # "FILE" => type'[p] = type[p],
           \A q \in Pool : ref_count'[q] > 0 <=> ref_count[q] > 0, ref_count' \in [Pool -> Nat],
           <<KindOf(type'[p]), sce_uid[p]>> = LocalHandle(t)
    PROVE  HeldInv' /\ HeldBut({})
<1>1. /\ p \in Pool /\ Unowned(p) /\ ~Rewound(p) /\ fd[t] \in FD \ owned /\ pc[t] \in Filling
      /\ ref_count[p] > 0
      /\ \A g \in FD : fdmap[g] = p => g = fd[t]
      /\ \A u \in Threads \ {t} : fd[u] # NULL =>
           fd[u] \in FD \ owned /\ fd[u] # fd[t] /\ fdmap[fd[u]] \in Pool \ {p}
  BY FillEntry
<1>2. /\ OthersSame(t) /\ pc'[t] = "idle" /\ fd'[t] = NULL /\ ~HasLocal(t)'
      /\ FillAt(t)' /\ RewindAt(t)' /\ PollAt(t)' /\ "idle" \notin Single
  BY ReturnHeld DEF Single, Rewind
<1>3. HasLocal(t) /\ pc[t] # "rewind_store"
  BY <1>1 DEF HasLocal, Filling, Create
<1>4. Calls'
  <2>1. \A u \in Threads, i \in FD : i \in HeldCells(u) => lock[<<u, i>>] \in Pool
    BY CellOf DEF HeldCells, IInv, TypeOK
  <2>2. \A u \in Threads \ {t} : fd[u] # NULL =>
          fdmap'[fd[u]] = fdmap[fd[u]] /\ fd[u] \notin owned' /\ fd'[t] # fd[u]
    BY <1>1, <1>2, Indices
  <2> QED
    BY <1>1, <1>2, <2>1, <2>2, CallsStep
<1>5. Slots'
  <2>1. \A f \in owned' : fdmap'[f] # NULL
    BY <1>1, Indices DEF HeldInv, Slots, IInv, TypeOK
  <2>2. ASSUME NEW f \in FD \ owned', fdmap'[f] # NULL
        PROVE  SlotKept(t, f)
    <3>1. fdmap'[f] = fdmap[f] /\ f \notin owned /\ f # fd[t] /\ fdmap[f] \in Pool \ {p}
      BY <1>1, <2>2 DEF IInv, TypeOK, TableTypeOK
    <3> QED
      BY <1>2, <3>1 DEF SlotKept
  <2> QED
    BY <1>2, <2>1, <2>2, SlotsStep
<1>6. FreeIsFile'
  BY <1>1 DEF HeldInv, FreeIsFile, IInv, TypeOK, TableTypeOK
<1>7. \A q \in Pool : Rewound(q)' <=> Rewound(q)
  BY <1>2, <1>3 DEF Rewound, OthersSame, Entry
<1>8. EntriesKept(Pool \ {p})
  <2>1. \A q \in Pool \ {p} : Unowned(q)' <=> Unowned(q)
    BY <1>1, Indices DEF Unowned
  <2> QED
    BY <1>7, <2>1 DEF EntriesKept, Settled, EntryHandle
<1>9. ~Settled(p) /\ Settled(p)' /\ EntryHandle(p)' = LocalHandle(t)
  <2>1. ~Unowned(p)'
    BY <1>1 DEF Unowned
  <2> QED
    BY <1>1, <1>7, <2>1 DEF Settled, EntryHandle
<1> QED
  BY <1>1, <1>2, <1>3, <1>4, <1>5, <1>6, <1>8, <1>9, OtherLocals, HandlesMove DEF HeldInv, IInv

LEMMA StoreTypeHeld ==
    ASSUME IInv, HeldInv, Disciplined, NEW t \in Threads, StoreType(t)
    PROVE  HeldInv' /\ HeldBut({})
<1>1. CASE call[t] = "pipe"
  BY <1>1, PipeTypeHeld
<1>2. CASE call[t] # "pipe"
  <2>1. /\ pc[t] = "store_type" /\ Return(t) /\ owned' = owned \cup {fd[t]} \cup {}
        /\ UNCHANGED <<fdmap, sce_uid, ref_count, opened, lock>>
        /\ type' = [type EXCEPT ![ptr[t]] = typ[t]]
    BY <1>2 DEF StoreType, Owns
  <2>2. /\ fd[t] # NULL /\ ptr[t] = fdmap[fd[t]] /\ call[t] # "rewinddir"
        /\ type[fdmap[fd[t]]] = "FILE" /\ sce_uid[fdmap[fd[t]]] = uid[t]
    BY <2>1 DEF HeldInv, Calls, FillAt, Filling, Create
  <2>3. PICK p : p = fdmap[fd[t]]
    OBVIOUS
  <2>4. p \in Pool
    BY <2>2, <2>3, FillEntry
  <2>5. type'[p] = typ[t] /\ \A q \in Pool \ {p} : type'[q] = type[q]
    BY <2>1, <2>2, <2>3, <2>4 DEF IInv, TypeOK, TableTypeOK
  <2>6. <<KindOf(type'[p]), sce_uid[p]>> = LocalHandle(t)
    BY <2>2, <2>3, <2>5 DEF LocalHandle, LocalKind
  <2>7. ref_count' \in [Pool -> Nat]
    BY <2>1 DEF IInv, TypeOK, TableTypeOK
  <2> QED
    BY <2>1, <2>2, <2>3, <2>5, <2>6, <2>7, PublishHeld
<1> QED
  BY <1>1, <1>2

LEMMA PipeDupHeld ==
    ASSUME IInv, HeldInv, Disciplined, NEW t \in Threads, PipeDup(t)
    PROVE  HeldInv' /\ HeldBut({})
<1>1. PICK f \in FD : duplicate_descriptor(fd[t], 0, f) /\ Owns(owned \cup {fd[t], f})
  BY DEF PipeDup
<1>2. pc[t] = "pipe_dup" /\ Return(t) /\ UNCHANGED lock
  BY DEF PipeDup
<1>3. /\ fd[t] # NULL /\ call[t] = "pipe" /\ typ[t] = "PIPE"
      /\ type[fdmap[fd[t]]] = "PIPE" /\ sce_uid[fdmap[fd[t]]] = uid[t]
  BY <1>2 DEF HeldInv, Calls, FillAt, Filling, Create
<1>4. PICK p : p = fdmap[fd[t]]
  OBVIOUS
<1>5. p \in Pool /\ ref_count[p] > 0
  BY <1>3, <1>4, FillEntry
<1>6. /\ fdmap[f] = NULL /\ fdmap' = [fdmap EXCEPT ![f] = p] /\ ref_count' = [ref_count EXCEPT ![p] = @ + 1]
      /\ UNCHANGED <<sce_uid, type, opened>> /\ owned' = owned \cup {fd[t]} \cup {f}
  BY <1>1, <1>4 DEF duplicate_descriptor, FreeFd, Owns
<1>7. /\ \A g \in FD : fdmap'[g] = IF g \in {f} THEN p ELSE fdmap[g]
      /\ ref_count' \in [Pool -> Nat] /\ \A q \in Pool : ref_count'[q] > 0 <=> ref_count[q] > 0
  BY <1>5, <1>6 DEF IInv, TypeOK, TableTypeOK
<1>8. <<KindOf(type'[p]), sce_uid[p]>> = LocalHandle(t)
  BY <1>3, <1>4, <1>6 DEF LocalHandle, LocalKind
<1>9. PICK N : N = {f}
  OBVIOUS
<1>10. /\ N \in SUBSET FD /\ \A g \in N : fdmap[g] = NULL
       /\ \A g \in FD : fdmap'[g] = IF g \in N THEN p ELSE fdmap[g]
       /\ owned' = owned \cup {fd[t]} \cup N
  BY <1>6, <1>7, <1>9
<1>11. /\ UNCHANGED <<sce_uid, opened, lock>> /\ \A q \in Pool \ {p} : type'[q] = type[q]
       /\ type[p] # "FILE" => type'[p] = type[p]
  BY <1>2, <1>6
<1> QED
  BY <1>2, <1>3, <1>4, <1>7, <1>8, <1>10, <1>11, PublishHeld

-----------------------------------------------------------------------------
(* accept and rewinddir.                                                    *)
LEMMA AcceptHeld ==
    ASSUME IInv, HeldInv, NEW t \in Threads, Accept(t)
    PROVE  HeldInv' /\ HeldBut({})
<1>1. PICK u \in Uid : NewHandle(t, "net", u)
  BY DEF Accept
<1>2. /\ pc[t] = "use" /\ pc'[t] = "accept_drop" /\ call[t] = "accept" /\ call'[t] = "accept"
      /\ typ'[t] = "SOCKET" /\ UNCHANGED <<fdmap, sce_uid, type, ref_count, owned, fd, lock>>
  BY DEF Accept, Goto, IInv, TypeOK, LocalTypeOK
<1>3. OthersSame(t)
  BY <1>1 DEF OthersSame, Accept, NewHandle, Goto, IInv, TypeOK, LocalTypeOK
<1>4. ~HasLocal(t) /\ HasLocal(t)' /\ pc[t] \in Single /\ fd[t] = NULL
  BY <1>2, FilledNothing DEF HasLocal, Create, Rewind, Single, Filling
<1>5. LocalKind(t)' = "net" /\ "net" \in Kinds
  BY <1>2 DEF LocalKind, KindOf, Kinds
<1>6. FillAt(t)' /\ RewindAt(t)' /\ PollAt(t)'
  BY <1>2, <1>4, RewindsNothing, PollsNothing DEF FillAt, Filling, Create, Rewind
<1> QED
  BY <1>1, <1>2, <1>3, <1>4, <1>5, <1>6, NewHandleHeld

LEMMA RewindOpenHeld ==
    ASSUME IInv, HeldInv, NEW t \in Threads, RewindOpen(t)
    PROVE  HeldInv' /\ HeldBut({})
<1>1. PICK u \in Uid : NewHandle(t, "dh", u)
  BY DEF RewindOpen
<1>2. /\ pc[t] = "use" /\ pc'[t] = "rewind_close" /\ call[t] = "rewinddir"
      /\ UNCHANGED <<fdmap, sce_uid, type, ref_count, owned, fd, lock, call, typ>>
  BY DEF RewindOpen, Goto, IInv, TypeOK, LocalTypeOK
<1>3. OthersSame(t)
  BY <1>1 DEF OthersSame, RewindOpen, NewHandle, Goto, IInv, TypeOK, LocalTypeOK
<1>4. ~HasLocal(t) /\ HasLocal(t)' /\ pc[t] \in Single /\ fd[t] = NULL /\ typ[t] = "FILE"
  BY <1>2, FilledNothing DEF HasLocal, Create, Rewind, Single, Filling
<1>5. LocalKind(t)' = "dh" /\ "dh" \in Kinds
  BY <1>2 DEF LocalKind, Kinds
<1>6. FillAt(t)' /\ PollAt(t)'
  BY <1>2, <1>4, FillsNothing, PollsNothing DEF Create
<1>7. RewindAt(t)'
  <2>1. RewindAt(t)
    BY DEF HeldInv, Calls
  <2>2. \A v \in Threads : Entry(v)' = Entry(v)
    BY <1>2 DEF Entry
  <2> QED
    BY <1>2, <1>3, <2>1, <2>2 DEF RewindAt, Rewind, OthersSame
<1> QED
  BY <1>1, <1>2, <1>3, <1>4, <1>5, <1>6, <1>7, NewHandleHeld

(* The directory being rewound belongs to this call alone.                  *)
LEMMA RewindEntry ==
    ASSUME IInv, HeldInv, NEW t \in Threads, pc[t] \in Rewind, NEW p, p = Entry(t)
    PROVE  /\ p \in Pool /\ ref_count[p] > 0 /\ ~Unowned(p) /\ type[p] = "DIRECTORY"
           /\ \A u \in Threads : pc[u] \in Single /\ Entry(u) = p => u = t
           /\ fd[t] = NULL /\ typ[t] = "FILE" /\ call[t] = "rewinddir"
           /\ \A u \in Threads \ {t} : fd[u] # NULL =>
                fd[u] \in FD \ owned /\ fdmap[fd[u]] \in Pool \ {p}
<1>1. pc[t] \in Single /\ pc[t] # "drop"
  BY DEF Single, Rewind
<1>2. p \in Pool /\ ~Unowned(p)
  BY <1>1, SingleEntry, SingleOwned
<1>3. call[t] = "rewinddir" /\ RewindAt(t)
  BY DEF HeldInv, Calls, RewindAt
<1>4. fd[t] = NULL /\ typ[t] = "FILE"
  BY FilledNothing DEF Rewind, Filling, Create
<1>5. ref_count[p] > 0
  <2>1. <<t, 0>> \in Cells /\ lock[<<t, 0>>] = p
    BY CellOf, Indices DEF Entry
  <2> QED
    BY <1>2, <2>1, ReferencedEntry DEF IInv, TypeOK
<1>6. \A u \in Threads \ {t} : fd[u] # NULL => fd[u] \in FD \ owned /\ fdmap[fd[u]] \in Pool
  BY DEF HeldInv, Calls, FillAt, IInv, TypeOK, TableTypeOK, LocalTypeOK
<1> QED
  BY <1>1, <1>2, <1>3, <1>4, <1>5, <1>6 DEF RewindAt, Unowned

LEMMA RewindCloseHeld ==
    ASSUME IInv, HeldInv, NEW t \in Threads, RewindClose(t)
    PROVE  HeldInv' /\ HeldBut(Leaky)
<1>1. /\ pc[t] = "rewind_close" /\ pc'[t] = "rewind_store" /\ OthersSame(t)
      /\ UNCHANGED <<fdmap, sce_uid, type, ref_count, call, fd, uid, typ, lock, owned>>
      /\ CloseHandle("dh", sce_uid[Entry(t)])
  BY DEF RewindClose, Goto, OthersSame, IInv, TypeOK, LocalTypeOK
<1>2. PICK p : p = Entry(t)
  OBVIOUS
<1>3. /\ p \in Pool /\ ref_count[p] > 0 /\ ~Unowned(p) /\ type[p] = "DIRECTORY"
      /\ \A u \in Threads : pc[u] \in Single /\ Entry(u) = p => u = t
      /\ fd[t] = NULL /\ typ[t] = "FILE" /\ call[t] = "rewinddir"
      /\ \A u \in Threads \ {t} : fd[u] # NULL =>
           fd[u] \in FD \ owned /\ fdmap[fd[u]] \in Pool \ {p}
  BY <1>1, <1>2, RewindEntry DEF Rewind
<1>4. \A u \in Threads : Entry(u)' = Entry(u)
  BY <1>1 DEF Entry
<1>5. pc[t] \in Single /\ pc'[t] \in Single /\ HasLocal(t) /\ HasLocal(t)' /\ LocalHandle(t)' = LocalHandle(t)
  BY <1>1 DEF Single, Rewind, HasLocal, LocalHandle, LocalKind
<1>6. Calls'
  <2>1. RewindAt(t)' /\ FillAt(t)' /\ PollAt(t)'
    <3>1. RewindAt(t)
      BY DEF HeldInv, Calls
    <3>2. RewindAt(t)'
      BY <1>1, <1>4, <3>1 DEF RewindAt, Rewind, OthersSame
    <3> QED
      BY <1>1, <1>3, <3>2, FillsNothing, PollsNothing DEF Create
  <2> QED
    BY <1>1, <1>3, <1>4, <1>5, <2>1, Indices, CallsStep, SingleRewinder
<1>7. Slots'
  <2>1. \A f \in FD : fdmap[f] # NULL /\ f \notin owned => Entry(t)' # fdmap[f]
    BY <1>2, <1>3, <1>4 DEF Unowned
  <2> QED
    BY <1>1, <2>1, SlotsStep DEF SlotKept, HeldInv, Slots
<1>8. FreeIsFile'
  BY <1>1 DEF HeldInv, FreeIsFile
<1>9. Settled(p) /\ ~Settled(p)'
  <2>1. ~Rewound(p)
    BY <1>1, <1>3 DEF Rewound, Single, Rewind
  <2>2. Rewound(p)'
    BY <1>1, <1>2, <1>4 DEF Rewound
  <2> QED
    BY <1>3, <2>1, <2>2 DEF Settled
<1>10. EntriesKept(Pool \ {p})
  <2>1. \A q \in Pool \ {p} : (Unowned(q)' <=> Unowned(q)) /\ (Rewound(q)' <=> Rewound(q))
    BY <1>1, <1>2, <1>4 DEF Unowned, Rewound, OthersSame
  <2> QED
    BY <1>1, <2>1 DEF EntriesKept, Settled, EntryHandle
<1>11. LocalsKept(Threads)
  BY <1>1, <1>5, OtherLocals DEF LocalsKept
<1>12. CASE opened' = [opened EXCEPT ![KindOf(type[p])] = @ \ {sce_uid[p]}]
  <2>1. Handles' /\ HeldBut({})
    BY <1>3, <1>9, <1>10, <1>11, <1>12, HandlesClose DEF HeldInv, IInv
  <2> QED
    BY <1>6, <1>7, <1>8, <2>1, HeldButMore DEF HeldInv
<1>13. CASE UNCHANGED opened /\ MayFail("dh")
  <2>1. Handles' /\ HeldBut({EntryHandle(p)})
    BY <1>3, <1>9, <1>10, <1>11, <1>13, HandlesAbandon DEF HeldInv, IInv
  <2>2. LeftByRewind(EntryHandle(p))
    BY <1>1, <1>2, <1>3, <1>13 DEF LeftByRewind, EntryHandle, KindOf
  <2>3. EntryHandle(p) \in Kinds \X Uid
    BY <1>3, <1>9, HandleTypes DEF HeldInv, IInv
  <2> QED
    BY <1>6, <1>7, <1>8, <2>1, <2>2, <2>3 DEF HeldInv, HeldBut, Leaky
<1> QED
  BY <1>1, <1>2, <1>3, <1>12, <1>13 DEF KindOf, CloseHandle

LEMMA RewindStoreHeld ==
    ASSUME IInv, HeldInv, NEW t \in Threads, RewindStore(t)
    PROVE  HeldInv' /\ HeldBut({})
<1>1. /\ pc[t] = "rewind_store" /\ pc'[t] = "drop" /\ OthersSame(t)
      /\ UNCHANGED <<fdmap, type, ref_count, opened, call, fd, uid, typ, lock, owned>>
      /\ sce_uid' = [sce_uid EXCEPT ![Entry(t)] = uid[t]]
  BY DEF RewindStore, Goto, OthersSame, IInv, TypeOK, LocalTypeOK
<1>2. PICK p : p = Entry(t)
  OBVIOUS
<1>3. /\ p \in Pool /\ ref_count[p] > 0 /\ ~Unowned(p) /\ type[p] = "DIRECTORY"
      /\ \A u \in Threads : pc[u] \in Single /\ Entry(u) = p => u = t
      /\ fd[t] = NULL /\ typ[t] = "FILE" /\ call[t] = "rewinddir"
      /\ \A u \in Threads \ {t} : fd[u] # NULL =>
           fd[u] \in FD \ owned /\ fdmap[fd[u]] \in Pool \ {p}
  BY <1>1, <1>2, RewindEntry DEF Rewind
<1>4. \A u \in Threads : Entry(u)' = Entry(u)
  BY <1>1 DEF Entry
<1>5. pc[t] \in Single /\ pc'[t] \in Single /\ HasLocal(t) /\ ~HasLocal(t)'
  BY <1>1 DEF Single, Rewind, HasLocal, Create
<1>6. sce_uid'[p] = uid[t] /\ \A q \in Pool \ {p} : sce_uid'[q] = sce_uid[q]
  BY <1>1, <1>2, <1>3 DEF IInv, TypeOK, TableTypeOK
<1>7. Calls'
  <2>1. RewindAt(t)' /\ FillAt(t)' /\ PollAt(t)'
    BY <1>1, <1>3, FillsNothing, PollsNothing DEF Create, RewindAt, Rewind
  <2> QED
    BY <1>1, <1>3, <1>4, <1>5, <1>6, <2>1, Indices, CallsStep, SingleRewinder
<1>8. Slots'
  <2>1. \A f \in FD : fdmap[f] # NULL /\ f \notin owned => Entry(t)' # fdmap[f]
    BY <1>2, <1>3, <1>4 DEF Unowned
  <2> QED
    BY <1>1, <2>1, SlotsStep DEF SlotKept, HeldInv, Slots
<1>9. FreeIsFile'
  BY <1>1 DEF HeldInv, FreeIsFile
<1>10. ~Settled(p) /\ Settled(p)' /\ EntryHandle(p)' = LocalHandle(t)
  <2>1. Rewound(p) /\ ~Unowned(p)'
    BY <1>1, <1>2, <1>3 DEF Rewound, Unowned
  <2>2. ~Rewound(p)'
    BY <1>1, <1>3, <1>4 DEF Rewound, OthersSame, Single, Rewind
  <2>3. EntryHandle(p)' = LocalHandle(t)
    BY <1>1, <1>3, <1>6 DEF EntryHandle, LocalHandle, LocalKind, KindOf
  <2> QED
    BY <1>1, <1>3, <2>1, <2>2, <2>3 DEF Settled
<1>11. EntriesKept(Pool \ {p})
  <2>1. \A q \in Pool \ {p} : (Unowned(q)' <=> Unowned(q)) /\ (Rewound(q)' <=> Rewound(q))
    BY <1>1, <1>2, <1>4 DEF Unowned, Rewound, OthersSame
  <2> QED
    BY <1>1, <1>6, <2>1 DEF EntriesKept, Settled, EntryHandle
<1> QED
  BY <1>1, <1>3, <1>5, <1>7, <1>8, <1>9, <1>10, <1>11, OtherLocals, HandlesMove DEF HeldInv, IInv

-----------------------------------------------------------------------------
(* close, dup and dup2 give the slot f, which the application holds or      *)
(* nobody uses, the value v; the entries of P go with their handles.        *)
SlotSet(t, f, v) ==
    /\ pc[t] = "idle" /\ UNCHANGED <<localVars, lock>>
    /\ f \in owned \/ fdmap[f] = NULL
    /\ fdmap' = [fdmap EXCEPT ![f] = v]
    /\ v # NULL => v \in Pool /\ ~Unowned(v)
    /\ owned' = IF v = NULL THEN owned \ {f} ELSE owned \cup {f}

EntriesGo(P) ==
    /\ \A p \in P : (\A g \in FD : fdmap'[g] # p) /\ (\A c \in Cells : lock[c] # p)
    /\ \A q \in Pool \ P : /\ type'[q] = type[q] /\ sce_uid'[q] = sce_uid[q]
                           /\ ref_count'[q] > 0 <=> ref_count[q] > 0

LEMMA SectionHeld ==
    ASSUME IInv, HeldInv, NEW t \in Threads, NEW f \in FD, NEW v, SlotSet(t, f, v),
           NEW P \in SUBSET Pool, EntriesGo(P), ref_count' \in [Pool -> Nat],
           \A p \in P : type'[p] = "FILE"
    PROVE  Slots' /\ Calls' /\ FreeIsFile' /\ EntriesKept(Pool \ P) /\ LocalsKept(Threads)
<1>1. /\ pc[t] = "idle" /\ UNCHANGED <<pc, call, fd, uid, typ, ptr, idx, pfd, lock>>
      /\ OthersSame(t)
  BY DEF SlotSet, localVars, OthersSame
<1>2. \A g \in FD : fdmap'[g] = IF g = f THEN v ELSE fdmap[g]
  BY DEF SlotSet, IInv, TypeOK, TableTypeOK
<1>3. /\ pc[t] \notin Single /\ fd[t] = NULL /\ typ[t] = "FILE" /\ call[t] # "rewinddir"
      /\ pc[t] \notin Create \cup {"accept_drop"} \cup Rewind
  BY <1>1, FilledNothing DEF Single, Create, Rewind, Filling
<1>4. FillAt(t)' /\ RewindAt(t)' /\ PollAt(t)'
  BY <1>1, <1>3, FillsNothing, RewindsNothing, PollsNothing
<1>5. \A g \in FD : fdmap[g] # NULL /\ g \notin owned =>
         g # f /\ fdmap'[g] = fdmap[g] /\ g \notin owned' /\ fdmap[g] \in Pool \ P /\ fdmap[g] # v
  <2> SUFFICES ASSUME NEW g \in FD, fdmap[g] # NULL, g \notin owned
               PROVE  /\ g # f /\ fdmap'[g] = fdmap[g] /\ g \notin owned'
                      /\ fdmap[g] \in Pool \ P /\ fdmap[g] # v
    OBVIOUS
  <2>1. g # f
    BY DEF SlotSet
  <2>2. fdmap'[g] = fdmap[g] /\ g \notin owned'
    BY <1>2, <2>1 DEF SlotSet
  <2>3. fdmap[g] \in Pool
    BY DEF IInv, TypeOK, TableTypeOK
  <2>4. fdmap[g] # v
    BY DEF SlotSet, Unowned
  <2> QED
    BY <2>1, <2>2, <2>3, <2>4 DEF EntriesGo
<1>6. \A g \in FD : fdmap'[g] # NULL /\ g \notin owned' => fdmap[g] # NULL /\ g \notin owned
  BY <1>2 DEF SlotSet
<1>7. Calls'
  <2>1. \A u \in Threads \ {t} : fd[u] # NULL => fd[u] \in FD /\ fdmap[fd[u]] # NULL /\ fd[u] \notin owned
    BY DEF HeldInv, Calls, FillAt, IInv, TypeOK, LocalTypeOK
  <2>2. \A u \in Threads, i \in FD : i \in HeldCells(u) => lock[<<u, i>>] \in Pool \ P
    BY CellOf DEF HeldCells, IInv, TypeOK, EntriesGo
  <2> QED
    BY <1>1, <1>3, <1>4, <1>5, <2>1, <2>2, Indices, CallsStep DEF EntriesGo
<1>8. Slots'
  <2>1. \A g \in owned' : fdmap'[g] # NULL
    BY <1>2 DEF SlotSet, HeldInv, Slots, IInv, TypeOK
  <2>2. ASSUME NEW g \in FD \ owned', fdmap'[g] # NULL PROVE SlotKept(t, g)
    <3>1. fdmap[g] # NULL /\ g \notin owned
      BY <1>6, <2>2
    <3> QED
      BY <1>1, <1>2, <1>3, <1>5, <3>1, Indices DEF SlotKept, EntriesGo
  <2> QED
    BY <1>1, <2>1, <2>2, SlotsStep
<1>9. FreeIsFile'
  BY DEF HeldInv, FreeIsFile, EntriesGo, IInv, TypeOK, TableTypeOK
<1>10. EntriesKept(Pool \ P)
  <2>1. \A q \in Pool : Unowned(q)' <=> Unowned(q)
    BY <1>5, <1>6, Indices DEF Unowned
  <2>2. \A q \in Pool : Rewound(q)' <=> Rewound(q)
    BY <1>1 DEF Rewound, Entry
  <2> QED
    BY <2>1, <2>2 DEF EntriesKept, Settled, EntryHandle, EntriesGo
<1>11. LocalsKept(Threads)
  BY <1>1 DEF LocalsKept, HasLocal, LocalHandle, LocalKind
<1> QED
  BY <1>7, <1>8, <1>9, <1>10, <1>11

LEMMA SectionKeeps ==
    ASSUME IInv, HeldInv, NEW t \in Threads, NEW f \in FD, NEW v, SlotSet(t, f, v),
           UNCHANGED <<type, sce_uid, opened>>, ref_count' \in [Pool -> Nat],
           \A q \in Pool : ref_count'[q] > 0 <=> ref_count[q] > 0
    PROVE  HeldInv' /\ HeldBut({})
<1>1. PICK P : P = {}
  OBVIOUS
<1>2. P \in SUBSET Pool /\ EntriesGo(P) /\ \A p \in P : type'[p] = "FILE"
  BY <1>1 DEF EntriesGo
<1>3. Slots' /\ Calls' /\ FreeIsFile' /\ EntriesKept(Pool \ P) /\ LocalsKept(Threads)
  BY <1>2, SectionHeld
<1>4. EntriesKept(Pool)
  BY <1>1, <1>3 DEF EntriesKept
<1> QED
  BY <1>3, <1>4, HandlesQuiet DEF HeldInv, IInv

LEMMA SectionCloses ==
    ASSUME IInv, HeldInv, NEW t \in Threads, NEW f \in owned, NEW v, SlotSet(t, f, v),
           NEW p, p = fdmap[f], v # p, DropCloses(p), ref_count' \in [Pool -> Nat],
           \A q \in Pool \ {p} : /\ type'[q] = type[q] /\ sce_uid'[q] = sce_uid[q]
                                 /\ ref_count'[q] > 0 <=> ref_count[q] > 0
    PROVE  HeldInv' /\ HeldBut({})
<1>1. f \in FD /\ p \in Pool /\ ~Unowned(p) /\ ref_count[p] = 1
  BY OwnedEntry DEF DropCloses
<1>2. (\A g \in FD : fdmap[g] = p => g = f) /\ (\A c \in Cells : lock[c] # p)
  BY <1>1, LastReference
<1>3. PICK P : P = {p}
  OBVIOUS
<1>4. P \in SUBSET Pool /\ \A q \in P : type'[q] = "FILE"
  BY <1>1, <1>3 DEF DropCloses
<1>5. \A g \in FD : fdmap'[g] # p
  BY <1>1, <1>2 DEF SlotSet, IInv, TypeOK, TableTypeOK
<1>6. EntriesGo(P)
  BY <1>2, <1>3, <1>5 DEF EntriesGo
<1>7. Slots' /\ Calls' /\ FreeIsFile' /\ EntriesKept(Pool \ P) /\ LocalsKept(Threads)
  BY <1>1, <1>4, <1>6, SectionHeld
<1>8. Settled(p) /\ ~Settled(p)'
  <2>1. ~Rewound(p)
    BY <1>2, CellOf, Indices DEF Rewound, Entry
  <2> QED
    BY <1>1, <2>1 DEF Settled, DropCloses
<1>9. EntriesKept(Pool \ {p}) /\ opened' = [opened EXCEPT ![KindOf(type[p])] = @ \ {sce_uid[p]}]
  BY <1>3, <1>7 DEF DropCloses
<1> QED
  BY <1>1, <1>7, <1>8, <1>9, HandlesClose DEF HeldInv, IInv

LEMMA CloseHeld ==
    ASSUME IInv, HeldInv, Disciplined, NEW t \in Threads, NEW f \in FD, Close(t, f)
    PROVE  HeldInv' /\ HeldBut({})
<1>1. PICK r \in CloseResults : release_descriptor(f, r)
  BY DEF Close
<1>2. /\ pc[t] = "idle" /\ f \in owned /\ UNCHANGED <<localVars, lock>>
      /\ owned' = IF fdmap'[f] = NULL THEN owned \ {f} ELSE owned
  BY DEF Close, Held, Owns
<1>3. PICK p : p = fdmap[f]
  OBVIOUS
<1>4. p \in Pool /\ p # NULL /\ ~Unowned(p) /\ ref_count[p] > 0
  BY <1>2, <1>3, OwnedEntry, ReferencedEntry, Indices DEF IInv, TypeOK
<1>5. /\ r \in CloseReturns(p) /\ ref_count' = RefAfterDrop(p, r) /\ FieldsAfterDrop(p, r)
      /\ IF fd_drop_result(p, r) >= 0 THEN fdmap' = [fdmap EXCEPT ![f] = NULL] ELSE UNCHANGED fdmap
  BY <1>1, <1>3 DEF release_descriptor
<1>6. /\ DropKeeps(p) \/ DropCloses(p)
      /\ ref_count' \in [Pool -> Nat]
      /\ \A q \in Pool \ {p} :
           ref_count'[q] = ref_count[q] /\ type'[q] = type[q] /\ sce_uid'[q] = sce_uid[q]
  BY <1>4, <1>5, DropFields
<1>7. DropKeeps(p) => UNCHANGED <<type, sce_uid, opened>> /\ \A q \in Pool : ref_count'[q] > 0 <=> ref_count[q] > 0
  BY <1>6 DEF DropKeeps
<1>8. CASE fd_drop_result(p, r) >= 0
  <2>1. PICK v : v = NULL
    OBVIOUS
  <2>2. SlotSet(t, f, v)
    BY <1>2, <1>5, <1>8, <2>1 DEF SlotSet, IInv, TypeOK, TableTypeOK
  <2>3. CASE DropKeeps(p)
    BY <1>6, <1>7, <2>2, <2>3, SectionKeeps
  <2>4. CASE DropCloses(p)
    BY <1>2, <1>3, <1>4, <1>6, <2>1, <2>2, <2>4, SectionCloses
  <2> QED
    BY <1>6, <2>3, <2>4
<1>9. CASE ~(fd_drop_result(p, r) >= 0)
  <2>1. Refused(p, r)
    BY <1>9 DEF fd_drop_result
  <2>2. DropKeeps(p)
    <3>1. UNCHANGED ref_count
      BY <1>5, <2>1 DEF RefAfterDrop
    <3> QED
      BY <1>6, <3>1 DEF DropCloses
  <2>3. SlotSet(t, f, p)
    BY <1>2, <1>3, <1>4, <1>5, <1>9 DEF SlotSet, IInv, TypeOK, TableTypeOK
  <2> QED
    BY <1>6, <1>7, <2>2, <2>3, SectionKeeps
<1> QED
  BY <1>8, <1>9

(* dup, fcntl(F_DUPFD), and dup2 to a free number.                          *)
LEMMA NewSlotHeld ==
    ASSUME IInv, HeldInv, NEW t \in Threads, NEW f \in owned, NEW g \in FD, fdmap[g] = NULL,
           pc[t] = "idle", UNCHANGED <<localVars, lock>>,
           fdmap' = [fdmap EXCEPT ![g] = fdmap[f]], ref_count' = [ref_count EXCEPT ![fdmap[f]] = @ + 1],
           UNCHANGED <<type, sce_uid, opened>>, owned' = owned \cup {g}
    PROVE  HeldInv' /\ HeldBut({})
<1>1. PICK v : v = fdmap[f]
  OBVIOUS
<1>2. f \in FD /\ v \in Pool /\ ~Unowned(v) /\ v # NULL
  BY <1>1, OwnedEntry, Indices
<1>3. ref_count[v] > 0
  BY <1>1, <1>2, ReferencedEntry DEF IInv, TypeOK
<1>4. SlotSet(t, g, v)
  BY <1>1, <1>2 DEF SlotSet
<1>5. ref_count' \in [Pool -> Nat] /\ \A q \in Pool : ref_count'[q] > 0 <=> ref_count[q] > 0
  BY <1>1, <1>2, <1>3 DEF IInv, TypeOK, TableTypeOK
<1> QED
  BY <1>4, <1>5, SectionKeeps

LEMMA DupHeld ==
    ASSUME IInv, HeldInv, Disciplined, NEW t \in Threads, NEW f \in FD, NEW m \in FD, Dup(t, f, m)
    PROVE  HeldInv' /\ HeldBut({})
<1>1. PICK g \in FD : duplicate_descriptor(f, m, g) /\ Owns(owned \cup {g})
  BY DEF Dup
<1> QED
  BY <1>1, NewSlotHeld DEF Dup, Held, Owns, duplicate_descriptor, FreeFd

(* dup2 over a number in use.                                               *)
LEMMA Dup2OverHeld ==
    ASSUME IInv, HeldInv, NEW t \in Threads, NEW f \in owned, NEW g \in owned, f # g,
           pc[t] = "idle", UNCHANGED <<localVars, lock>>,
           NEW r \in CloseResults, duplicate_descriptor2_over(f, g, r),
           owned' = owned \cup {g}
    PROVE  HeldInv' /\ HeldBut({})
<1>1. PICK v : v = fdmap[f]
  OBVIOUS
<1>2. PICK p : p = fdmap[g]
  OBVIOUS
<1>3. /\ f \in FD /\ v \in Pool /\ ~Unowned(v) /\ v # NULL
      /\ g \in FD /\ p \in Pool /\ ~Unowned(p) /\ p # NULL
  BY <1>1, <1>2, OwnedEntry, Indices
<1>4. ref_count[v] > 0 /\ ref_count[p] > 0
  BY <1>1, <1>2, <1>3, ReferencedEntry DEF IInv, TypeOK
<1>5. /\ FieldsAfterDrop(p, r) /\ fdmap' = [fdmap EXCEPT ![g] = v]
      /\ ref_count' = [RefAfterDrop(p, r) EXCEPT ![v] = @ + 1]
  BY <1>1, <1>2 DEF duplicate_descriptor2_over
<1>6. SlotSet(t, g, v)
  BY <1>3, <1>5 DEF SlotSet
<1>7. ref_count \in [Pool -> Nat] /\ type \in [Pool -> Types] /\ sce_uid \in [Pool -> Uid \cup {NoUid}]
  BY DEF IInv, TypeOK, TableTypeOK
<1>8. r \in Int
  BY CloseResultType
<1>9. CASE Closes(p, r)
  <2>1. ref_count[p] = 1 /\ ~Refused(p, r)
    BY <1>8, <1>9 DEF Closes, Refused
  <2>2. v # p
    BY <1>1, <1>2, <1>3, <2>1, LastReference
  <2>3. /\ ref_count' \in [Pool -> Nat] /\ ref_count'[p] = 0
        /\ \A q \in Pool \ {p} : ref_count'[q] > 0 <=> ref_count[q] > 0
    BY <1>3, <1>4, <1>5, <1>7, <2>1, <2>2 DEF RefAfterDrop
  <2>4. /\ sce_uid' = [sce_uid EXCEPT ![p] = NoUid] /\ type' = [type EXCEPT ![p] = "FILE"]
        /\ opened' = [opened EXCEPT ![KindOf(type[p])] = @ \ {sce_uid[p]}]
    BY <1>5, <1>9 DEF FieldsAfterDrop
  <2>5. DropCloses(p)
    BY <1>3, <1>7, <2>1, <2>3, <2>4 DEF DropCloses
  <2>6. \A q \in Pool \ {p} : type'[q] = type[q] /\ sce_uid'[q] = sce_uid[q]
    BY <1>7, <2>4
  <2> QED
    BY <1>2, <1>6, <2>2, <2>3, <2>5, <2>6, SectionCloses
<1>10. CASE ~Closes(p, r)
  <2>1. UNCHANGED <<type, sce_uid, opened>>
    BY <1>5, <1>10 DEF FieldsAfterDrop
  <2>2. ref_count[p] = 1 => Refused(p, r)
    BY <1>8, <1>10 DEF Closes, Refused
  <2>3. ref_count' \in [Pool -> Nat] /\ \A q \in Pool : ref_count'[q] > 0 <=> ref_count[q] > 0
    BY <1>3, <1>4, <1>5, <1>7, <2>2 DEF RefAfterDrop
  <2> QED
    BY <1>3, <1>6, <2>1, <2>3, SectionKeeps
<1> QED
  BY <1>9, <1>10

LEMMA Dup2Held ==
    ASSUME IInv, HeldInv, Disciplined, NEW t \in Threads, NEW f \in FD, NEW g \in FD, Dup2(t, f, g)
    PROVE  HeldInv' /\ HeldBut({})
<1>1. /\ pc[t] = "idle" /\ UNCHANGED <<localVars, lock>> /\ f \in owned /\ g \in Std \cup owned
      /\ owned' = owned \cup {g}
  BY DEF Dup2, Held, Owns
<1>2. CASE duplicate_descriptor2_free(f, g)
  BY <1>1, <1>2, NewSlotHeld DEF duplicate_descriptor2_free
<1>3. ASSUME NEW r \in CloseResults, duplicate_descriptor2_over(f, g, r)
      PROVE  HeldInv' /\ HeldBut({})
  <2>1. f # g /\ fdmap[g] # NULL
    BY <1>3 DEF duplicate_descriptor2_over, is_fd_valid
  <2>2. g \in Std => ~(g >= FirstFd)
    BY TableAssumption DEF Std
  <2>3. g \in owned
    BY <1>1, <2>1, <2>2 DEF HeldInv, Slots, SlotAt
  <2> QED
    BY <1>1, <1>3, <2>1, <2>3, Dup2OverHeld
<1> QED
  BY <1>2, <1>3 DEF Dup2

-----------------------------------------------------------------------------
(* At the start each standard entry holds its own handle.                   *)
LEMMA InitHeld == Init => HeldInv
<1> SUFFICES ASSUME Init PROVE HeldInv
  OBVIOUS
<1>1. Std \subseteq FD /\ Pool = FD /\ NULL \notin FD
  BY TableAssumption DEF Std, FD, Pool
<1>2. /\ owned = Std
      /\ \A f \in FD : fdmap[f] = IF f \in Std THEN f ELSE NULL
      /\ \A p \in Pool : /\ p \in Std => /\ sce_uid[p] = StdUid[p] /\ type[p] = "TTY" /\ ref_count[p] = 1
                                        /\ StdUid[p] \in Uid
                         /\ p \notin Std => type[p] = "FILE" /\ ref_count[p] = 0
  BY <1>1, TableAssumption DEF Init, init_fd
<1>3. \A k \in Kinds : opened[k] = IF k = "io" THEN {StdUid[i] : i \in Std} ELSE {}
  BY DEF Init, init_fd
<1>4. \A t \in Threads : pc[t] = "idle" /\ call[t] = "none" /\ fd[t] = NULL /\ typ[t] = "FILE"
  BY DEF Init
<1>5. Slots /\ FreeIsFile
  BY <1>1, <1>2 DEF Slots, FreeIsFile
<1>6. Calls
  BY <1>4 DEF Calls, FillAt, Filling, Create, RewindAt, Rewind, PollAt
<1>7. \A t \in Threads : ~HasLocal(t)
  BY <1>4 DEF HasLocal, Create, Rewind
<1>8. \A p \in Pool : /\ Settled(p) <=> p \in Std
                      /\ p \in Std => EntryHandle(p) = <<"io", StdUid[p]>>
  <2>1. \A p \in Pool : ~Unowned(p) /\ ~Rewound(p)
    BY <1>1, <1>2, <1>4 DEF Unowned, Rewound
  <2> QED
    BY <1>2, <2>1 DEF Settled, EntryHandle, KindOf
<1>9. Handles
  <2>1. \A p \in Pool : Settled(p) => IsOpen(EntryHandle(p))
    BY <1>3, <1>8 DEF IsOpen, Kinds
  <2>2. \A p, q \in Pool : Settled(p) /\ Settled(q) /\ p # q => EntryHandle(p) # EntryHandle(q)
    BY <1>8, TableAssumption
  <2> QED
    BY <1>7, <2>1, <2>2 DEF Handles
<1> QED
  BY <1>5, <1>6, <1>9 DEF HeldInv

(* No step of a disciplined application breaks the invariant, and only the  *)
(* handles of Leaky may be left without a holder.                           *)
LEMMA StepHeld ==
    ASSUME IInv, HeldInv, Disciplined, ~DirAsFile, [Next]_vars
    PROVE  HeldInv' /\ HeldBut(Leaky)
<1>1. CASE UNCHANGED vars
  BY <1>1, StillHeld, HeldButMore DEF vars, tableVars
<1>2. ASSUME NEW t \in Threads, Start(t) PROVE HeldInv' /\ HeldBut(Leaky)
  <2>1. ASSUME NEW f \in FD, Dup2Self(t, f) PROVE HeldInv' /\ HeldBut({})
    BY <2>1, StillHeld DEF Dup2Self, duplicate_descriptor2_same
  <2>2. HeldInv' /\ HeldBut({})
    BY <1>2, <2>1, CreateHeld, CloseHeld, DupHeld, Dup2Held, GrabHeld, PollMoves DEF Start
  <2> QED
    BY <2>2, HeldButMore
<1>3. ASSUME NEW t \in Threads, Continue(t) PROVE HeldInv' /\ HeldBut(Leaky)
  <2>1. CASE AcquireFails(t) \/ PipeDupFails(t) \/ RewindClose(t)
    BY <2>1, AcquireFailsHeld, PipeDupFailsHeld, RewindCloseHeld
  <2>2. CASE ~(AcquireFails(t) \/ PipeDupFails(t) \/ RewindClose(t))
    <3>1. HeldInv' /\ HeldBut({})
      BY <1>3, <2>2, AcquireHeld, LoadPtrHeld, NeverFault, StoreUidHeld, StoreTypeHeld, PipeDupHeld,
         UseHeld, UseNestedHeld, DropNestedHeld, DropCallHeld, AcceptHeld,
         AcceptDropHeld, RewindOpenHeld, RewindStoreHeld, PollMoves,
         PollGrabHeld, PollDropHeld DEF Continue
    <3> QED
      BY <3>1, HeldButMore
  <2> QED
    BY <2>1, <2>2
<1> QED
  BY <1>1, <1>2, <1>3 DEF Next

(* Where a call is, it is one that goes there.                              *)
PlacedAt(t) == pc[t] # "fault" /\ (pc[t] \in Single => call[t] \in UseCalls)
Placed == \A t \in Threads : PlacedAt(t)

LEMMA PlacedStart ==
    ASSUME TypeOK, Placed, NEW t \in Threads, Start(t)
    PROVE  Placed'
<1> USE DEF Goto, Return, TypeOK, LocalTypeOK, localVars
<1>1. CASE \E c \in OpenCalls, isDir \in BOOLEAN : Open(t, c, isDir)
  BY <1>1 DEF Open, Placed, PlacedAt, Single, Rewind
<1>2. CASE Socket(t) \/ Pipe(t)
  BY <1>2 DEF Socket, Pipe, Placed, PlacedAt, Single, Rewind
<1>3. CASE \/ \E f \in FD : Close(t, f) \/ Dup2Self(t, f)
           \/ \E f, g \in FD : Dup(t, f, g) \/ Dup2(t, f, g)
  <2>1. UNCHANGED <<pc, call>>
    BY <1>3 DEF Close, Dup, Dup2, Dup2Self
  <2> QED
    BY <2>1 DEF Placed, PlacedAt
<1>4. CASE \E c \in UseCalls, f \in FD : Grab(t, c, f)
  BY <1>4 DEF Grab, Placed, PlacedAt
<1>5. CASE \E c \in PollCalls, a \in PollArrays : PollStart(t, c, a)
  BY <1>5 DEF PollStart, Placed, PlacedAt, Single, Rewind
<1> QED
  BY <1>1, <1>2, <1>3, <1>4, <1>5 DEF Start

LEMMA PlacedContinue ==
    ASSUME TypeOK, Placed, NEW t \in Threads, Continue(t), ~Fault(t)
    PROVE  Placed'
<1>1. pc[t] # "fault" /\ LocalTypeOK
  BY DEF TypeOK, Placed, PlacedAt
<1>2. CASE \/ AcquireFails(t) \/ PipeDup(t) \/ PipeDupFails(t) \/ Drop(t) \/ PollReturn(t)
           \/ StoreType(t) /\ call[t] # "pipe"
  <2>1. Return(t)
    BY <1>2 DEF AcquireFails, PipeDup, PipeDupFails, Drop, PollReturn, StoreType
  <2> QED
    BY <1>1, <2>1 DEF Return, Goto, LocalTypeOK, Placed, PlacedAt, Single, Rewind
<1>3. CASE \/ Acquire(t) \/ LoadPtr(t) \/ StoreUid(t) \/ AcceptDrop(t)
           \/ StoreType(t) /\ call[t] = "pipe"
           \/ PollSkip(t) \/ PollGrab(t) \/ PollType(t) \/ PollDrop(t) \/ PollWait(t) \/ PollWake(t)
           \/ PollUnlock(t)
  <2>1. \E l \in (Create \cup {"scan", "scan_type", "scan_drop", "wait", "unlock"}) :
           pc' = [pc EXCEPT ![t] = l] /\ UNCHANGED call
    BY <1>1, <1>3
       DEF Acquire, LoadPtr, StoreUid, StoreType, AcceptDrop, PollSkip, PollGrab, PollType,
           PollDrop, PollWait, PollWake, PollUnlock, Goto, Create, LocalTypeOK
  <2> QED
    BY <1>1, <2>1 DEF LocalTypeOK, Placed, PlacedAt, Single, Rewind, Create
<1>4. CASE \/ Use(t) \/ UseNested(t) \/ UseNestedFails(t) \/ DropNested(t) \/ Accept(t)
           \/ RewindOpen(t) \/ RewindClose(t) \/ RewindStore(t)
  <2>1. /\ pc[t] \in Single /\ UNCHANGED call
        /\ \E l \in Single : pc' = [pc EXCEPT ![t] = l]
    BY <1>4 DEF Use, UseNested, UseNestedFails, DropNested, Accept, RewindOpen, RewindClose,
                RewindStore, Goto, Single, Rewind
  <2> QED
    BY <1>1, <2>1 DEF LocalTypeOK, Placed, PlacedAt, Single, Rewind
<1>5. CASE StoreType(t)
  <2>1. CASE call[t] = "pipe"
    BY <1>3, <1>5, <2>1
  <2>2. CASE call[t] # "pipe"
    BY <1>2, <1>5, <2>2
  <2> QED
    BY <2>1, <2>2
<1> QED
  BY <1>2, <1>3, <1>4, <1>5, Zenon DEF Continue

LEMMA PlacedStep ==
    ASSUME IInv, HeldInv, Placed, [Next]_vars
    PROVE  Placed'
<1>1. CASE UNCHANGED vars
  BY <1>1 DEF vars, localVars, Placed, PlacedAt
<1>2. ASSUME NEW t \in Threads, Start(t) \/ Continue(t) PROVE Placed'
  BY <1>2, PlacedStart, PlacedContinue, NeverFault DEF IInv
<1> QED
  BY <1>1, <1>2 DEF Next

LEMMA PlacedInit == Init => Placed
BY DEF Init, Placed, PlacedAt, Single, Rewind

-----------------------------------------------------------------------------
(* Whose entries are settled.                                               *)

(* Only a directory that is rewound is between two handles.                 *)
LEMMA RewoundIsRewinding ==
    ASSUME HeldInv, NEW p, Rewound(p)
    PROVE  Rewinding(p)
BY DEF Rewound, Rewinding, HeldInv, Calls, RewindAt, Rewind

(* A socket is complete once its entry has the type.                        *)
LEMMA SocketSettled ==
    ASSUME IInv, HeldInv, NEW p \in Pool, ref_count[p] > 0, type[p] = "SOCKET"
    PROVE  Settled(p)
<1>1. ~Unowned(p)
  <2> SUFFICES ASSUME NEW f \in FD, fdmap[f] = p, f \notin owned PROVE FALSE
    BY DEF Unowned
  <2>1. SlotAt(f)
    BY Indices DEF HeldInv, Slots
  <2>2. PICK t \in Threads : fd[t] = f
    BY <2>1 DEF SlotAt
  <2>3. f # NULL
    BY Indices
  <2> QED
    BY <2>2, <2>3 DEF HeldInv, Calls, FillAt
<1>2. ~Rewound(p)
  BY DEF Rewound, HeldInv, Calls, RewindAt, Rewind
<1> QED
  BY <1>1, <1>2 DEF Settled

LEMMA UsedSettled ==
    ASSUME IInv, HeldInv, NEW t \in Threads, pc[t] \in Single, ~Rewound(Entry(t))
    PROVE  Settled(Entry(t))
<1>1. Entry(t) \in Pool /\ ~Unowned(Entry(t))
  BY SingleEntry, SingleOwned
<1>2. <<t, 0>> \in Cells /\ lock[<<t, 0>>] = Entry(t)
  BY CellOf, Indices DEF Entry
<1>3. ref_count[Entry(t)] > 0
  BY <1>1, <1>2, ReferencedEntry DEF IInv, TypeOK
<1> QED
  BY <1>1, <1>3 DEF Settled

LEMMA ReachableSettled ==
    ASSUME IInv, HeldInv, NEW p \in Pool, Reachable(p), ~Rewinding(p)
    PROVE  Settled(p)
<1>1. ~Rewound(p)
  BY RewoundIsRewinding
<1>2. ASSUME NEW f \in owned, fdmap[f] = p PROVE Settled(p)
  <2>1. f \in FD /\ ~Unowned(p)
    BY <1>2, OwnedEntry
  <2>2. ref_count[p] > 0
    BY <1>2, <2>1, ReferencedEntry DEF IInv, TypeOK
  <2> QED
    BY <1>1, <2>1, <2>2 DEF Settled
<1>3. ASSUME NEW t \in Threads, pc[t] \in {"use", "accept_drop"}, Entry(t) = p PROVE Settled(p)
  BY <1>1, <1>3, UsedSettled DEF Single
<1> QED
  BY <1>2, <1>3 DEF Reachable

LEMMA SettledLive ==
    ASSUME HeldInv, NEW p \in Pool, Settled(p)
    PROVE  Live(p)
BY DEF HeldInv, Handles, IsOpen, EntryHandle, Live

(* Where a call is made for the type of its entry, it goes to the backend   *)
(* of that type.                                                            *)
LEMMA DispatchKind ==
    ASSUME NEW c \in FdUsers, NEW ty \in Types, Api[c][ty] \notin {"none", "as_fd"},
           <<c, ty>> \notin Mismatched
    PROVE  Api[c][ty] = KindOf(ty)
<1> USE DEF FdUsers, Types, Mismatched, KindOf, Row, Always
<1>1. CASE c \in NetCalls
  BY <1>1 DEF NetCalls
<1>2. CASE c \in DirCalls
  BY <1>2 DEF DirCalls
<1>3. CASE c \notin NetCalls \cup DirCalls
  BY <1>3 DEF NetCalls, DirCalls, Api, read, write, lseek, fsync, ftruncate, pread, pwrite,
     readv, writev, preadv, pwritev, fchdir, fchownat, isatty, fstat, fstatvfs, fchmod,
     utimensat, fcntl, accept, bind, connect, listen, recv, recvfrom, recvmsg, send, sendto,
     sendmsg, shutdown, getsockopt, setsockopt, getpeername, getsockname, fdopendir, readdir,
     rewinddir
<1> QED
  BY <1>1, <1>2, <1>3

-----------------------------------------------------------------------------
(* An application that names only descriptors it holds, on a FIOS that      *)
(* opens no directory as a file.                                            *)
DisciplinedApp == Disciplined /\ ~DirAsFile

Inv == IInv /\ HeldInv /\ Placed

(* The invariant holds of every behaviour of such an application.           *)
THEOREM HeldInvariance == ASSUME DisciplinedApp PROVE Spec => []Inv
<1>1. Init => Inv
  BY InitInv, InitHeld, PlacedInit DEF Inv
<1>2. Inv /\ [Next]_vars => Inv'
  BY NextInv, StepHeld, PlacedStep DEF Inv, DisciplinedApp
<1> QED
  BY <1>1, <1>2, PTL DEF Spec

(* Every descriptor the application holds stays usable: its slot points to  *)
(* an entry with an open handle of the entry's type, whatever other threads *)
(* open, close, duplicate or poll, and so does the entry a call grabbed.    *)
THEOREM HeldLiveCorrect == ASSUME DisciplinedApp PROVE Spec => []HeldLive
<1>1. Inv => HeldLive
  <2> SUFFICES ASSUME Inv PROVE HeldLive
    OBVIOUS
  <2>1. \A f \in owned : fdmap[f] # NULL
    BY DEF Inv, HeldInv, Slots
  <2>2. \A p \in Pool : Reachable(p) /\ ~Rewinding(p) => Live(p)
    BY ReachableSettled, SettledLive DEF Inv
  <2> QED
    BY <2>1, <2>2 DEF HeldLive
<1> QED
  BY <1>1, HeldInvariance, PTL

(* Two entries in use never share a backend handle: closing one descriptor  *)
(* does not close the file behind another.                                  *)
THEOREM NoAliasCorrect == ASSUME DisciplinedApp PROVE Spec => []NoAlias
<1>1. Inv => NoAlias
  <2> SUFFICES ASSUME Inv, NEW p \in Pool, NEW q \in Pool, p # q, Reachable(p), Reachable(q),
                      ~Rewinding(p), ~Rewinding(q), <<type[p], sce_uid[p]>> = <<type[q], sce_uid[q]>>
               PROVE  FALSE
    BY DEF NoAlias
  <2>1. Settled(p) /\ Settled(q)
    BY ReachableSettled DEF Inv
  <2>2. EntryHandle(p) = EntryHandle(q)
    BY DEF EntryHandle
  <2> QED
    BY <2>1, <2>2 DEF Inv, HeldInv, Handles
<1> QED
  BY <1>1, HeldInvariance, PTL

(* A slot nobody knows of was left by a pipe that got one descriptor only.  *)
THEOREM OrphansCorrect == ASSUME DisciplinedApp PROVE Spec => []OrphanSlotsArePipes
<1>1. Inv => OrphanSlotsArePipes
  BY DEF Inv, HeldInv, Slots, SlotAt, OrphanSlotsArePipes
<1> QED
  BY <1>1, HeldInvariance, PTL

(* open, socket, accept and pipe never write through a null __fdmap[fd],    *)
(* though they look at it without the mutex and without a check.            *)
THEOREM NoFaultCorrect == ASSUME DisciplinedApp PROVE Spec => []NoFault
<1>1. Inv => NoFault
  BY DEF Inv, Placed, PlacedAt, NoFault
<1> QED
  BY <1>1, HeldInvariance, PTL

(* Every handle poll or select waits on is an open socket.                  *)
THEOREM PollLiveCorrect == ASSUME DisciplinedApp PROVE Spec => []PollLive
<1>1. Inv => PollLive
  <2> SUFFICES ASSUME Inv, NEW t \in Threads, pc[t] = "wait", NEW i \in HeldCells(t)
               PROVE  type[lock[<<t, i>>]] = "SOCKET" /\ sce_uid[lock[<<t, i>>]] \in opened["net"]
    BY DEF PollLive
  <2>1. PICK p : p = lock[<<t, i>>]
    OBVIOUS
  <2>2. p \in Pool /\ <<t, i>> \in Cells
    BY <2>1, CellOf DEF HeldCells, Inv, IInv, TypeOK
  <2>3. type[p] = "SOCKET"
    BY <2>1 DEF Inv, HeldInv, Calls, PollAt
  <2>4. ref_count[p] > 0
    BY <2>1, <2>2, ReferencedEntry DEF Inv, IInv, TypeOK
  <2>5. Live(p)
    BY <2>2, <2>3, <2>4, SocketSettled, SettledLive DEF Inv
  <2> QED
    BY <2>1, <2>3, <2>5 DEF Live, KindOf
<1> QED
  BY <1>1, HeldInvariance, PTL

(* The handle a function passes on is an open handle of the family it is    *)
(* passed to, except where the call is not made for the descriptor's type.  *)
THEOREM UseLiveCorrect == ASSUME DisciplinedApp PROVE Spec => []UseLive
<1>1. Inv => UseLive
  <2> SUFFICES ASSUME Inv, NEW t \in Threads, pc[t] = "use", Family(t) \notin {"none", "as_fd"},
                      <<call[t], type[Entry(t)]>> \notin Mismatched
               PROVE  /\ Family(t) = KindOf(type[Entry(t)])
                      /\ sce_uid[Entry(t)] \in opened[Family(t)]
    BY DEF UseLive
  <2>1. pc[t] \in Single /\ call[t] \in FdUsers
    BY CallsAssumption DEF Single, Inv, Placed, PlacedAt
  <2>2. Entry(t) \in Pool /\ type[Entry(t)] \in Types
    BY <2>1, SingleEntry DEF Inv, IInv, TypeOK, TableTypeOK
  <2>3. Family(t) = KindOf(type[Entry(t)])
    BY <2>1, <2>2, DispatchKind DEF Family
  <2>4. ~Rewound(Entry(t))
    <3> SUFFICES ASSUME NEW u \in Threads, pc[u] = "rewind_store", Entry(u) = Entry(t) PROVE FALSE
      BY DEF Rewound
    <3>1. RewindAt(u) /\ u # t
      BY DEF Inv, HeldInv, Calls
    <3> QED
      BY <2>1, <3>1 DEF RewindAt, Rewind
  <2>5. Live(Entry(t))
    BY <2>1, <2>2, <2>4, UsedSettled, SettledLive DEF Inv
  <2> QED
    BY <2>3, <2>5 DEF Live
<1> QED
  BY <1>1, HeldInvariance, PTL

-----------------------------------------------------------------------------
(* An entry that stays counted after its last reference keeps its handle    *)
(* for good; it became one when the close of that handle was refused.       *)
LostFate ==
    \A p \in lost' :
        /\ EntryHandle(p)' = EntryHandle(p)
        /\ p \in lost \/ (IsOpen(EntryHandle(p))' => MayFail(KindOf(type[p])))

LEMMA LostQuiet ==
    ASSUME UNCHANGED <<sce_uid, type, lost>>
    PROVE  LostFate
BY DEF LostFate, EntryHandle

LEMMA LostWrite ==
    ASSUME IInv, NEW q, q \notin lost, UNCHANGED lost,
           \A p \in Pool \ {q} : sce_uid'[p] = sce_uid[p] /\ type'[p] = type[p]
    PROVE  LostFate
BY DEF LostFate, EntryHandle, IInv, TypeOK, TableTypeOK

LEMMA LostDrop ==
    ASSUME IInv, NEW p \in Pool, p \notin lost, NEW r \in CloseResults,
           r \in CloseReturns(p), FieldsAfterDrop(p, r), lost' \in {lost, LostAfterDrop(p, r)}
    PROVE  LostFate
<1>1. r \in Int
  BY CloseResultType
<1>2. CASE Closes(p, r)
  <2>1. lost' = lost
    BY <1>1, <1>2 DEF Closes, Refused, LostAfterDrop
  <2>2. \A q \in Pool \ {p} : sce_uid'[q] = sce_uid[q] /\ type'[q] = type[q]
    BY <1>2 DEF FieldsAfterDrop, IInv, TypeOK, TableTypeOK
  <2> QED
    BY <2>1, <2>2, LostWrite
<1>3. CASE ~Closes(p, r)
  <2>1. UNCHANGED <<sce_uid, type, opened>>
    BY <1>3 DEF FieldsAfterDrop
  <2>2. CASE ~Refused(p, r)
    BY <2>1, <2>2, LostQuiet DEF LostAfterDrop
  <2>3. CASE Refused(p, r)
    <3>1. r # 0 /\ ref_count[p] = 1
      BY <1>1, <2>3 DEF Refused
    <3>2. sce_uid[p] \in opened[KindOf(type[p])] => MayFail(KindOf(type[p]))
      BY <3>1 DEF CloseReturns, MayFail
    <3>3. IsOpen(EntryHandle(p))' => MayFail(KindOf(type[p]))
      BY <2>1, <3>2 DEF IsOpen, EntryHandle
    <3>4. \A q \in lost' : q \in lost \/ q = p
      BY <2>3 DEF LostAfterDrop
    <3>5. \A q : EntryHandle(q)' = EntryHandle(q)
      BY <2>1 DEF EntryHandle
    <3> QED
      BY <3>3, <3>4, <3>5 DEF LostFate
  <2> QED
    BY <2>2, <2>3
<1> QED
  BY <1>2, <1>3

(* What a slot or a call refers to is no such entry.                        *)
LEMMA SlotNotLost ==
    ASSUME IInv, NEW f \in FD, fdmap[f] # NULL
    PROVE  fdmap[f] \in Pool \ lost
<1>1. fdmap[f] \in Pool
  BY DEF IInv, TypeOK, TableTypeOK
<1> QED
  BY <1>1, ReferencedEntry DEF IInv, TypeOK

LEMMA CellNotLost ==
    ASSUME IInv, NEW t \in Threads, NEW i \in FD, lock[<<t, i>>] # NULL
    PROVE  lock[<<t, i>>] \in Pool \ lost
<1>1. <<t, i>> \in Cells
  BY CellOf
<1>2. lock[<<t, i>>] \in Pool
  BY <1>1 DEF IInv, TypeOK
<1> QED
  BY <1>1, <1>2, ReferencedEntry DEF IInv, TypeOK

LEMMA LostDropCell ==
    ASSUME IInv, NEW t \in Threads, NEW i \in HeldCells(t), DropCell(t, i)
    PROVE  LostFate
<1>1. i \in FD /\ lock[<<t, i>>] # NULL
  BY DEF HeldCells
<1>2. PICK p \in Pool : p = lock[<<t, i>>] /\ p \notin lost
  BY <1>1, CellNotLost
<1>3. PICK r \in CloseResults : fd_drop(lock[<<t, i>>], r)
  BY DEF DropCell
<1> QED
  BY <1>2, <1>3, LostDrop DEF fd_drop

LEMMA LostSection ==
    ASSUME IInv, NEW t \in Threads,
           (\E f \in FD : Close(t, f)) \/ (\E f, g \in FD : Dup2(t, f, g))
    PROVE  LostFate
<1>1. ASSUME NEW f \in FD, Close(t, f) PROVE LostFate
  <2>1. PICK r \in CloseResults : release_descriptor(f, r)
    BY <1>1 DEF Close
  <2>2. PICK p \in Pool : p = fdmap[f] /\ p \notin lost
    BY <2>1, SlotNotLost DEF release_descriptor, is_fd_valid
  <2> QED
    BY <2>1, <2>2, LostDrop DEF release_descriptor
<1>2. ASSUME NEW f \in FD, NEW g \in FD, duplicate_descriptor2_free(f, g) PROVE LostFate
  BY <1>2, LostQuiet DEF duplicate_descriptor2_free
<1>3. ASSUME NEW f \in FD, NEW g \in FD, NEW r \in CloseResults,
             duplicate_descriptor2_over(f, g, r)
      PROVE  LostFate
  <2>1. PICK p \in Pool : p = fdmap[g] /\ p \notin lost
    BY <1>3, SlotNotLost DEF duplicate_descriptor2_over, is_fd_valid
  <2> QED
    BY <1>3, <2>1, LostDrop DEF duplicate_descriptor2_over
<1> QED
  BY <1>1, <1>2, <1>3 DEF Dup2

LEMMA LostStore ==
    ASSUME IInv, HeldInv, NEW t \in Threads, StoreUid(t) \/ StoreType(t) \/ RewindStore(t)
    PROVE  LostFate
<1>1. CASE StoreUid(t) \/ StoreType(t)
  <2>1. pc[t] \in {"store_uid", "store_type"}
    BY <1>1 DEF StoreUid, StoreType
  <2>2. fd[t] # NULL
    BY <2>1 DEF HeldInv, Calls, FillAt, Filling, Create
  <2>3. fd[t] \in FD /\ fdmap[fd[t]] # NULL /\ ptr[t] = fdmap[fd[t]]
    BY <2>1, <2>2 DEF HeldInv, Calls, FillAt, IInv, TypeOK, LocalTypeOK
  <2>4. ptr[t] \in Pool \ lost
    BY <2>3, SlotNotLost
  <2>5. \A p \in Pool \ {ptr[t]} : sce_uid'[p] = sce_uid[p] /\ type'[p] = type[p]
    BY <1>1, <2>4 DEF StoreUid, StoreType, IInv, TypeOK, TableTypeOK
  <2> QED
    BY <1>1, <2>4, <2>5, LostWrite DEF StoreUid, StoreType
<1>2. CASE RewindStore(t)
  <2>1. pc[t] \in Single
    BY <1>2 DEF RewindStore, Single, Rewind
  <2>2. lock[<<t, 0>>] # NULL /\ lock[<<t, 0>>] = Entry(t)
    BY <2>1, SingleEntry DEF HeldCells, Entry
  <2>3. Entry(t) \in Pool \ lost
    BY <2>2, Indices, CellNotLost
  <2>4. \A p \in Pool \ {Entry(t)} : sce_uid'[p] = sce_uid[p] /\ type'[p] = type[p]
    BY <1>2, <2>3 DEF RewindStore, IInv, TypeOK, TableTypeOK
  <2> QED
    BY <1>2, <2>3, <2>4, LostWrite DEF RewindStore
<1> QED
  BY <1>1, <1>2

LEMMA LostCellDropped ==
    ASSUME IInv, NEW t \in Threads,
           DropNested(t) \/ Drop(t) \/ AcceptDrop(t) \/ PollDrop(t) \/ PollUnlock(t)
    PROVE  LostFate
<1>1. CellsAt(t)
  BY DEF IInv, CellsExact
<1>2. CASE DropNested(t)
  BY <1>1, <1>2, LostDropCell DEF DropNested, CellsAt
<1>3. CASE Drop(t)
  BY <1>1, <1>3, LostDropCell DEF Drop, CellsAt
<1>4. CASE AcceptDrop(t)
  BY <1>1, <1>4, LostDropCell DEF AcceptDrop, CellsAt
<1>5. CASE PollDrop(t)
  BY <1>1, <1>5, LostDropCell DEF PollDrop, CellsAt
<1>6. CASE PollUnlock(t)
  <2>1. CASE lock[<<t, idx[t]>>] = NULL /\ UNCHANGED <<tableVars, lock>>
    BY <2>1, LostQuiet DEF tableVars
  <2>2. CASE lock[<<t, idx[t]>>] # NULL /\ DropCell(t, idx[t])
    <3>1. idx[t] \in FD
      BY <1>6, PollIndex DEF PollUnlock
    <3> QED
      BY <2>2, <3>1, LostDropCell DEF HeldCells
  <2> QED
    BY <1>6, <2>1, <2>2 DEF PollUnlock
<1> QED
  BY <1>2, <1>3, <1>4, <1>5, <1>6

LEMMA StepLost ==
    ASSUME IInv, HeldInv, [Next]_vars
    PROVE  LostFate
<1>1. CASE UNCHANGED vars
  BY <1>1, LostQuiet DEF vars, tableVars
<1>2. ASSUME NEW t \in Threads, Start(t) PROVE LostFate
  <2>1. CASE (\E f \in FD : Close(t, f)) \/ (\E f, g \in FD : Dup2(t, f, g))
    BY <2>1, LostSection
  <2>2. CASE ~((\E f \in FD : Close(t, f)) \/ (\E f, g \in FD : Dup2(t, f, g)))
    <3>1. UNCHANGED <<sce_uid, type, lost>>
      BY <1>2, <2>2 DEF Start, Open, Socket, Pipe, Dup, Dup2Self, Grab, PollStart, NewHandle,
         duplicate_descriptor, duplicate_descriptor2_same, fd_grab, tableVars
    <3> QED
      BY <3>1, LostQuiet
  <2> QED
    BY <2>1, <2>2
<1>3. ASSUME NEW t \in Threads, Continue(t) PROVE LostFate
  <2>1. CASE DropNested(t) \/ Drop(t) \/ AcceptDrop(t) \/ PollDrop(t) \/ PollUnlock(t)
    BY <2>1, LostCellDropped
  <2>2. CASE StoreUid(t) \/ StoreType(t) \/ RewindStore(t)
    BY <2>2, LostStore
  <2>3. CASE \/ Acquire(t) \/ AcquireFails(t) \/ LoadPtr(t) \/ Fault(t)
             \/ PipeDup(t) \/ PipeDupFails(t) \/ Use(t) \/ UseNested(t) \/ UseNestedFails(t)
             \/ Accept(t) \/ RewindOpen(t) \/ RewindClose(t)
    <3>1. UNCHANGED <<sce_uid, type, lost>>
      BY <2>3 DEF Acquire, acquire_descriptor, AcquireFails, LoadPtr, Fault, PipeDup,
         duplicate_descriptor, PipeDupFails, Use, UseNested, fd_grab, UseNestedFails,
         Accept, RewindOpen, RewindClose, tableVars
    <3> QED
      BY <3>1, LostQuiet
  <2>4. CASE \/ PollSkip(t) \/ PollGrab(t) \/ PollType(t) \/ PollWait(t) \/ PollWake(t)
             \/ PollReturn(t)
    <3>1. UNCHANGED <<sce_uid, type, lost>>
      BY <2>4 DEF PollSkip, PollGrab, fd_grab, PollType, PollWait, PollWake, PollReturn, tableVars
    <3> QED
      BY <3>1, LostQuiet
  <2> QED
    BY <1>3, <2>1, <2>2, <2>3, <2>4 DEF Continue
<1> QED
  BY <1>1, <1>2, <1>3 DEF Next

-----------------------------------------------------------------------------
(* An open handle that is not stranded has a holder that will close it.     *)
LEMMA NotStrandedHeld ==
    ASSUME NEW h \in Kinds \X Uid, IsOpen(h), h \notin Stranded
    PROVE  \/ \E p \in Pool \ lost : Settled(p) /\ EntryHandle(p) = h
           \/ \E t \in Threads : HasLocal(t) /\ LocalHandle(t) = h
BY DEF Stranded, IsOpen

(* The handle of an entry that is counted for good is stranded.             *)
LEMMA LostStranded ==
    ASSUME IInv, HeldInv, NEW p \in lost
    PROVE  EntryHandle(p) \in Stranded
<1>1. p \in Pool /\ ref_count[p] = 1
  BY DEF IInv, TypeOK, TableTypeOK, RefInv, LostOnce
<1>2. ~Unowned(p)
  BY <1>1, SlotNotLost, Indices DEF Unowned
<1>3. ~Rewound(p)
  <2> SUFFICES ASSUME NEW t \in Threads, pc[t] = "rewind_store", Entry(t) = p PROVE FALSE
    BY DEF Rewound
  <2>1. Entry(t) \in Pool /\ 0 \in HeldCells(t)
    BY SingleEntry DEF Single, Rewind
  <2>2. lock[<<t, 0>>] \in Pool \ lost
    BY <2>1, Indices, CellNotLost DEF HeldCells
  <2> QED
    BY <2>2 DEF Entry
<1>4. Settled(p)
  BY <1>1, <1>2, <1>3 DEF Settled
<1>5. EntryHandle(p) \in Kinds \X Uid /\ IsOpen(EntryHandle(p))
  BY <1>1, <1>4, HandleTypes DEF HeldInv, Handles, IInv
<1>6. /\ \A q \in Pool \ lost : Settled(q) => EntryHandle(q) # EntryHandle(p)
      /\ \A t \in Threads : HasLocal(t) => LocalHandle(t) # EntryHandle(p)
  BY <1>1, <1>4 DEF HeldInv, Handles
<1> QED
  BY <1>5, <1>6 DEF Stranded, IsOpen

(* A handle that a step strands is left by a full table, by a failing close *)
(* of rewinddir, or by the refused close of a last reference.               *)
LEMMA StepStrands ==
    ASSUME IInv, HeldInv, Disciplined, ~DirAsFile, [Next]_vars, NEW h \in Stranded', h \notin Stranded
    PROVE  \/ LeftByFull(h) \/ LeftByRewind(h)
           \/ MayFail(h[1]) /\ \E p \in lost' \ lost : EntryHandle(p) = h
<1>1. h \in Kinds \X Uid /\ IsOpen(h)'
  BY DEF Stranded, IsOpen
<1>2. \A p \in Pool : Settled(p)' /\ EntryHandle(p)' = h => p \in lost'
  BY DEF Stranded
<1>3. \A t \in Threads : ~(HasLocal(t)' /\ LocalHandle(t)' = h)
  BY DEF Stranded
<1>4. LostFate /\ HeldInv' /\ HeldBut(Leaky)
  BY StepLost, StepHeld
<1>5. CASE HeldBySomeone(h)'
  <2>1. PICK p \in Pool : Settled(p)' /\ EntryHandle(p)' = h
    BY <1>3, <1>5 DEF HeldBySomeone
  <2>2. p \in lost' /\ EntryHandle(p) = h
    BY <1>2, <1>4, <2>1 DEF LostFate
  <2>3. p \notin lost
    BY <2>2, LostStranded
  <2>4. IsOpen(EntryHandle(p))'
    BY <1>1, <2>1 DEF IsOpen
  <2> QED
    BY <1>4, <2>2, <2>3, <2>4 DEF LostFate, EntryHandle
<1>6. CASE ~HeldBySomeone(h)'
  <2>1. IsOpen(h) => HeldBySomeone(h)
    BY <1>1, NotStrandedHeld DEF HeldBySomeone
  <2>2. h \in Leaky
    BY <1>1, <1>4, <1>6, <2>1 DEF HeldBut
  <2> QED
    BY <2>2 DEF Leaky
<1> QED
  BY <1>5, <1>6

(* An open handle that nobody will ever close was left by a call that found *)
(* the table full, by a close that failed in rewinddir, or by the refused   *)
(* close of the last reference to its entry; of a family whose closes       *)
(* succeed, only by socket or accept in a full table.  Every other error    *)
(* path closes its handle, of every program that keeps to its descriptors.  *)
THEOREM StrandedCorrect == ASSUME DisciplinedApp PROVE Spec => StrandedByEmfileOrClose
<1>1. Inv /\ [Next]_vars => [\A h \in Stranded' : h \notin Stranded =>
          \/ LeftByFull(h) \/ LeftByRewind(h)
          \/ MayFail(h[1]) /\ \E p \in lost' \ lost : EntryHandle(p) = h]_vars
  BY StepStrands DEF Inv, DisciplinedApp
<1>2. Inv /\ [Next]_vars => [\A h \in Stranded' : h \notin Stranded =>
          \/ /\ NoFreeDescriptor /\ (h[1] = "net" \/ MayFail(h[1]))
             /\ \E t \in Threads : pc[t] \in {"acquire", "pipe_dup"} /\ LocalHandle(t) = h
          \/ /\ MayFail(h[1])
             /\ \/ \E t \in Threads : pc[t] = "rewind_close" /\ EntryHandle(Entry(t)) = h
                \/ \E p \in lost' \ lost : EntryHandle(p) = h]_vars
  BY <1>1 DEF LeftByFull, LeftByRewind
<1> QED
  BY <1>2, HeldInvariance, PTL DEF Spec, StrandedByEmfileOrClose

====
