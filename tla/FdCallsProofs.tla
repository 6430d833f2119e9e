--------------------------- MODULE FdCallsProofs ---------------------------
(***************************************************************************)
(* The reference counts of the descriptor table, for every size of the      *)
(* table, every set of threads and every set of calls they make.            *)
(***************************************************************************)
EXTENDS FdCalls, FiniteSetTheorems, TLAPS

(* How many of the cells S of f hold p.                                     *)
Count(f, S, p) == Cardinality({x \in S : f[x] = p})

(* A count over a finite set is a natural number, positive exactly when     *)
(* some cell holds the value.                                               *)
LEMMA CountType ==
    ASSUME NEW S, IsFiniteSet(S), NEW f, NEW p
    PROVE  /\ IsFiniteSet({x \in S : f[x] = p})
           /\ Count(f, S, p) \in Nat
           /\ Count(f, S, p) = 0 <=> {x \in S : f[x] = p} = {}
<1>1. IsFiniteSet({x \in S : f[x] = p})
  BY FS_Subset
<1> QED
  BY <1>1, FS_CardinalityType, FS_EmptySet DEF Count

(* Writing one cell changes the count of a value by what the cell gains     *)
(* or loses of it.                                                          *)
LEMMA CountGain ==
    ASSUME NEW S, IsFiniteSet(S), NEW f, NEW g, NEW a \in S, NEW p,
           \A x \in S : x # a => g[x] = f[x], g[a] = p, f[a] # p
    PROVE  Count(g, S, p) = Count(f, S, p) + 1
<1> DEFINE A == {x \in S : f[x] = p}
           B == {x \in S : g[x] = p}
<1>1. B = A \cup {a} /\ a \notin A
  OBVIOUS
<1>2. IsFiniteSet(A)
  BY FS_Subset
<1> QED
  BY <1>1, <1>2, FS_AddElement DEF Count

LEMMA CountLoss ==
    ASSUME NEW S, IsFiniteSet(S), NEW f, NEW g, NEW a \in S, NEW p,
           \A x \in S : x # a => g[x] = f[x], g[a] # p, f[a] = p
    PROVE  Count(g, S, p) = Count(f, S, p) - 1
<1> DEFINE A == {x \in S : f[x] = p}
           B == {x \in S : g[x] = p}
<1>1. B = A \ {a} /\ a \in A
  OBVIOUS
<1>2. IsFiniteSet(A)
  BY FS_Subset
<1> QED
  BY <1>1, <1>2, FS_RemoveElement DEF Count

LEMMA CountSame ==
    ASSUME NEW S, NEW f, NEW g, NEW a \in S, NEW p,
           \A x \in S : x # a => g[x] = f[x], g[a] = p <=> f[a] = p
    PROVE  Count(g, S, p) = Count(f, S, p)
<1>1. {x \in S : g[x] = p} = {x \in S : f[x] = p}
  OBVIOUS
<1> QED
  BY <1>1 DEF Count

(* Two cells that hold a value count as two.                                *)
LEMMA CountTwo ==
    ASSUME NEW S, IsFiniteSet(S), NEW f, NEW a \in S, NEW b \in S, a # b,
           NEW p, f[a] = p, f[b] = p
    PROVE  Count(f, S, p) > 1
<1> DEFINE A == {x \in S : f[x] = p}
<1>1. IsFiniteSet(A) /\ a \in A /\ A \ {a} # {}
  BY FS_Subset
<1>2. IsFiniteSet(A \ {a}) /\ Cardinality(A \ {a}) = Cardinality(A) - 1
  BY <1>1, FS_RemoveElement
<1>3. Cardinality(A) \in Nat /\ Cardinality(A \ {a}) \in Nat /\ Cardinality(A \ {a}) # 0
  BY <1>1, <1>2, FS_CardinalityType, FS_EmptySet
<1> QED
  BY <1>2, <1>3 DEF Count

-----------------------------------------------------------------------------
(* The inductive invariant.                                                 *)

(* What the locals of a thread hold where its function reads them.          *)
LocalsAt(t) ==
    /\ pc[t] \in Create \ {"acquire"} => fd[t] \in FD
    /\ pc[t] \in {"store_uid", "store_type"} => ptr[t] \in Pool
    /\ pc[t] = "idle" => idx[t] = 0
    /\ pc[t] \in {"scan", "unlock"} => idx[t] <= Len(pfd[t])
    /\ pc[t] \in {"scan_type", "scan_drop"} => idx[t] < Len(pfd[t])

Locals == \A t \in Threads : LocalsAt(t)

(* The one count an entry keeps that no reference accounts for.             *)
LostOnce == \A p \in lost : ref_count[p] = 1

RefInv == RefCountExact /\ LostOnce

IInv == TypeOK /\ Locals /\ CellsExact /\ RefInv

(* RefCountExact in terms of Count.                                         *)
MapCount(p)  == Count(fdmap, FD, p)
LockCount(p) == Count(lock, Cells, p)
LostCount(p) == IF p \in lost THEN 1 ELSE 0

LEMMA Finiteness == IsFiniteSet(FD) /\ IsFiniteSet(Cells)
<1>1. 0 \in Int /\ MAX_OPEN_FILES - 1 \in Int
  BY TableAssumption
<1>2. IsFiniteSet(FD)
  BY <1>1, FS_Interval DEF FD
<1>3. IsFiniteSet(Cells)
  BY <1>2, TableAssumption, FS_Product DEF Cells
<1> QED
  BY <1>2, <1>3

LEMMA RefCountAsCounts ==
    RefCountExact <=>
        \A p \in Pool : ref_count[p] = MapCount(p) + LockCount(p) + LostCount(p)
BY DEF RefCountExact, MapRefs, LockRefs, MapCount, LockCount, LostCount, Count

LEMMA RefCountAsCountsPrime ==
    RefCountExact' <=>
        \A p \in Pool : ref_count'[p] = MapCount(p)' + LockCount(p)' + LostCount(p)'
BY DEF RefCountExact, MapRefs, LockRefs, MapCount, LockCount, LostCount, Count

LEMMA CountsNat ==
    ASSUME NEW p
    PROVE  MapCount(p) \in Nat /\ LockCount(p) \in Nat
BY Finiteness, CountType DEF MapCount, LockCount

(* A slot or a cell that holds p contributes to its count.                  *)
LEMMA CountsPositive ==
    ASSUME NEW p
    PROVE  /\ \A f \in FD : fdmap[f] = p => MapCount(p) > 0
           /\ \A c \in Cells : lock[c] = p => LockCount(p) > 0
<1>1. Count(fdmap, FD, p) \in Nat
      /\ (Count(fdmap, FD, p) = 0 <=> {x \in FD : fdmap[x] = p} = {})
  BY Finiteness, CountType
<1>2. Count(lock, Cells, p) \in Nat
      /\ (Count(lock, Cells, p) = 0 <=> {x \in Cells : lock[x] = p} = {})
  BY Finiteness, CountType
<1> QED
  BY <1>1, <1>2 DEF MapCount, LockCount

(* An entry that is pointed to is counted, and is not a lost one.           *)
LEMMA ReferencedEntry ==
    ASSUME TableTypeOK, RefInv, NEW p \in Pool,
           (\E f \in FD : fdmap[f] = p) \/ (\E c \in Cells : lock[c] = p)
    PROVE  ref_count[p] > 0 /\ p \notin lost
<1>1. MapCount(p) \in Nat /\ LockCount(p) \in Nat /\ MapCount(p) + LockCount(p) > 0
  BY CountsNat, CountsPositive
<1>2. ref_count[p] = MapCount(p) + LockCount(p) + LostCount(p)
  BY RefCountAsCounts DEF RefInv
<1>3. p \in lost => ref_count[p] = 1
  BY DEF RefInv, LostOnce
<1> QED
  BY <1>1, <1>2, <1>3 DEF LostCount

-----------------------------------------------------------------------------
(* The critical sections of the table keep the counts exact.                *)

LEMMA MapStep ==
    ASSUME TableTypeOK, NEW f \in FD, NEW v, fdmap' = [fdmap EXCEPT ![f] = v], NEW p
    PROVE  MapCount(p)' = MapCount(p) + (IF v = p THEN 1 ELSE 0)
                                      - (IF fdmap[f] = p THEN 1 ELSE 0)
<1>1. f \in FD /\ fdmap'[f] = v /\ \A x \in FD : x # f => fdmap'[x] = fdmap[x]
  BY DEF TableTypeOK
<1>2. v = p /\ fdmap[f] # p => Count(fdmap', FD, p) = Count(fdmap, FD, p) + 1
  BY ONLY <1>1, Finiteness, CountGain
<1>3. v # p /\ fdmap[f] = p => Count(fdmap', FD, p) = Count(fdmap, FD, p) - 1
  BY ONLY <1>1, Finiteness, CountLoss
<1>4. (v = p <=> fdmap[f] = p) => Count(fdmap', FD, p) = Count(fdmap, FD, p)
  BY ONLY <1>1, CountSame
<1> QED
  BY <1>2, <1>3, <1>4, CountsNat DEF MapCount

LEMMA LockStep ==
    ASSUME lock \in [Cells -> Pool \cup {NULL}], NEW c \in Cells, NEW v,
           lock' = [lock EXCEPT ![c] = v], NEW p
    PROVE  LockCount(p)' = LockCount(p) + (IF v = p THEN 1 ELSE 0)
                                        - (IF lock[c] = p THEN 1 ELSE 0)
<1>1. c \in Cells /\ lock'[c] = v /\ \A x \in Cells : x # c => lock'[x] = lock[x]
  OBVIOUS
<1>2. v = p /\ lock[c] # p => Count(lock', Cells, p) = Count(lock, Cells, p) + 1
  BY ONLY <1>1, Finiteness, CountGain
<1>3. v # p /\ lock[c] = p => Count(lock', Cells, p) = Count(lock, Cells, p) - 1
  BY ONLY <1>1, Finiteness, CountLoss
<1>4. (v = p <=> lock[c] = p) => Count(lock', Cells, p) = Count(lock, Cells, p)
  BY ONLY <1>1, CountSame
<1> QED
  BY <1>2, <1>3, <1>4, CountsNat DEF LockCount

LEMMA MapSame == ASSUME UNCHANGED fdmap, NEW p PROVE MapCount(p)' = MapCount(p)
BY DEF MapCount

LEMMA LockSame == ASSUME UNCHANGED lock, NEW p PROVE LockCount(p)' = LockCount(p)
BY DEF LockCount

(* __fd_grab: a cell of a call gains a reference.                           *)
LEMMA GrabStep ==
    ASSUME TableTypeOK, lock \in [Cells -> Pool \cup {NULL}], RefInv,
           NEW f, NEW c \in Cells, lock[c] = NULL,
           fd_grab(f), lock' = [lock EXCEPT ![c] = fdmap[f]]
    PROVE  TableTypeOK' /\ RefInv'
<1> DEFINE q == fdmap[f]
<1>1. f \in FD /\ q \in Pool
  BY DEF fd_grab, is_fd_valid, TableTypeOK
<1>2. TableTypeOK'
  BY <1>1 DEF fd_grab, TableTypeOK
<1>3. q \notin lost
  BY <1>1, ReferencedEntry
<1>4. LostOnce'
  BY <1>1, <1>3 DEF fd_grab, RefInv, LostOnce, TableTypeOK
<1>5. ASSUME NEW p \in Pool
      PROVE  ref_count'[p] = MapCount(p)' + LockCount(p)' + LostCount(p)'
  <2>1. MapCount(p)' = MapCount(p) /\ LostCount(p)' = LostCount(p)
    BY MapSame DEF fd_grab, LostCount
  <2>2. LockCount(p)' = LockCount(p) + (IF q = p THEN 1 ELSE 0)
    <3>1. lock[c] # p
      BY TableAssumption
    <3>2. LockCount(p)' = LockCount(p) + (IF q = p THEN 1 ELSE 0)
                                       - (IF lock[c] = p THEN 1 ELSE 0)
      <4>1. q \in Pool \cup {NULL}
        BY <1>1
      <4> QED
        BY <4>1, LockStep, Zenon
    <3> QED
      BY <3>1, <3>2, CountsNat
  <2>3. ref_count[p] = MapCount(p) + LockCount(p) + LostCount(p)
    BY RefCountAsCounts DEF RefInv
  <2>4. ref_count'[p] = ref_count[p] + (IF q = p THEN 1 ELSE 0)
    BY <1>1 DEF fd_grab, TableTypeOK
  <2> QED
    BY <2>1, <2>2, <2>3, <2>4, CountsNat DEF LostCount
<1> QED
  BY <1>2, <1>4, <1>5, RefCountAsCountsPrime DEF RefInv

(* __fd_drop: a cell of a call gives its reference up.  If the close of the *)
(* last one is refused the count stays, and the entry is a lost one.        *)
LEMMA DropStep ==
    ASSUME TableTypeOK, lock \in [Cells -> Pool \cup {NULL}], RefInv,
           NEW c \in Cells, lock[c] # NULL, NEW r,
           fd_drop(lock[c], r), lock' = [lock EXCEPT ![c] = NULL]
    PROVE  TableTypeOK' /\ RefInv'
<1> DEFINE q == lock[c]
<1>1. q \in Pool /\ ref_count[q] \in Nat /\ ref_count[q] > 0 /\ q \notin lost
  BY ReferencedEntry DEF TableTypeOK
<1>2. TableTypeOK'
  <2>1. ref_count' \in [Pool -> Nat] /\ lost' \subseteq Pool
    BY <1>1 DEF fd_drop, RefAfterDrop, LostAfterDrop, TableTypeOK
  <2>2. /\ sce_uid' \in [Pool -> Uid \cup {NoUid}]
        /\ type' \in [Pool -> Types]
        /\ opened' \in [Kinds -> SUBSET Uid]
    BY <1>1 DEF fd_drop, FieldsAfterDrop, TableTypeOK, Types
  <2> QED
    BY <2>1, <2>2 DEF fd_drop, TableTypeOK
<1>3. LostOnce'
  BY <1>1 DEF fd_drop, RefAfterDrop, LostAfterDrop, Refused, RefInv, LostOnce, TableTypeOK
<1>4. ASSUME NEW p \in Pool
      PROVE  ref_count'[p] = MapCount(p)' + LockCount(p)' + LostCount(p)'
  <2>1. MapCount(p)' = MapCount(p)
    BY MapSame DEF fd_drop
  <2>2. LockCount(p)' = LockCount(p) - (IF q = p THEN 1 ELSE 0)
    <3>1. LockCount(p)' = LockCount(p) + (IF NULL = p THEN 1 ELSE 0)
                                       - (IF lock[c] = p THEN 1 ELSE 0)
      BY LockStep
    <3> QED
      BY <3>1, CountsNat, TableAssumption
  <2>3. ref_count[p] = MapCount(p) + LockCount(p) + LostCount(p)
    BY RefCountAsCounts DEF RefInv
  <2>4. ref_count'[p] - LostCount(p)'
          = ref_count[p] - LostCount(p) - (IF q = p THEN 1 ELSE 0)
    BY <1>1 DEF fd_drop, RefAfterDrop, LostAfterDrop, LostCount, TableTypeOK
  <2>5. ref_count[p] \in Nat /\ ref_count'[p] \in Nat
    BY <1>2 DEF TableTypeOK
  <2> QED
    BY <2>1, <2>2, <2>3, <2>4, <2>5, CountsNat DEF LostCount
<1> QED
  BY <1>2, <1>3, <1>4, RefCountAsCountsPrime DEF RefInv

(* __acquire_descriptor: a free slot takes a free entry.                    *)
LEMMA AcquireStep ==
    ASSUME TableTypeOK, RefInv, NEW f \in FD, NEW q \in Pool,
           acquire_descriptor(f, q), UNCHANGED lock
    PROVE  TableTypeOK' /\ RefInv'
<1>1. fdmap[f] = NULL /\ ref_count[q] = 0
  BY DEF acquire_descriptor, FreeFd, FreeEntry
<1>m. fdmap' = [fdmap EXCEPT ![f] = q]
  BY DEF acquire_descriptor
<1>2. TableTypeOK'
  BY <1>1 DEF acquire_descriptor, TableTypeOK
<1>3. LostOnce'
  BY <1>1 DEF acquire_descriptor, RefInv, LostOnce, TableTypeOK
<1>4. ASSUME NEW p \in Pool
      PROVE  ref_count'[p] = MapCount(p)' + LockCount(p)' + LostCount(p)'
  <2>1. LockCount(p)' = LockCount(p) /\ LostCount(p)' = LostCount(p)
    BY LockSame DEF acquire_descriptor, LostCount
  <2>2. MapCount(p)' = MapCount(p) + (IF q = p THEN 1 ELSE 0)
    <3>1. MapCount(p)' = MapCount(p) + (IF q = p THEN 1 ELSE 0)
                                     - (IF fdmap[f] = p THEN 1 ELSE 0)
      BY <1>m, MapStep
    <3> QED
      BY <1>1, <3>1, CountsNat, TableAssumption
  <2>3. ref_count[p] = MapCount(p) + LockCount(p) + LostCount(p)
    BY RefCountAsCounts DEF RefInv
  <2>4. ref_count'[p] = ref_count[p] + (IF q = p THEN 1 ELSE 0)
    BY <1>1 DEF acquire_descriptor, TableTypeOK
  <2> QED
    BY <2>1, <2>2, <2>3, <2>4, CountsNat DEF LostCount
<1> QED
  BY <1>2, <1>3, <1>4, RefCountAsCountsPrime DEF RefInv

(* __duplicate_descriptor, and __duplicate_descriptor2 onto a free slot: a  *)
(* free slot takes the entry of a used one.                                 *)
LEMMA DupStep ==
    ASSUME TableTypeOK, RefInv, NEW f \in FD, NEW g \in FD,
           fdmap[f] # NULL, fdmap[g] = NULL,
           fdmap' = [fdmap EXCEPT ![g] = fdmap[f]],
           ref_count' = [ref_count EXCEPT ![fdmap[f]] = @ + 1],
           UNCHANGED <<sce_uid, type, opened, lost, owner, lock>>
    PROVE  TableTypeOK' /\ RefInv'
<1> DEFINE q == fdmap[f]
<1>1. q \in Pool /\ q \notin lost
  BY ReferencedEntry DEF TableTypeOK
<1>2. TableTypeOK'
  BY <1>1 DEF TableTypeOK
<1>3. LostOnce'
  BY <1>1 DEF RefInv, LostOnce, TableTypeOK
<1>4. ASSUME NEW p \in Pool
      PROVE  ref_count'[p] = MapCount(p)' + LockCount(p)' + LostCount(p)'
  <2>1. LockCount(p)' = LockCount(p) /\ LostCount(p)' = LostCount(p)
    BY LockSame DEF LostCount
  <2>2. MapCount(p)' = MapCount(p) + (IF q = p THEN 1 ELSE 0)
    <3>1. MapCount(p)' = MapCount(p) + (IF q = p THEN 1 ELSE 0)
                                     - (IF fdmap[g] = p THEN 1 ELSE 0)
      BY MapStep
    <3> QED
      BY <3>1, CountsNat, TableAssumption
  <2>3. ref_count[p] = MapCount(p) + LockCount(p) + LostCount(p)
    BY RefCountAsCounts DEF RefInv
  <2>4. ref_count'[p] = ref_count[p] + (IF q = p THEN 1 ELSE 0)
    BY <1>1 DEF TableTypeOK
  <2> QED
    BY <2>1, <2>2, <2>3, <2>4, CountsNat DEF LostCount
<1> QED
  BY <1>2, <1>3, <1>4, RefCountAsCountsPrime DEF RefInv

(* __release_descriptor: a slot gives its reference up, or keeps it when    *)
(* the result of the drop is negative.                                      *)
LEMMA ReleaseStep ==
    ASSUME TableTypeOK, RefInv, NEW f \in FD, NEW r,
           release_descriptor(f, r), UNCHANGED lock
    PROVE  TableTypeOK' /\ RefInv'
<1> DEFINE q == fdmap[f]
           ok == fd_drop_result(q, r) >= 0
<1>1. q \in Pool
  BY DEF release_descriptor, is_fd_valid, TableTypeOK
<1>2. ref_count[q] \in Nat /\ ref_count[q] > 0 /\ q \notin lost
  BY <1>1, ReferencedEntry DEF TableTypeOK
<1>3. /\ ref_count' = RefAfterDrop(q, r)
      /\ FieldsAfterDrop(q, r)
      /\ ok => fdmap' = [fdmap EXCEPT ![f] = NULL] /\ lost' = LostAfterDrop(q, r)
      /\ ~ok => UNCHANGED <<fdmap, lost>>
      /\ UNCHANGED owner
  BY DEF release_descriptor
<1>4. ~ok => Refused(q, r)
  BY DEF fd_drop_result
<1> HIDE DEF ok
<1>5. TableTypeOK'
  <2>1. ref_count' \in [Pool -> Nat]
    BY <1>1, <1>2, <1>3 DEF RefAfterDrop, TableTypeOK
  <2>2. lost' \subseteq Pool /\ fdmap' \in [FD -> Pool \cup {NULL}]
    BY <1>1, <1>3 DEF LostAfterDrop, TableTypeOK
  <2>3. /\ sce_uid' \in [Pool -> Uid \cup {NoUid}]
        /\ type' \in [Pool -> Types]
        /\ opened' \in [Kinds -> SUBSET Uid]
    BY <1>1, <1>3 DEF FieldsAfterDrop, TableTypeOK, Types
  <2> QED
    BY <1>3, <2>1, <2>2, <2>3 DEF TableTypeOK
<1>6. LostOnce'
  BY <1>1, <1>2, <1>3 DEF RefAfterDrop, LostAfterDrop, Refused, RefInv, LostOnce, TableTypeOK
<1>7. ASSUME NEW p \in Pool
      PROVE  ref_count'[p] = MapCount(p)' + LockCount(p)' + LostCount(p)'
  <2>1. LockCount(p)' = LockCount(p)
    BY LockSame
  <2>2. ref_count[p] = MapCount(p) + LockCount(p) + LostCount(p)
    BY RefCountAsCounts DEF RefInv
  <2>3. ref_count[p] \in Nat /\ ref_count'[p] \in Nat
    BY <1>5 DEF TableTypeOK
  <2>4. CASE ok
    <3>1. fdmap' = [fdmap EXCEPT ![f] = NULL]
      BY <1>3, <2>4
    <3>2. MapCount(p)' = MapCount(p) + (IF NULL = p THEN 1 ELSE 0)
                                     - (IF q = p THEN 1 ELSE 0)
      BY <3>1, MapStep
    <3>3. ref_count'[p] - LostCount(p)'
            = ref_count[p] - LostCount(p) - (IF q = p THEN 1 ELSE 0)
      BY <1>1, <1>2, <1>3, <2>4 DEF RefAfterDrop, LostAfterDrop, LostCount, TableTypeOK
    <3> QED
      BY <2>1, <2>2, <2>3, <3>2, <3>3, CountsNat, TableAssumption DEF LostCount
  <2>5. CASE ~ok
    <3>1. MapCount(p)' = MapCount(p) /\ LostCount(p)' = LostCount(p)
      BY <1>3, <2>5, MapSame DEF LostCount
    <3>2. ref_count'[p] = ref_count[p]
      BY <1>3, <1>4, <2>5 DEF RefAfterDrop
    <3> QED
      BY <2>1, <2>2, <3>1, <3>2
  <2> QED
    BY <2>4, <2>5
<1> QED
  BY <1>5, <1>6, <1>7, RefCountAsCountsPrime DEF RefInv

(* __duplicate_descriptor2 onto a used slot: the slot exchanges its entry   *)
(* for that of the other descriptor.  If both name one entry it has two     *)
(* references, so the release is not the last one.                          *)
LEMMA Dup2OverStep ==
    ASSUME TableTypeOK, RefInv, NEW f \in FD, NEW g \in FD, NEW r,
           duplicate_descriptor2_over(f, g, r), UNCHANGED lock
    PROVE  TableTypeOK' /\ RefInv'
<1> DEFINE q == fdmap[g]
           s == fdmap[f]
<1>1. q \in Pool /\ s \in Pool /\ f # g
  BY DEF duplicate_descriptor2_over, is_fd_valid, TableTypeOK
<1>2. /\ ref_count[q] \in Nat /\ ref_count[q] > 0 /\ q \notin lost
      /\ ref_count[s] \in Nat /\ ref_count[s] > 0 /\ s \notin lost
  BY <1>1, ReferencedEntry DEF TableTypeOK
<1>3. q = s => ref_count[q] > 1
  <2>1. q = s => MapCount(q) > 1
    BY <1>1, Finiteness, CountTwo DEF MapCount
  <2>2. ref_count[q] = MapCount(q) + LockCount(q) + LostCount(q)
    BY <1>1, RefCountAsCounts DEF RefInv
  <2> QED
    BY <2>1, <2>2, CountsNat DEF LostCount
<1>4. /\ ref_count' = [RefAfterDrop(q, r) EXCEPT ![s] = @ + 1]
      /\ FieldsAfterDrop(q, r)
      /\ fdmap' = [fdmap EXCEPT ![g] = s]
      /\ lost' = LostAfterDrop(q, r)
      /\ UNCHANGED owner
  BY DEF duplicate_descriptor2_over
<1>5. TableTypeOK'
  <2>1. ref_count' \in [Pool -> Nat]
    BY <1>1, <1>2, <1>4 DEF RefAfterDrop, TableTypeOK
  <2>2. lost' \subseteq Pool /\ fdmap' \in [FD -> Pool \cup {NULL}]
    BY <1>1, <1>4 DEF LostAfterDrop, TableTypeOK
  <2>3. /\ sce_uid' \in [Pool -> Uid \cup {NoUid}]
        /\ type' \in [Pool -> Types]
        /\ opened' \in [Kinds -> SUBSET Uid]
    BY <1>1, <1>4 DEF FieldsAfterDrop, TableTypeOK, Types
  <2> QED
    BY <1>4, <2>1, <2>2, <2>3 DEF TableTypeOK
<1>6. LostOnce'
  BY <1>1, <1>2, <1>3, <1>4
     DEF RefAfterDrop, LostAfterDrop, Refused, RefInv, LostOnce, TableTypeOK
<1>7. ASSUME NEW p \in Pool
      PROVE  ref_count'[p] = MapCount(p)' + LockCount(p)' + LostCount(p)'
  <2>1. LockCount(p)' = LockCount(p)
    BY LockSame
  <2>2. ref_count[p] = MapCount(p) + LockCount(p) + LostCount(p)
    BY RefCountAsCounts DEF RefInv
  <2>3. ref_count[p] \in Nat /\ ref_count'[p] \in Nat
    BY <1>5 DEF TableTypeOK
  <2>4. MapCount(p)' = MapCount(p) + (IF s = p THEN 1 ELSE 0)
                                   - (IF q = p THEN 1 ELSE 0)
    BY <1>4, MapStep
  <2>5. ref_count'[p] - LostCount(p)'
          = ref_count[p] - LostCount(p) + (IF s = p THEN 1 ELSE 0)
                                        - (IF q = p THEN 1 ELSE 0)
    BY <1>1, <1>2, <1>4 DEF RefAfterDrop, LostAfterDrop, LostCount, TableTypeOK
  <2> QED
    BY <2>1, <2>2, <2>3, <2>4, <2>5, CountsNat DEF LostCount
<1> QED
  BY <1>5, <1>6, <1>7, RefCountAsCountsPrime DEF RefInv

-----------------------------------------------------------------------------
(* Every step is a step of one thread.  The facts the steps have in common. *)

(* The locals and the cells of the other threads are left alone.            *)
Frame(t) ==
    \A u \in Threads \ {t} :
        /\ pc'[u] = pc[u] /\ fd'[u] = fd[u] /\ ptr'[u] = ptr[u]
        /\ idx'[u] = idx[u] /\ pfd'[u] = pfd[u]
        /\ \A i \in FD : lock'[<<u, i>>] = lock[<<u, i>>]

LEMMA StepFrame ==
    ASSUME IInv, NEW t \in Threads, Frame(t),
           TypeOK', LocalsAt(t)', CellsAt(t)', RefInv'
    PROVE  IInv'
<1>1. ASSUME NEW u \in Threads, u # t PROVE LocalsAt(u)' /\ CellsAt(u)'
  <2>1. LocalsAt(u) /\ CellsAt(u)
    BY DEF IInv, Locals, CellsExact
  <2>2. HeldCells(u)' = HeldCells(u)
    BY <1>1 DEF Frame, HeldCells
  <2>3. pc'[u] = pc[u] /\ fd'[u] = fd[u] /\ ptr'[u] = ptr[u] /\ idx'[u] = idx[u] /\ pfd'[u] = pfd[u]
    BY <1>1 DEF Frame
  <2>4. LocalsAt(u)'
    BY <2>1, <2>3 DEF LocalsAt
  <2>5. CellsAt(u)'
    BY <2>1, <2>2, <2>3 DEF CellsAt
  <2> QED
    BY <2>4, <2>5
<1> QED
  BY <1>1 DEF IInv, Locals, CellsExact

(* Steps that neither gain nor lose a reference.                            *)
LEMMA RefInvSame ==
    ASSUME RefInv, UNCHANGED <<fdmap, ref_count, lost, lock>>
    PROVE  RefInv'
BY DEF RefInv, RefCountExact, MapRefs, LockRefs, LostOnce

(* The indices the code uses are in the table, and NULL is no entry.        *)
LEMMA Indices ==
    /\ 0 \in FD /\ 1 \in FD /\ FD \subseteq Int
    /\ NULL \notin Pool
    /\ Pool = FD
BY TableAssumption DEF FD, Pool

LEMMA CellOf ==
    ASSUME NEW t \in Threads, NEW i \in FD
    PROVE  <<t, i>> \in Cells
BY DEF Cells

(* A thread that is back in the application has clean locals.               *)
LEMMA ReturnStep ==
    ASSUME LocalTypeOK, NEW t \in Threads, Return(t)
    PROVE  /\ LocalTypeOK'
           /\ LocalsAt(t)'
           /\ pc'[t] = "idle"
<1>1. LocalTypeOK'
  BY TableAssumption DEF LocalTypeOK, Return, Goto, PCs, Types
<1>2. pc'[t] = "idle" /\ idx'[t] = 0
  BY DEF LocalTypeOK, Return, Goto
<1> QED
  BY <1>1, <1>2 DEF LocalsAt, Create

(* A step that gains and loses no reference, where the thread's references  *)
(* are those it should have in its new place.                               *)
LEMMA QuietStep ==
    ASSUME IInv, NEW t \in Threads, UNCHANGED <<fdmap, ref_count, lost, lock>>,
           Frame(t), TypeOK', LocalsAt(t)',
           HeldCells(t)' = HeldCells(t) => CellsAt(t)'
    PROVE  IInv'
<1>1. HeldCells(t)' = HeldCells(t)
  BY DEF HeldCells
<1>2. RefInv'
  BY RefInvSame DEF IInv
<1> QED
  BY <1>1, <1>2, StepFrame

(* A handle a backend hands out is a Uid, in its set and in the local.      *)
LEMMA NewHandleType ==
    ASSUME TypeOK, NEW t \in Threads, NEW k, NEW u, NewHandle(t, k, u)
    PROVE  opened' \in [Kinds -> SUBSET Uid] /\ uid' \in [Threads -> Uid \cup {NoUid}]
BY DEF NewHandle, TypeOK, TableTypeOK, LocalTypeOK

LEMMA OpenInv ==
    ASSUME IInv, NEW t \in Threads, NEW c, NEW isDir \in BOOLEAN, Open(t, c, isDir)
    PROVE  IInv'
<1> USE DEF Open
<1>1. TypeOK'
  BY NewHandleType DEF Goto, IInv, TypeOK, LocalTypeOK, TableTypeOK, Types, PCs, Create, OpenType, OpenCalls
<1>2. Frame(t)
  BY DEF NewHandle, Goto, Frame, IInv, TypeOK, LocalTypeOK
<1>3. pc[t] = "idle" /\ pc'[t] = "acquire"
  BY DEF Goto, IInv, TypeOK, LocalTypeOK
<1>4. LocalsAt(t)'
  BY <1>3 DEF LocalsAt, Create
<1>5. HeldCells(t)' = HeldCells(t) => CellsAt(t)'
  BY <1>3 DEF IInv, CellsExact, CellsAt, Create, Rewind
<1> QED
  BY <1>1, <1>2, <1>4, <1>5, QuietStep

LEMMA SocketInv ==
    ASSUME IInv, NEW t \in Threads, Socket(t)
    PROVE  IInv'
<1> USE DEF Socket
<1>1. TypeOK'
  BY NewHandleType DEF Goto, IInv, TypeOK, LocalTypeOK, TableTypeOK, Types, PCs, Create
<1>2. Frame(t)
  BY DEF NewHandle, Goto, Frame, IInv, TypeOK, LocalTypeOK
<1>3. pc[t] = "idle" /\ pc'[t] = "acquire"
  BY DEF Goto, IInv, TypeOK, LocalTypeOK
<1>4. LocalsAt(t)'
  BY <1>3 DEF LocalsAt, Create
<1>5. HeldCells(t)' = HeldCells(t) => CellsAt(t)'
  BY <1>3 DEF IInv, CellsExact, CellsAt, Create, Rewind
<1> QED
  BY <1>1, <1>2, <1>4, <1>5, QuietStep

LEMMA PipeInv ==
    ASSUME IInv, NEW t \in Threads, Pipe(t)
    PROVE  IInv'
<1> USE DEF Pipe
<1>1. TypeOK'
  BY NewHandleType DEF Goto, IInv, TypeOK, LocalTypeOK, TableTypeOK, Types, PCs, Create
<1>2. Frame(t)
  BY DEF NewHandle, Goto, Frame, IInv, TypeOK, LocalTypeOK
<1>3. pc[t] = "idle" /\ pc'[t] = "acquire"
  BY DEF Goto, IInv, TypeOK, LocalTypeOK
<1>4. LocalsAt(t)'
  BY <1>3 DEF LocalsAt, Create
<1>5. HeldCells(t)' = HeldCells(t) => CellsAt(t)'
  BY <1>3 DEF IInv, CellsExact, CellsAt, Create, Rewind
<1> QED
  BY <1>1, <1>2, <1>4, <1>5, QuietStep

LEMMA AcquireInv ==
    ASSUME IInv, NEW t \in Threads, Acquire(t)
    PROVE  IInv'
<1> PICK f \in FD, p \in Pool : acquire_descriptor(f, p) /\ fd' = [fd EXCEPT ![t] = f]
  BY DEF Acquire
<1>1. TableTypeOK' /\ RefInv'
  BY AcquireStep DEF Acquire, IInv, TypeOK
<1>2. TypeOK'
  BY <1>1 DEF Acquire, Goto, IInv, TypeOK, LocalTypeOK, PCs, Create
<1>3. Frame(t)
  BY DEF Acquire, Goto, Frame, IInv, TypeOK, LocalTypeOK
<1>4. pc[t] = "acquire" /\ pc'[t] = "load_uid" /\ fd'[t] = f /\ HeldCells(t)' = HeldCells(t)
  BY DEF Acquire, Goto, IInv, TypeOK, LocalTypeOK, HeldCells
<1>5. LocalsAt(t)'
  BY <1>4 DEF LocalsAt, Create
<1>6. CellsAt(t)'
  BY <1>4 DEF IInv, CellsExact, CellsAt, Create, Rewind
<1> QED
  BY <1>1, <1>2, <1>3, <1>5, <1>6, StepFrame

LEMMA CloseHandleType ==
    ASSUME TypeOK, NEW k, NEW u, CloseHandle(k, u)
    PROVE  opened' \in [Kinds -> SUBSET Uid]
BY DEF CloseHandle, TypeOK, TableTypeOK

(* A thread that holds no reference may return.                             *)
LEMMA IdleCells ==
    ASSUME NEW t \in Threads, HeldCells(t)' = {}, pc'[t] = "idle"
    PROVE  CellsAt(t)'
BY DEF CellsAt, Create, Rewind

LEMMA AcquireFailsInv ==
    ASSUME IInv, NEW t \in Threads, AcquireFails(t)
    PROVE  IInv'
<1>1. LocalTypeOK' /\ LocalsAt(t)' /\ pc'[t] = "idle"
  BY ReturnStep DEF AcquireFails, IInv, TypeOK
<1>2. opened' \in [Kinds -> SUBSET Uid]
  BY CloseHandleType DEF AcquireFails, CleanupEmfile, IInv, TypeOK, TableTypeOK
<1>3. TypeOK'
  BY <1>1, <1>2 DEF AcquireFails, IInv, TypeOK, TableTypeOK
<1>4. Frame(t)
  BY DEF AcquireFails, Return, Goto, Frame, IInv, TypeOK, LocalTypeOK
<1>5. HeldCells(t) = {}
  BY DEF AcquireFails, IInv, CellsExact, CellsAt, Create
<1>6. HeldCells(t)' = HeldCells(t) => CellsAt(t)'
  BY <1>1, <1>5, IdleCells
<1> QED
  BY <1>1, <1>3, <1>4, <1>6, QuietStep DEF AcquireFails

LEMMA LoadPtrInv ==
    ASSUME IInv, NEW t \in Threads, LoadPtr(t)
    PROVE  IInv'
<1> USE DEF LoadPtr, Goto
<1>1. fd[t] \in FD /\ fdmap[fd[t]] \in Pool
  BY DEF IInv, Locals, LocalsAt, Create, TypeOK, TableTypeOK
<1>2. TypeOK'
  BY <1>1 DEF IInv, TypeOK, TableTypeOK, tableVars, LocalTypeOK, PCs, Create
<1>3. Frame(t)
  BY DEF Frame, IInv, TypeOK, LocalTypeOK
<1>4. pc'[t] \in {"store_uid", "store_type"} /\ ptr'[t] \in Pool /\ fd'[t] \in FD
  BY <1>1 DEF IInv, TypeOK, LocalTypeOK
<1>5. LocalsAt(t)'
  BY <1>4 DEF LocalsAt
<1>6. HeldCells(t)' = HeldCells(t) => CellsAt(t)'
  BY <1>4 DEF IInv, CellsExact, CellsAt, Create, Rewind
<1> QED
  BY <1>2, <1>3, <1>5, <1>6, QuietStep DEF tableVars

LEMMA FaultInv ==
    ASSUME IInv, NEW t \in Threads, Fault(t)
    PROVE  IInv'
<1> USE DEF Fault, Goto
<1>1. TypeOK'
  BY DEF IInv, TypeOK, TableTypeOK, tableVars, LocalTypeOK, PCs
<1>2. Frame(t)
  BY DEF Frame, IInv, TypeOK, LocalTypeOK
<1>3. pc'[t] = "fault"
  BY DEF IInv, TypeOK, LocalTypeOK
<1>4. LocalsAt(t)'
  BY <1>3 DEF LocalsAt, Create
<1>5. HeldCells(t)' = HeldCells(t) => CellsAt(t)'
  BY <1>3 DEF IInv, CellsExact, CellsAt, Create, Rewind
<1> QED
  BY <1>1, <1>2, <1>4, <1>5, QuietStep DEF tableVars

LEMMA StoreUidInv ==
    ASSUME IInv, NEW t \in Threads, StoreUid(t)
    PROVE  IInv'
<1> USE DEF StoreUid, Goto
<1>1. fd[t] \in FD /\ ptr[t] \in Pool
  BY DEF IInv, Locals, LocalsAt, Create
<1>2. TypeOK'
  BY <1>1 DEF IInv, TypeOK, TableTypeOK, LocalTypeOK, PCs, Create
<1>3. Frame(t)
  BY DEF Frame, IInv, TypeOK, LocalTypeOK
<1>4. pc'[t] \in {"load_type", "store_type"} /\ ptr'[t] \in Pool /\ fd'[t] \in FD
  BY <1>1 DEF IInv, TypeOK, LocalTypeOK
<1>5. LocalsAt(t)'
  BY <1>4 DEF LocalsAt
<1>6. HeldCells(t)' = HeldCells(t) => CellsAt(t)'
  BY <1>4 DEF IInv, CellsExact, CellsAt, Create, Rewind
<1> QED
  BY <1>2, <1>3, <1>5, <1>6, QuietStep

LEMMA StoreTypeInv ==
    ASSUME IInv, NEW t \in Threads, StoreType(t)
    PROVE  IInv'
<1> USE DEF StoreType, Goto
<1>1. fd[t] \in FD /\ ptr[t] \in Pool
  BY DEF IInv, Locals, LocalsAt, Create
<1>2. TableTypeOK' /\ owned' \subseteq FD /\ UNCHANGED lock
  BY <1>1 DEF IInv, TypeOK, TableTypeOK, LocalTypeOK, Owns
<1>3. HeldCells(t) = {}
  BY DEF IInv, CellsExact, CellsAt, Create
<1>4. CASE call[t] = "pipe"
  <2>1. TypeOK'
    BY <1>2, <1>4 DEF IInv, TypeOK, LocalTypeOK, PCs, Create
  <2>2. Frame(t)
    BY <1>4 DEF Frame, IInv, TypeOK, LocalTypeOK
  <2>3. pc'[t] = "pipe_dup" /\ fd'[t] \in FD
    BY <1>1, <1>4 DEF IInv, TypeOK, LocalTypeOK
  <2>4. LocalsAt(t)'
    BY <2>3 DEF LocalsAt
  <2>5. HeldCells(t)' = HeldCells(t) => CellsAt(t)'
    BY <1>3, <2>3 DEF CellsAt, Rewind
  <2> QED
    BY <2>1, <2>2, <2>4, <2>5, QuietStep
<1>5. CASE call[t] # "pipe"
  <2>1. LocalTypeOK' /\ LocalsAt(t)' /\ pc'[t] = "idle"
    BY <1>5, ReturnStep DEF IInv, TypeOK
  <2>2. TypeOK'
    BY <1>2, <2>1 DEF IInv, TypeOK
  <2>3. Frame(t)
    BY <1>5 DEF Return, Frame, IInv, TypeOK, LocalTypeOK
  <2>4. HeldCells(t)' = HeldCells(t) => CellsAt(t)'
    BY <1>3, <2>1, IdleCells
  <2> QED
    BY <2>1, <2>2, <2>3, <2>4, QuietStep
<1> QED
  BY <1>4, <1>5

LEMMA PipeDupInv ==
    ASSUME IInv, NEW t \in Threads, PipeDup(t)
    PROVE  IInv'
<1> PICK f \in FD : duplicate_descriptor(fd[t], 0, f) /\ Owns(owned \cup {fd[t], f})
  BY DEF PipeDup
<1>1. fd[t] \in FD /\ fdmap[fd[t]] # NULL /\ fdmap[f] = NULL
  BY DEF duplicate_descriptor, is_fd_valid, FreeFd
<1>2. TableTypeOK' /\ RefInv'
  BY <1>1, DupStep DEF duplicate_descriptor, PipeDup, IInv, TypeOK
<1>3. LocalTypeOK' /\ LocalsAt(t)' /\ pc'[t] = "idle"
  BY ReturnStep DEF PipeDup, IInv, TypeOK
<1>4. TypeOK'
  BY <1>1, <1>2, <1>3 DEF PipeDup, Owns, IInv, TypeOK
<1>5. Frame(t)
  BY DEF PipeDup, Return, Goto, Frame, IInv, TypeOK, LocalTypeOK
<1>6. HeldCells(t)' = {}
  BY DEF PipeDup, HeldCells, IInv, CellsExact, CellsAt, Create
<1>7. CellsAt(t)'
  BY <1>3, <1>6, IdleCells
<1> QED
  BY <1>2, <1>3, <1>4, <1>5, <1>7, StepFrame

LEMMA PipeDupFailsInv ==
    ASSUME IInv, NEW t \in Threads, PipeDupFails(t)
    PROVE  IInv'
<1>1. LocalTypeOK' /\ LocalsAt(t)' /\ pc'[t] = "idle"
  BY ReturnStep DEF PipeDupFails, IInv, TypeOK
<1>2. opened' \in [Kinds -> SUBSET Uid]
  BY CloseHandleType DEF PipeDupFails, IInv
<1>3. TypeOK'
  BY <1>1, <1>2 DEF PipeDupFails, IInv, TypeOK, TableTypeOK
<1>4. Frame(t)
  BY DEF PipeDupFails, Return, Goto, Frame, IInv, TypeOK, LocalTypeOK
<1>5. HeldCells(t) = {}
  BY DEF PipeDupFails, IInv, CellsExact, CellsAt, Create
<1>6. HeldCells(t)' = HeldCells(t) => CellsAt(t)'
  BY <1>1, <1>5, IdleCells
<1> QED
  BY <1>1, <1>3, <1>4, <1>6, QuietStep DEF PipeDupFails

(* A call that is one critical section leaves every thread where it was.    *)
LEMMA SectionStep ==
    ASSUME IInv, UNCHANGED <<localVars, lock>>, TableTypeOK', RefInv', owned' \subseteq FD
    PROVE  IInv'
<1>1. TypeOK'
  BY DEF IInv, TypeOK, LocalTypeOK, localVars
<1>2. Locals'
  BY DEF IInv, Locals, LocalsAt, localVars
<1>3. CellsExact'
  <2> SUFFICES ASSUME NEW t \in Threads PROVE CellsAt(t)'
    BY DEF CellsExact
  <2>1. CellsAt(t)
    BY DEF IInv, CellsExact
  <2>2. HeldCells(t)' = HeldCells(t)
    BY DEF HeldCells
  <2> QED
    BY <2>1, <2>2 DEF CellsAt, localVars
<1> QED
  BY <1>1, <1>2, <1>3 DEF IInv

LEMMA CloseInv ==
    ASSUME IInv, NEW t \in Threads, NEW f \in FD, Close(t, f)
    PROVE  IInv'
<1> PICK r \in CloseResults : release_descriptor(f, r)
  BY DEF Close
<1>1. TableTypeOK' /\ RefInv'
  BY ReleaseStep DEF Close, IInv, TypeOK
<1>2. owned' \subseteq FD
  BY DEF Close, Owns, IInv, TypeOK
<1> QED
  BY <1>1, <1>2, SectionStep DEF Close

LEMMA DupInv ==
    ASSUME IInv, NEW t \in Threads, NEW f \in FD, NEW m \in FD, Dup(t, f, m)
    PROVE  IInv'
<1> PICK g \in FD : duplicate_descriptor(f, m, g) /\ Owns(owned \cup {g})
  BY DEF Dup
<1>1. fdmap[f] # NULL /\ fdmap[g] = NULL
  BY DEF duplicate_descriptor, is_fd_valid, FreeFd
<1>2. TableTypeOK' /\ RefInv'
  BY <1>1, DupStep DEF duplicate_descriptor, Dup, IInv, TypeOK
<1>3. owned' \subseteq FD
  BY DEF Owns, IInv, TypeOK
<1> QED
  BY <1>2, <1>3, SectionStep DEF Dup

LEMMA Dup2Inv ==
    ASSUME IInv, NEW t \in Threads, NEW f \in FD, NEW g \in FD, Dup2(t, f, g)
    PROVE  IInv'
<1>1. CASE duplicate_descriptor2_free(f, g)
  BY <1>1, DupStep, SectionStep
     DEF duplicate_descriptor2_free, is_fd_valid, Dup2, Owns, IInv, TypeOK
<1>2. ASSUME NEW r, duplicate_descriptor2_over(f, g, r) PROVE IInv'
  BY <1>2, Dup2OverStep, SectionStep DEF Dup2, Owns, IInv, TypeOK
<1> QED
  BY <1>1, <1>2 DEF Dup2

LEMMA Dup2SelfInv ==
    ASSUME IInv, NEW t \in Threads, NEW f \in FD, Dup2Self(t, f)
    PROVE  IInv'
<1>1. UNCHANGED <<localVars, fdmap, ref_count, lost, lock, owned>>
  BY DEF Dup2Self, duplicate_descriptor2_same
<1>2. TableTypeOK'
  BY DEF Dup2Self, duplicate_descriptor2_same, IInv, TypeOK, TableTypeOK
<1>3. RefInv'
  BY <1>1, RefInvSame DEF IInv
<1> QED
  BY <1>1, <1>2, <1>3, SectionStep DEF IInv, TypeOK

-----------------------------------------------------------------------------
(* Writing a cell of a thread, seen from that thread and from the others.   *)
LEMMA CellWrite ==
    ASSUME lock \in [Cells -> Pool \cup {NULL}], NEW t \in Threads, NEW i \in FD, NEW v,
           lock' = [lock EXCEPT ![<<t, i>>] = v]
    PROVE  /\ v # NULL => HeldCells(t)' = HeldCells(t) \cup {i}
           /\ v = NULL => HeldCells(t)' = HeldCells(t) \ {i}
           /\ \A u \in Threads \ {t}, j \in FD : lock'[<<u, j>>] = lock[<<u, j>>]
<1>1. \A u \in Threads, j \in FD :
         lock'[<<u, j>>] = IF u = t /\ j = i THEN v ELSE lock[<<u, j>>]
  BY CellOf
<1> QED
  BY ONLY <1>1, t \in Threads, i \in FD DEF HeldCells

(* A drop from a cell the thread holds.                                     *)
LEMMA DropCellStep ==
    ASSUME IInv, NEW t \in Threads, NEW i \in HeldCells(t), DropCell(t, i)
    PROVE  /\ TableTypeOK' /\ RefInv'
           /\ lock' \in [Cells -> Pool \cup {NULL}]
           /\ HeldCells(t)' = HeldCells(t) \ {i}
           /\ \A u \in Threads \ {t}, j \in FD : lock'[<<u, j>>] = lock[<<u, j>>]
<1>1. i \in FD /\ <<t, i>> \in Cells /\ lock[<<t, i>>] # NULL
  BY CellOf DEF HeldCells
<1> PICK r : fd_drop(lock[<<t, i>>], r)
  BY DEF DropCell
<1>2. lock' = [lock EXCEPT ![<<t, i>>] = NULL]
  BY DEF DropCell
<1>3. TableTypeOK' /\ RefInv'
  BY <1>1, <1>2, DropStep DEF IInv, TypeOK
<1>4. lock' \in [Cells -> Pool \cup {NULL}]
  BY <1>2 DEF IInv, TypeOK
<1>5. HeldCells(t)' = HeldCells(t) \ {i}
      /\ \A u \in Threads \ {t}, j \in FD : lock'[<<u, j>>] = lock[<<u, j>>]
  BY <1>1, <1>2, CellWrite DEF IInv, TypeOK
<1> QED
  BY <1>3, <1>4, <1>5

(* A grab into a cell the thread does not use.                              *)
LEMMA GrabCellStep ==
    ASSUME IInv, NEW t \in Threads, NEW i \in FD \ HeldCells(t), NEW f,
           fd_grab(f), lock' = [lock EXCEPT ![<<t, i>>] = fdmap[f]]
    PROVE  /\ TableTypeOK' /\ RefInv'
           /\ lock' \in [Cells -> Pool \cup {NULL}]
           /\ HeldCells(t)' = HeldCells(t) \cup {i}
           /\ \A u \in Threads \ {t}, j \in FD : lock'[<<u, j>>] = lock[<<u, j>>]
<1>1. i \in FD /\ <<t, i>> \in Cells /\ lock[<<t, i>>] = NULL
  BY CellOf DEF HeldCells
<1>2. fdmap[f] \in Pool /\ fdmap[f] # NULL
  BY DEF fd_grab, is_fd_valid, IInv, TypeOK, TableTypeOK
<1>3. TableTypeOK' /\ RefInv'
  BY <1>1, GrabStep DEF IInv, TypeOK
<1>4. lock' \in [Cells -> Pool \cup {NULL}]
  BY <1>2 DEF IInv, TypeOK
<1>5. HeldCells(t)' = HeldCells(t) \cup {i}
      /\ \A u \in Threads \ {t}, j \in FD : lock'[<<u, j>>] = lock[<<u, j>>]
  BY <1>1, <1>2, CellWrite DEF IInv, TypeOK
<1> QED
  BY <1>3, <1>4, <1>5

LEMMA GrabInv ==
    ASSUME IInv, NEW t \in Threads, NEW c \in UseCalls, NEW f \in FD, Grab(t, c, f)
    PROVE  IInv'
<1>1. pc[t] = "idle" /\ HeldCells(t) = {} /\ 0 \in FD \ HeldCells(t)
  BY Indices DEF Grab, IInv, CellsExact, CellsAt
<1>2. /\ TableTypeOK' /\ RefInv' /\ lock' \in [Cells -> Pool \cup {NULL}]
      /\ HeldCells(t)' = {0}
      /\ \A u \in Threads \ {t}, j \in FD : lock'[<<u, j>>] = lock[<<u, j>>]
  BY <1>1, GrabCellStep DEF Grab
<1>3. TypeOK'
  BY <1>2 DEF Grab, Goto, IInv, TypeOK, LocalTypeOK, PCs
<1>4. Frame(t)
  BY <1>2 DEF Grab, Goto, Frame, IInv, TypeOK, LocalTypeOK
<1>5. pc'[t] = "use"
  BY DEF Grab, Goto, IInv, TypeOK, LocalTypeOK
<1>6. LocalsAt(t)' /\ CellsAt(t)'
  BY <1>2, <1>5 DEF LocalsAt, CellsAt, Create
<1> QED
  BY <1>2, <1>3, <1>4, <1>6, StepFrame

(* The steps of a call that keep its one reference and touch no other.      *)
LEMMA KeepStep ==
    ASSUME IInv, NEW t \in Threads, UNCHANGED <<fdmap, ref_count, lost, lock, fd, ptr, idx, pfd>>,
           pc[t] \in {"use", "drop", "accept_drop"} \cup Rewind,
           NEW l \in {"use", "drop", "accept_drop"} \cup Rewind, Goto(t, l), TypeOK'
    PROVE  IInv'
<1>1. Frame(t)
  BY DEF Goto, Frame, IInv, TypeOK, LocalTypeOK
<1>2. pc'[t] = l
  BY DEF Goto, IInv, TypeOK, LocalTypeOK
<1>3. LocalsAt(t)'
  BY <1>2 DEF LocalsAt, Create, Rewind
<1>4. HeldCells(t)' = HeldCells(t) => CellsAt(t)'
  BY <1>2 DEF IInv, CellsExact, CellsAt, Create, Rewind
<1> QED
  BY <1>1, <1>3, <1>4, QuietStep

LEMMA UseInv ==
    ASSUME IInv, NEW t \in Threads, Use(t) \/ UseNestedFails(t)
    PROVE  IInv'
<1>1. TypeOK'
  BY DEF Use, UseNestedFails, Goto, IInv, TypeOK, TableTypeOK, tableVars, LocalTypeOK, PCs
<1> QED
  BY <1>1, KeepStep DEF Use, UseNestedFails, tableVars

LEMMA UseNestedInv ==
    ASSUME IInv, NEW t \in Threads, UseNested(t)
    PROVE  IInv'
<1>1. pc[t] = "use" /\ HeldCells(t) = {0} /\ 1 \in FD \ HeldCells(t)
  BY Indices DEF UseNested, IInv, CellsExact, CellsAt
<1>2. /\ TableTypeOK' /\ RefInv' /\ lock' \in [Cells -> Pool \cup {NULL}]
      /\ HeldCells(t)' = {0, 1}
      /\ \A u \in Threads \ {t}, j \in FD : lock'[<<u, j>>] = lock[<<u, j>>]
  <2> DEFINE n == sce_uid[Entry(t)]
  <2>1. fd_grab(n) /\ lock' = [lock EXCEPT ![<<t, 1>>] = fdmap[n]]
    BY DEF UseNested
  <2> HIDE DEF n
  <2>2. HeldCells(t)' = HeldCells(t) \cup {1}
    BY <1>1, <2>1, GrabCellStep
  <2> QED
    BY <1>1, <2>1, <2>2, GrabCellStep
<1>3. TypeOK'
  BY <1>2 DEF UseNested, Goto, IInv, TypeOK, LocalTypeOK, PCs
<1>4. Frame(t)
  BY <1>2 DEF UseNested, Goto, Frame, IInv, TypeOK, LocalTypeOK
<1>5. pc'[t] = "nested"
  BY DEF UseNested, Goto, IInv, TypeOK, LocalTypeOK
<1>6. LocalsAt(t)' /\ CellsAt(t)'
  BY <1>2, <1>5 DEF LocalsAt, CellsAt, Create, Rewind
<1> QED
  BY <1>2, <1>3, <1>4, <1>6, StepFrame

LEMMA DropNestedInv ==
    ASSUME IInv, NEW t \in Threads, DropNested(t)
    PROVE  IInv'
<1>1. HeldCells(t) = {0, 1}
  BY DEF DropNested, IInv, CellsExact, CellsAt
<1>2. /\ TableTypeOK' /\ RefInv' /\ lock' \in [Cells -> Pool \cup {NULL}]
      /\ HeldCells(t)' = {0}
      /\ \A u \in Threads \ {t}, j \in FD : lock'[<<u, j>>] = lock[<<u, j>>]
  BY <1>1, DropCellStep DEF DropNested
<1>3. TypeOK'
  BY <1>2 DEF DropNested, Goto, IInv, TypeOK, LocalTypeOK, PCs
<1>4. Frame(t)
  BY <1>2 DEF DropNested, Goto, Frame, IInv, TypeOK, LocalTypeOK
<1>5. pc'[t] = "drop"
  BY DEF DropNested, Goto, IInv, TypeOK, LocalTypeOK
<1>6. LocalsAt(t)' /\ CellsAt(t)'
  BY <1>2, <1>5 DEF LocalsAt, CellsAt, Create, Rewind
<1> QED
  BY <1>2, <1>3, <1>4, <1>6, StepFrame

LEMMA DropInv ==
    ASSUME IInv, NEW t \in Threads, Drop(t)
    PROVE  IInv'
<1>1. HeldCells(t) = {0}
  BY DEF Drop, IInv, CellsExact, CellsAt
<1>2. /\ TableTypeOK' /\ RefInv' /\ lock' \in [Cells -> Pool \cup {NULL}]
      /\ HeldCells(t)' = {}
      /\ \A u \in Threads \ {t}, j \in FD : lock'[<<u, j>>] = lock[<<u, j>>]
  BY <1>1, DropCellStep DEF Drop
<1>3. LocalTypeOK' /\ LocalsAt(t)' /\ pc'[t] = "idle"
  BY ReturnStep DEF Drop, IInv, TypeOK
<1>4. TypeOK'
  BY <1>2, <1>3 DEF Drop, IInv, TypeOK
<1>5. Frame(t)
  BY <1>2 DEF Drop, Return, Goto, Frame, IInv, TypeOK, LocalTypeOK
<1>6. CellsAt(t)'
  BY <1>2, <1>3, IdleCells
<1> QED
  BY <1>2, <1>3, <1>4, <1>5, <1>6, StepFrame

LEMMA AcceptInv ==
    ASSUME IInv, NEW t \in Threads, Accept(t)
    PROVE  IInv'
<1>1. TypeOK'
  BY NewHandleType DEF Accept, Goto, IInv, TypeOK, TableTypeOK, LocalTypeOK, Types, PCs
<1> QED
  BY <1>1, KeepStep DEF Accept

LEMMA AcceptDropInv ==
    ASSUME IInv, NEW t \in Threads, AcceptDrop(t)
    PROVE  IInv'
<1>1. HeldCells(t) = {0}
  BY DEF AcceptDrop, IInv, CellsExact, CellsAt
<1>2. /\ TableTypeOK' /\ RefInv' /\ lock' \in [Cells -> Pool \cup {NULL}]
      /\ HeldCells(t)' = {}
      /\ \A u \in Threads \ {t}, j \in FD : lock'[<<u, j>>] = lock[<<u, j>>]
  BY <1>1, DropCellStep DEF AcceptDrop
<1>3. TypeOK'
  BY <1>2 DEF AcceptDrop, Goto, IInv, TypeOK, LocalTypeOK, PCs, Create
<1>4. Frame(t)
  BY <1>2 DEF AcceptDrop, Goto, Frame, IInv, TypeOK, LocalTypeOK
<1>5. pc'[t] = "acquire"
  BY DEF AcceptDrop, Goto, IInv, TypeOK, LocalTypeOK
<1>6. LocalsAt(t)' /\ CellsAt(t)'
  BY <1>2, <1>5 DEF LocalsAt, CellsAt, Create, Rewind
<1> QED
  BY <1>2, <1>3, <1>4, <1>6, StepFrame

LEMMA RewindInv ==
    ASSUME IInv, NEW t \in Threads, RewindOpen(t) \/ RewindClose(t) \/ RewindStore(t)
    PROVE  IInv'
<1>1. CASE RewindOpen(t)
  <2>1. TypeOK'
    BY <1>1, NewHandleType DEF RewindOpen, Goto, IInv, TypeOK, TableTypeOK, LocalTypeOK, PCs, Rewind
  <2> QED
    BY <1>1, <2>1, KeepStep DEF RewindOpen, Rewind
<1>2. CASE RewindClose(t)
  <2>1. TypeOK'
    BY <1>2, CloseHandleType DEF RewindClose, Goto, IInv, TypeOK, TableTypeOK, LocalTypeOK, PCs, Rewind
  <2> QED
    BY <1>2, <2>1, KeepStep DEF RewindClose, Rewind
<1>3. CASE RewindStore(t)
  <2>1. TypeOK'
    BY <1>3 DEF RewindStore, Goto, IInv, TypeOK, TableTypeOK, LocalTypeOK, PCs
  <2> QED
    BY <1>3, <2>1, KeepStep DEF RewindStore, Rewind
<1> QED
  BY <1>1, <1>2, <1>3

-----------------------------------------------------------------------------
(* poll and select: the loop index stays inside the array, which is shorter *)
(* than the table, so every cell the loop touches is a cell of the thread.  *)
LEMMA PollIndex ==
    ASSUME IInv, NEW t \in Threads
    PROVE  /\ Len(pfd[t]) \in Nat /\ idx[t] \in Nat
           /\ idx[t] < Len(pfd[t]) => idx[t] \in FD /\ idx[t] + 1 \in 0 .. MAX_OPEN_FILES
<1>1. Len(<<>>) = 0
  OBVIOUS
<1>2. Len(pfd[t]) \in Nat /\ Len(pfd[t]) < MAX_OPEN_FILES
  <2>1. CASE pfd[t] = <<>>
    BY <1>1, <2>1, TableAssumption
  <2>2. CASE pfd[t] \in PollArrays
    <3>1. pfd[t] \in Seq(PollFd) /\ Len(pfd[t]) < MAX_OPEN_FILES
      BY <2>2, CallsAssumption
    <3> QED
      BY <3>1
  <2> QED
    BY <2>1, <2>2 DEF IInv, TypeOK, LocalTypeOK
<1>3. idx[t] \in 0 .. MAX_OPEN_FILES
  BY DEF IInv, TypeOK, LocalTypeOK
<1> QED
  BY <1>2, <1>3, TableAssumption DEF FD

LEMMA PollStartInv ==
    ASSUME IInv, NEW t \in Threads, NEW c \in PollCalls, NEW a \in PollArrays, PollStart(t, c, a)
    PROVE  IInv'
<1> USE DEF PollStart, Goto
<1>1. pc[t] = "idle" /\ idx[t] = 0 /\ HeldCells(t) = {}
  BY DEF IInv, Locals, LocalsAt, CellsExact, CellsAt
<1>2. TypeOK'
  BY DEF IInv, TypeOK, TableTypeOK, tableVars, LocalTypeOK, PCs
<1>3. Frame(t)
  BY DEF Frame, IInv, TypeOK, LocalTypeOK
<1>4. pc'[t] = "scan" /\ pfd'[t] = a /\ idx'[t] = 0 /\ Len(a) \in Nat
  BY <1>1, CallsAssumption DEF IInv, TypeOK, LocalTypeOK
<1>5. LocalsAt(t)'
  BY <1>4 DEF LocalsAt, Create
<1>6. HeldCells(t)' = HeldCells(t) => CellsAt(t)'
  BY <1>1, <1>4 DEF CellsAt, Create, Rewind
<1> QED
  BY <1>2, <1>3, <1>5, <1>6, QuietStep DEF tableVars

LEMMA PollSkipInv ==
    ASSUME IInv, NEW t \in Threads, PollSkip(t)
    PROVE  IInv'
<1> USE DEF PollSkip, Advance
<1>1. idx[t] < Len(pfd[t]) /\ idx[t] + 1 \in 0 .. MAX_OPEN_FILES /\ idx[t] \in Nat /\ Len(pfd[t]) \in Nat
  BY PollIndex
<1>2. TypeOK'
  BY <1>1 DEF IInv, TypeOK, TableTypeOK, tableVars, LocalTypeOK
<1>3. Frame(t)
  BY DEF Frame, IInv, TypeOK, LocalTypeOK
<1>4. pc[t] = "scan" /\ pc'[t] = "scan" /\ pfd'[t] = pfd[t] /\ idx'[t] = idx[t] + 1
  BY DEF IInv, TypeOK, LocalTypeOK
<1>5. LocalsAt(t)'
  BY <1>1, <1>4 DEF LocalsAt, Create
<1>6. HeldCells(t) \subseteq Int /\ \A i \in HeldCells(t) : i < idx[t]
  BY <1>4, Indices DEF IInv, CellsExact, CellsAt, HeldCells
<1>7. HeldCells(t)' = HeldCells(t) => CellsAt(t)'
  BY <1>1, <1>4, <1>6 DEF CellsAt, Create, Rewind
<1> QED
  BY <1>2, <1>3, <1>5, <1>7, QuietStep DEF tableVars

LEMMA PollGrabInv ==
    ASSUME IInv, NEW t \in Threads, PollGrab(t)
    PROVE  IInv'
<1> DEFINE n == Element(t)
<1>1. pc[t] = "scan" /\ idx[t] < Len(pfd[t]) /\ idx[t] \in FD /\ idx[t] \in Nat
  BY PollIndex DEF PollGrab
<1>2. HeldCells(t) \subseteq Int /\ \A i \in HeldCells(t) : i < idx[t]
  BY <1>1, Indices DEF IInv, CellsExact, CellsAt, HeldCells
<1>3. idx[t] \in FD \ HeldCells(t)
  BY <1>1, <1>2
<1>4. fd_grab(n) /\ lock' = [lock EXCEPT ![<<t, idx[t]>>] = fdmap[n]]
  BY DEF PollGrab
<1> HIDE DEF n
<1>5. /\ TableTypeOK' /\ RefInv' /\ lock' \in [Cells -> Pool \cup {NULL}]
      /\ HeldCells(t)' = HeldCells(t) \cup {idx[t]}
      /\ \A u \in Threads \ {t}, j \in FD : lock'[<<u, j>>] = lock[<<u, j>>]
  BY <1>3, <1>4, GrabCellStep
<1>6. TypeOK'
  BY <1>5 DEF PollGrab, Goto, IInv, TypeOK, LocalTypeOK, PCs
<1>7. Frame(t)
  BY <1>5 DEF PollGrab, Goto, Frame, IInv, TypeOK, LocalTypeOK
<1>8. pc'[t] = "scan_type" /\ idx'[t] = idx[t] /\ pfd'[t] = pfd[t]
  BY DEF PollGrab, Goto, IInv, TypeOK, LocalTypeOK
<1>9. LocalsAt(t)' /\ CellsAt(t)'
  BY <1>1, <1>2, <1>5, <1>8 DEF LocalsAt, CellsAt, Create, Rewind
<1> QED
  BY <1>5, <1>6, <1>7, <1>9, StepFrame

LEMMA PollTypeInv ==
    ASSUME IInv, NEW t \in Threads, PollType(t)
    PROVE  IInv'
<1> USE DEF PollType, Goto, Advance
<1>1. pc[t] = "scan_type" /\ idx[t] < Len(pfd[t])
  BY DEF IInv, Locals, LocalsAt
<1>2. idx[t] + 1 \in 0 .. MAX_OPEN_FILES /\ idx[t] \in Nat /\ Len(pfd[t]) \in Nat
  BY <1>1, PollIndex
<1>3. TypeOK'
  BY <1>2 DEF IInv, TypeOK, TableTypeOK, tableVars, LocalTypeOK, PCs
<1>4. Frame(t)
  BY DEF Frame, IInv, TypeOK, LocalTypeOK
<1>5. /\ pfd'[t] = pfd[t]
      /\ \/ pc'[t] = "scan" /\ idx'[t] = idx[t] + 1
         \/ pc'[t] = "scan_drop" /\ idx'[t] = idx[t]
  BY DEF IInv, TypeOK, LocalTypeOK
<1>6. HeldCells(t) \subseteq Int /\ idx[t] \in HeldCells(t) /\ \A i \in HeldCells(t) : i <= idx[t]
  BY <1>1, Indices DEF IInv, CellsExact, CellsAt, HeldCells
<1>7. LocalsAt(t)'
  BY <1>1, <1>2, <1>5 DEF LocalsAt, Create
<1>8. HeldCells(t)' = HeldCells(t) => CellsAt(t)'
  BY <1>2, <1>5, <1>6 DEF CellsAt, Create, Rewind
<1> QED
  BY <1>3, <1>4, <1>7, <1>8, QuietStep DEF tableVars

LEMMA PollDropInv ==
    ASSUME IInv, NEW t \in Threads, PollDrop(t)
    PROVE  IInv'
<1>1. pc[t] = "scan_drop" /\ idx[t] < Len(pfd[t])
  BY DEF PollDrop, IInv, Locals, LocalsAt
<1>2. idx[t] + 1 \in 0 .. MAX_OPEN_FILES /\ idx[t] \in Nat /\ Len(pfd[t]) \in Nat
  BY <1>1, PollIndex
<1>3. HeldCells(t) \subseteq Int /\ idx[t] \in HeldCells(t) /\ \A i \in HeldCells(t) : i <= idx[t]
  BY <1>1, Indices DEF IInv, CellsExact, CellsAt, HeldCells
<1>4. /\ TableTypeOK' /\ RefInv' /\ lock' \in [Cells -> Pool \cup {NULL}]
      /\ HeldCells(t)' = HeldCells(t) \ {idx[t]}
      /\ \A u \in Threads \ {t}, j \in FD : lock'[<<u, j>>] = lock[<<u, j>>]
  BY <1>3, DropCellStep DEF PollDrop
<1>5. TypeOK'
  BY <1>2, <1>4 DEF PollDrop, Goto, Advance, IInv, TypeOK, LocalTypeOK, PCs
<1>6. Frame(t)
  BY <1>4 DEF PollDrop, Goto, Advance, Frame, IInv, TypeOK, LocalTypeOK
<1>7. pc'[t] = "scan" /\ idx'[t] = idx[t] + 1 /\ pfd'[t] = pfd[t]
  BY DEF PollDrop, Goto, Advance, IInv, TypeOK, LocalTypeOK
<1>8. LocalsAt(t)' /\ CellsAt(t)'
  BY <1>1, <1>2, <1>3, <1>4, <1>7 DEF LocalsAt, CellsAt, Create, Rewind
<1> QED
  BY <1>4, <1>5, <1>6, <1>8, StepFrame

LEMMA PollWaitInv ==
    ASSUME IInv, NEW t \in Threads, PollWait(t)
    PROVE  IInv'
<1> USE DEF PollWait, Goto
<1>1. pc[t] = "scan" /\ idx[t] = Len(pfd[t])
  OBVIOUS
<1>2. TypeOK'
  BY DEF IInv, TypeOK, TableTypeOK, tableVars, LocalTypeOK, PCs
<1>3. Frame(t)
  BY DEF Frame, IInv, TypeOK, LocalTypeOK
<1>4. pc'[t] = "wait" /\ pfd'[t] = pfd[t]
  BY DEF IInv, TypeOK, LocalTypeOK
<1>5. LocalsAt(t)'
  BY <1>4 DEF LocalsAt, Create
<1>6. \A i \in HeldCells(t) : i < Len(pfd[t])
  BY <1>1 DEF IInv, CellsExact, CellsAt
<1>7. HeldCells(t)' = HeldCells(t) => CellsAt(t)'
  BY <1>4, <1>6 DEF CellsAt, Create, Rewind
<1> QED
  BY <1>2, <1>3, <1>5, <1>7, QuietStep DEF tableVars

LEMMA PollWakeInv ==
    ASSUME IInv, NEW t \in Threads, PollWake(t)
    PROVE  IInv'
<1> USE DEF PollWake, Goto
<1>1. Len(pfd[t]) \in Nat /\ 0 \in 0 .. MAX_OPEN_FILES
  BY PollIndex, TableAssumption
<1>2. TypeOK'
  BY <1>1 DEF IInv, TypeOK, TableTypeOK, tableVars, LocalTypeOK, PCs
<1>3. Frame(t)
  BY DEF Frame, IInv, TypeOK, LocalTypeOK
<1>4. pc[t] = "wait" /\ pc'[t] = "unlock" /\ idx'[t] = 0 /\ pfd'[t] = pfd[t]
  BY DEF IInv, TypeOK, LocalTypeOK
<1>5. LocalsAt(t)'
  BY <1>1, <1>4 DEF LocalsAt, Create
<1>6. \A i \in HeldCells(t) : i < Len(pfd[t])
  BY <1>4 DEF IInv, CellsExact, CellsAt
<1>7. \A i \in HeldCells(t) : 0 <= i
  BY TableAssumption DEF HeldCells, FD
<1>8. HeldCells(t)' = HeldCells(t) => CellsAt(t)'
  BY <1>4, <1>6, <1>7 DEF CellsAt, Create, Rewind
<1> QED
  BY <1>2, <1>3, <1>5, <1>8, QuietStep DEF tableVars

LEMMA PollUnlockInv ==
    ASSUME IInv, NEW t \in Threads, PollUnlock(t)
    PROVE  IInv'
<1>1. pc[t] = "unlock" /\ idx[t] < Len(pfd[t])
  BY DEF PollUnlock
<1>2. idx[t] \in FD /\ idx[t] + 1 \in 0 .. MAX_OPEN_FILES /\ idx[t] \in Nat /\ Len(pfd[t]) \in Nat
  BY <1>1, PollIndex
<1>3. HeldCells(t) \subseteq Int /\ \A i \in HeldCells(t) : idx[t] <= i /\ i < Len(pfd[t])
  BY <1>1, Indices DEF IInv, CellsExact, CellsAt, HeldCells
<1>4. /\ TableTypeOK' /\ RefInv' /\ lock' \in [Cells -> Pool \cup {NULL}]
      /\ HeldCells(t)' = HeldCells(t) \ {idx[t]}
      /\ \A u \in Threads \ {t}, j \in FD : lock'[<<u, j>>] = lock[<<u, j>>]
  <2>1. CASE lock[<<t, idx[t]>>] # NULL
    <3>1. idx[t] \in HeldCells(t) /\ DropCell(t, idx[t])
      BY <1>2, <2>1 DEF PollUnlock, HeldCells
    <3> QED
      BY <3>1, DropCellStep
  <2>2. CASE lock[<<t, idx[t]>>] = NULL
    <3>1. UNCHANGED <<tableVars, lock>>
      BY <2>2 DEF PollUnlock
    <3>2. RefInv' /\ TableTypeOK'
      BY <3>1, RefInvSame DEF IInv, TypeOK, TableTypeOK, tableVars
    <3>3. HeldCells(t)' = HeldCells(t) /\ idx[t] \notin HeldCells(t)
      BY <2>2, <3>1 DEF HeldCells
    <3> QED
      BY <3>1, <3>2, <3>3 DEF IInv, TypeOK
  <2> QED
    BY <2>1, <2>2
<1>5. TypeOK'
  BY <1>2, <1>4 DEF PollUnlock, Advance, IInv, TypeOK, LocalTypeOK
<1>6. Frame(t)
  BY <1>4 DEF PollUnlock, Advance, Frame, IInv, TypeOK, LocalTypeOK
<1>7. pc'[t] = "unlock" /\ idx'[t] = idx[t] + 1 /\ pfd'[t] = pfd[t]
  BY <1>1 DEF PollUnlock, Advance, IInv, TypeOK, LocalTypeOK
<1>8. LocalsAt(t)'
  BY <1>1, <1>2, <1>7 DEF LocalsAt, Create
<1>9. CellsAt(t)'
  BY <1>2, <1>3, <1>4, <1>7 DEF CellsAt, Create, Rewind
<1> QED
  BY <1>4, <1>5, <1>6, <1>8, <1>9, StepFrame

LEMMA PollReturnInv ==
    ASSUME IInv, NEW t \in Threads, PollReturn(t)
    PROVE  IInv'
<1>1. LocalTypeOK' /\ LocalsAt(t)' /\ pc'[t] = "idle"
  BY ReturnStep DEF PollReturn, IInv, TypeOK
<1>2. TypeOK'
  BY <1>1 DEF PollReturn, IInv, TypeOK, TableTypeOK, tableVars
<1>3. Frame(t)
  BY DEF PollReturn, Return, Goto, Frame, IInv, TypeOK, LocalTypeOK
<1>4. HeldCells(t) = {}
  <2>1. Len(pfd[t]) \in Nat /\ HeldCells(t) \subseteq Int
    BY PollIndex, Indices DEF HeldCells
  <2>2. \A i \in HeldCells(t) : Len(pfd[t]) <= i /\ i < Len(pfd[t])
    BY DEF PollReturn, IInv, CellsExact, CellsAt
  <2> QED
    BY <2>1, <2>2
<1>5. HeldCells(t)' = HeldCells(t) => CellsAt(t)'
  BY <1>1, <1>4, IdleCells
<1> QED
  BY <1>1, <1>2, <1>3, <1>5, QuietStep DEF PollReturn, tableVars

-----------------------------------------------------------------------------
(* The invariant holds of the initial table: each standard entry is counted *)
(* once, by its own slot.                                                   *)
LEMMA InitInv == Init => IInv
<1> SUFFICES ASSUME Init PROVE IInv
  OBVIOUS
<1>1. Std \subseteq FD /\ Pool = FD /\ NULL \notin FD
  BY TableAssumption DEF Std, FD, Pool
<1>2. TypeOK
  <2>1. TableTypeOK
    BY <1>1, TableAssumption DEF Init, init_fd, TableTypeOK, Types
  <2>2. LocalTypeOK
    BY TableAssumption DEF Init, LocalTypeOK, Types, PCs
  <2> QED
    BY <1>1, <2>1, <2>2 DEF Init, TypeOK
<1>3. Locals
  BY DEF Init, Locals, LocalsAt, Create
<1>4. CellsExact
  <2> SUFFICES ASSUME NEW t \in Threads PROVE CellsAt(t)
    BY DEF CellsExact
  <2>1. HeldCells(t) = {} /\ pc[t] = "idle"
    BY CellOf DEF Init, HeldCells
  <2> QED
    BY <2>1 DEF CellsAt, Create, Rewind
<1>5. RefCountExact
  <2> SUFFICES ASSUME NEW p \in Pool
               PROVE  ref_count[p] = Cardinality(MapRefs(p)) + Cardinality(LockRefs(p))
                                     + (IF p \in lost THEN 1 ELSE 0)
    BY DEF RefCountExact
  <2>1. LockRefs(p) = {} /\ lost = {}
    BY <1>1 DEF Init, init_fd, LockRefs
  <2>2. CASE p \in Std
    <3>1. MapRefs(p) = {p} /\ ref_count[p] = 1
      BY <1>1, <2>2 DEF Init, init_fd, MapRefs
    <3>2. Cardinality(MapRefs(p)) = 1 /\ Cardinality(LockRefs(p)) = 0
      BY ONLY <2>1, <3>1, FS_EmptySet, FS_Singleton
    <3> QED
      BY <2>1, <3>1, <3>2
  <2>3. CASE p \notin Std
    <3>1. MapRefs(p) = {} /\ ref_count[p] = 0
      BY <1>1, <2>3 DEF Init, init_fd, MapRefs
    <3> QED
      BY <2>1, <3>1, FS_EmptySet
  <2> QED
    BY <2>2, <2>3
<1>6. LostOnce
  BY DEF Init, init_fd, LostOnce
<1> QED
  BY <1>2, <1>3, <1>4, <1>5, <1>6 DEF IInv, RefInv

(* Every step keeps the invariant.                                          *)
LEMMA NextInv == IInv /\ [Next]_vars => IInv'
<1> SUFFICES ASSUME IInv, [Next]_vars PROVE IInv'
  OBVIOUS
<1>1. CASE UNCHANGED vars
  <2>1. UNCHANGED <<localVars, lock, fdmap, ref_count, lost, owned>>
    BY <1>1 DEF vars, tableVars
  <2>2. TableTypeOK' /\ RefInv'
    BY <1>1, <2>1, RefInvSame DEF IInv, TypeOK, TableTypeOK, vars, tableVars
  <2> QED
    BY <2>1, <2>2, SectionStep DEF IInv, TypeOK
<1>2. ASSUME NEW t \in Threads, Start(t) PROVE IInv'
  BY <1>2, OpenInv, SocketInv, PipeInv, CloseInv, DupInv, Dup2Inv, Dup2SelfInv,
     GrabInv, PollStartInv DEF Start
<1>3. ASSUME NEW t \in Threads, Continue(t) PROVE IInv'
  BY <1>3, AcquireInv, AcquireFailsInv, LoadPtrInv, FaultInv, StoreUidInv,
     StoreTypeInv, PipeDupInv, PipeDupFailsInv, UseInv, UseNestedInv,
     DropNestedInv, DropInv, AcceptInv, AcceptDropInv, RewindInv, PollSkipInv,
     PollGrabInv, PollTypeInv, PollDropInv, PollWaitInv, PollWakeInv,
     PollUnlockInv, PollReturnInv DEF Continue
<1> QED
  BY <1>1, <1>2, <1>3 DEF Next

(* The invariant holds whatever the application does.                       *)
THEOREM Invariance == Spec => []IInv
BY InitInv, NextInv, PTL DEF Spec

(* Every variable keeps its type, whatever the threads do: the loop indices *)
(* of poll, the handles read as descriptors by readv and the pointers       *)
(* loaded without the mutex never leave the table.                          *)
THEOREM TypeCorrect == Spec => []TypeOK
<1>1. IInv => TypeOK
  BY DEF IInv
<1> QED
  BY <1>1, Invariance, PTL

(* The reference counts are exact in every reachable state.                 *)
THEOREM RefCountCorrect == Spec => []RefCountExact
<1>1. IInv => RefCountExact
  BY DEF IInv, RefInv
<1> QED
  BY <1>1, Invariance, PTL

(* No call keeps a reference it should have dropped, on any path.           *)
THEOREM CellsCorrect == Spec => []CellsExact
<1>1. IInv => CellsExact
  BY DEF IInv
<1> QED
  BY <1>1, Invariance, PTL

(* No slot and no running call points to an entry that may be handed out    *)
(* again: what a call locked is not given to another descriptor under it.   *)
THEOREM NoDanglingCorrect == Spec => []NoDangling
<1>1. IInv => NoDangling
  <2> SUFFICES ASSUME IInv, NEW p \in Pool, ref_count[p] = 0 \/ p \in lost
               PROVE  MapRefs(p) = {} /\ LockRefs(p) = {}
    BY DEF NoDangling
  <2> SUFFICES ASSUME MapRefs(p) # {} \/ LockRefs(p) # {} PROVE FALSE
    OBVIOUS
  <2>1. ref_count[p] > 0 /\ p \notin lost
    BY ReferencedEntry DEF IInv, TypeOK, MapRefs, LockRefs
  <2> QED
    BY <2>1
<1> QED
  BY <1>1, Invariance, PTL

=============================================================================
