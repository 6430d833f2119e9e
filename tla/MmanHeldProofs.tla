--------------------------- MODULE MmanHeldProofs ---------------------------
(***************************************************************************)
(* What becomes of the pages the application mapped: that they stay mapped  *)
(* and backed, that none is left over, that the table knows their           *)
(* protection, for any application; and for one whose threads only name     *)
(* pages of their own, that they keep their contents and that the library   *)
(* does not fault where it fills them.                                      *)
(***************************************************************************)
EXTENDS MmanProofs

-----------------------------------------------------------------------------
(* What the table says of a page: the protections of the regions that have  *)
(* it.  The table is sorted, so there is at most one.                       *)
InRegion(r, p) == r.addr <= p /\ p < End(r)
ProtsOf(rs, p) ==
    {pr \in SUBSET Bits : \E i \in 1..Len(rs) : InRegion(rs[i], p) /\ rs[i].prot = pr}

LEMMA OneRegion ==
    ASSUME NEW rs \in Seq(Region), Ordered(rs), NEW p \in Nat,
           NEW i \in 1..Len(rs), NEW j \in 1..Len(rs), InRegion(rs[i], p), InRegion(rs[j], p)
    PROVE  i = j
<1>1. /\ rs[i].addr \in Nat /\ rs[j].addr \in Nat /\ End(rs[i]) \in Nat /\ End(rs[j]) \in Nat
      /\ Len(rs) \in Nat
  BY TableType
<1>2. rs[i].addr <= p /\ p < End(rs[i]) /\ rs[j].addr <= p /\ p < End(rs[j])
  BY DEF InRegion
<1>3. /\ i < j => End(rs[i]) <= rs[j].addr
      /\ j < i => End(rs[j]) <= rs[i].addr
  BY DEF Ordered
<1> QED
  BY <1>1, <1>2, <1>3

LEMMA OneProt ==
    ASSUME NEW rs \in Seq(Region), Ordered(rs), NEW p \in Nat,
           NEW k \in 1..Len(rs), InRegion(rs[k], p)
    PROVE  ProtsOf(rs, p) = {rs[k].prot} /\ rs[k].prot \in SUBSET Bits
<1>1. rs[k] \in Region
  BY TableType
<1>2. rs[k].prot \in SUBSET Bits
  BY <1>1 DEF Region
<1>3. \A i \in 1..Len(rs) : InRegion(rs[i], p) => i = k
  BY OneRegion
<1> QED
  BY <1>2, <1>3 DEF ProtsOf

LEMMA NoProt ==
    ASSUME NEW rs \in Seq(Region), NEW p \in Nat
    PROVE  ProtsOf(rs, p) = {} <=> \A i \in 1..Len(rs) : ~InRegion(rs[i], p)
<1>1. \A i \in 1..Len(rs) : rs[i].prot \in SUBSET Bits
  <2> SUFFICES ASSUME NEW i \in 1..Len(rs) PROVE rs[i].prot \in SUBSET Bits
    OBVIOUS
  <2>1. rs[i] \in Region
    BY TableType
  <2> QED
    BY <2>1 DEF Region
<1> QED
  BY <1>1 DEF ProtsOf

LEMMA EmptyProts ==
    ASSUME NEW rs, rs = <<>>, NEW p
    PROVE  ProtsOf(rs, p) = {}
<1>1. Len(rs) = 0
  OBVIOUS
<1> QED
  BY <1>1 DEF ProtsOf

LEMMA MappedProts ==
    ASSUME regions \in Seq(Region), NEW p \in Pages
    PROVE  p \in Mapped <=> ProtsOf(regions, p) # {}
<1>1. p \in Nat
  BY PageTypes
<1> QED
  BY <1>1, NoProt DEF Mapped, InRegion

(* _region_insert adds the pages of the new region.                         *)
LEMMA InsertProts ==
    ASSUME NEW rs \in Seq(Region), NEW r \in Region, Ordered(region_insert(rs, r)),
           NEW p \in Nat
    PROVE  /\ InRegion(r, p) => ProtsOf(rs, p) = {} /\ ProtsOf(region_insert(rs, r), p) = {r.prot}
           /\ ~InRegion(r, p) => ProtsOf(region_insert(rs, r), p) = ProtsOf(rs, p)
<1> DEFINE k == InsertPos(rs, r.addr)
           n == Len(rs)
           e(j) == IF j <= k THEN rs[j] ELSE IF j = k + 1 THEN r ELSE rs[j - 1]
           q == [j \in 1..(n + 1) |-> e(j)]
<1>0. n \in Nat /\ \A i \in 1..n : rs[i] \in Region
  BY TableType
<1>00. r.addr \in Nat
  BY RegionType
<1>1. k \in 0..n
  BY InsertPosType, <1>00
<1>2. region_insert(rs, r) = q
  BY DEF region_insert
<1> HIDE DEF k
<1>3. \A j \in 1..(n + 1) : e(j) \in Region
  BY <1>0, <1>1
<1>4. q \in Seq(Region) /\ Len(q) = n + 1 /\ \A j \in 1..(n + 1) : q[j] = e(j)
  <2>1. q \in [1..(n + 1) -> Region]
    BY <1>3
  <2>2. n + 1 \in Nat
    BY <1>0
  <2>3. q \in Seq(Region)
    BY <2>1, <2>2, SeqDef
  <2> QED
    BY <2>1, <2>2, <2>3, LenProperties
<1> HIDE DEF q
<1>5. k + 1 \in 1..Len(q) /\ q[k + 1] = r
  BY <1>0, <1>1, <1>4
<1>6. ASSUME NEW i \in 1..n PROVE \E j \in 1..Len(q) : j # k + 1 /\ q[j] = rs[i]
  <2>1. CASE i <= k
    <3>1. i \in 1..Len(q) /\ i # k + 1 /\ q[i] = rs[i]
      BY <2>1, <1>0, <1>1, <1>4
    <3> QED
      BY <3>1
  <2>2. CASE i > k
    <3>1. i + 1 \in 1..Len(q) /\ i + 1 # k + 1 /\ q[i + 1] = rs[i]
      BY <2>2, <1>0, <1>1, <1>4
    <3> QED
      BY <3>1
  <2> QED
    BY <2>1, <2>2, <1>0, <1>1
<1>7. \A j \in 1..Len(q) : q[j] = r \/ \E i \in 1..n : q[j] = rs[i]
  BY <1>0, <1>1, <1>4
<1>8. ASSUME InRegion(r, p) PROVE ProtsOf(rs, p) = {} /\ ProtsOf(q, p) = {r.prot}
  <2>1. ASSUME NEW i \in 1..n, InRegion(rs[i], p) PROVE FALSE
    <3>1. PICK j \in 1..Len(q) : j # k + 1 /\ q[j] = rs[i]
      BY <1>6
    <3>2. PICK m \in 1..Len(q) : m = k + 1
      BY <1>5
    <3>3. InRegion(q[j], p) /\ InRegion(q[m], p)
      BY <1>8, <2>1, <3>1, <3>2, <1>5
    <3> QED
      BY <1>2, <1>4, <3>1, <3>2, <3>3, OneRegion
  <2>2. ProtsOf(rs, p) = {}
    BY <2>1, NoProt
  <2>3. PICK m \in 1..Len(q) : m = k + 1
    BY <1>5
  <2>4. ProtsOf(q, p) = {q[m].prot}
    BY <1>2, <1>4, <1>5, <1>8, <2>3, OneProt
  <2> QED
    BY <2>2, <2>3, <2>4, <1>5
<1>9. ASSUME ~InRegion(r, p) PROVE ProtsOf(q, p) = ProtsOf(rs, p)
  <2>1. ASSUME NEW pr \in SUBSET Bits
        PROVE  (\E j \in 1..Len(q) : InRegion(q[j], p) /\ q[j].prot = pr)
                   <=> (\E i \in 1..n : InRegion(rs[i], p) /\ rs[i].prot = pr)
    BY <1>6, <1>7, <1>9
  <2> QED
    BY <2>1 DEF ProtsOf
<1> QED
  BY <1>2, <1>8, <1>9

(* _region_remove takes the pages of the region away.                       *)
LEMMA RemoveProts ==
    ASSUME NEW rs \in Seq(Region), Ordered(rs), NEW k \in 1..Len(rs), NEW p \in Nat
    PROVE  ProtsOf(region_remove(rs, k), p) = IF InRegion(rs[k], p) THEN {} ELSE ProtsOf(rs, p)
<1> DEFINE q == region_remove(rs, k)
           n == Len(rs)
<1>1. /\ q \in Seq(Region) /\ Len(q) = n - 1
      /\ \A j \in 1..(n - 1) : \E i \in (1..n) \ {k} : q[j] = rs[i]
      /\ \A i \in (1..n) \ {k} : \E j \in 1..(n - 1) : q[j] = rs[i]
  BY RemoveOrdered
<1> HIDE DEF q
<1>2. \A i \in 1..n : InRegion(rs[k], p) /\ InRegion(rs[i], p) => i = k
  BY OneRegion
<1>3. CASE InRegion(rs[k], p)
  <2>1. \A j \in 1..Len(q) : ~InRegion(q[j], p)
    BY <1>1, <1>2, <1>3
  <2> QED
    BY <2>1, <1>1, <1>3, NoProt DEF q
<1>4. CASE ~InRegion(rs[k], p)
  <2>1. ASSUME NEW pr \in SUBSET Bits
        PROVE  (\E j \in 1..Len(q) : InRegion(q[j], p) /\ q[j].prot = pr)
                   <=> (\E i \in 1..n : InRegion(rs[i], p) /\ rs[i].prot = pr)
    BY <1>1, <1>4
  <2>2. ProtsOf(q, p) = ProtsOf(rs, p)
    BY <2>1 DEF ProtsOf
  <2> QED
    BY <2>2, <1>4 DEF q
<1> QED
  BY <1>3, <1>4

(* A region with other bounds loses or gains the pages in between.          *)
LEMMA ReplaceProts ==
    ASSUME NEW rs \in Seq(Region), Ordered(rs), NEW k \in 1..Len(rs), NEW r \in Region,
           r.prot = rs[k].prot, NEW p \in Nat
    PROVE  /\ Replaced(rs, k, r) \in Seq(Region) /\ Len(Replaced(rs, k, r)) = Len(rs)
           /\ (InRegion(r, p) <=> InRegion(rs[k], p))
                  => ProtsOf(Replaced(rs, k, r), p) = ProtsOf(rs, p)
           /\ InRegion(rs[k], p) /\ ~InRegion(r, p) => ProtsOf(Replaced(rs, k, r), p) = {}
           /\ InRegion(r, p) /\ ~InRegion(rs[k], p) /\ Ordered(Replaced(rs, k, r))
                  => ProtsOf(rs, p) = {} /\ ProtsOf(Replaced(rs, k, r), p) = {r.prot}
<1> DEFINE q == Replaced(rs, k, r)
           n == Len(rs)
<1>1. /\ q \in Seq(Region) /\ Len(q) = n
      /\ \A i \in 1..n : q[i] = IF i = k THEN r ELSE rs[i]
  BY ExceptSeq DEF Replaced
<1> HIDE DEF q
<1>2. ASSUME InRegion(r, p) <=> InRegion(rs[k], p) PROVE ProtsOf(q, p) = ProtsOf(rs, p)
  <2>1. \A i \in 1..n : (InRegion(q[i], p) <=> InRegion(rs[i], p)) /\ q[i].prot = rs[i].prot
    BY <1>1, <1>2
  <2> QED
    BY <2>1, <1>1 DEF ProtsOf
<1>3. ASSUME InRegion(rs[k], p), ~InRegion(r, p) PROVE ProtsOf(q, p) = {}
  <2>1. \A i \in 1..n : InRegion(rs[i], p) => i = k
    BY <1>3, OneRegion
  <2>2. \A i \in 1..Len(q) : ~InRegion(q[i], p)
    BY <2>1, <1>1, <1>3
  <2> QED
    BY <2>2, <1>1, NoProt
<1>4. ASSUME InRegion(r, p), ~InRegion(rs[k], p), Ordered(q)
      PROVE  ProtsOf(rs, p) = {} /\ ProtsOf(q, p) = {r.prot}
  <2>1. PICK m \in 1..Len(q) : m = k /\ q[m] = r
    BY <1>1
  <2>2. \A i \in 1..Len(q) : InRegion(q[i], p) => i = m
    BY <1>1, <1>4, <2>1, OneRegion
  <2>3. \A i \in 1..n : ~InRegion(rs[i], p)
    BY <1>1, <1>4, <2>1, <2>2
  <2>4. ProtsOf(q, p) = {q[m].prot}
    BY <1>1, <1>4, <2>1, OneProt
  <2> QED
    BY <2>1, <2>3, <2>4, NoProt
<1> QED
  BY <1>1, <1>2, <1>3, <1>4 DEF q

(* The end of a region that is split becomes a region of its own.           *)
LEMMA SplitProts ==
    ASSUME NEW rs \in Seq(Region), Ordered(rs), NEW k \in 1..Len(rs),
           NEW r1 \in Region, NEW r2 \in Region, r1.prot = rs[k].prot, r2.prot = rs[k].prot,
           r1.addr = rs[k].addr, End(r1) <= r2.addr, End(r2) = End(rs[k]),
           Ordered(region_insert(Replaced(rs, k, r1), r2)), NEW p \in Nat
    PROVE  ProtsOf(region_insert(Replaced(rs, k, r1), r2), p)
               = IF End(r1) <= p /\ p < r2.addr THEN {} ELSE ProtsOf(rs, p)
<1> DEFINE q == Replaced(rs, k, r1)
           z == region_insert(q, r2)
<1>1. /\ q \in Seq(Region)
      /\ (InRegion(r1, p) <=> InRegion(rs[k], p)) => ProtsOf(q, p) = ProtsOf(rs, p)
      /\ InRegion(rs[k], p) /\ ~InRegion(r1, p) => ProtsOf(q, p) = {}
  BY ReplaceProts
<1>2. /\ InRegion(r2, p) => ProtsOf(z, p) = {r2.prot}
      /\ ~InRegion(r2, p) => ProtsOf(z, p) = ProtsOf(q, p)
  <2> HIDE DEF q
  <2> QED
    BY <1>1, InsertProts DEF q
<1> HIDE DEF q, z
<1>3. /\ rs[k].addr \in Nat /\ End(rs[k]) \in Nat /\ r1.addr \in Nat /\ End(r1) \in Nat
      /\ r2.addr \in Nat /\ End(r2) \in Nat /\ r1.len \in Nat /\ r2.len \in Nat
      /\ End(r1) = r1.addr + r1.len /\ End(r2) = r2.addr + r2.len
  BY TableType, RegionType
<1>4. InRegion(rs[k], p) => ProtsOf(rs, p) = {rs[k].prot}
  BY OneProt
<1>5. CASE InRegion(r2, p)
  <2>1. InRegion(rs[k], p) /\ ~(End(r1) <= p /\ p < r2.addr)
    BY <1>3, <1>5 DEF InRegion
  <2> QED
    BY <2>1, <1>2, <1>4, <1>5 DEF z, q
<1>6. CASE End(r1) <= p /\ p < r2.addr
  <2>1. InRegion(rs[k], p) /\ ~InRegion(r1, p) /\ ~InRegion(r2, p)
    BY <1>3, <1>6 DEF InRegion
  <2> QED
    BY <2>1, <1>1, <1>2, <1>6 DEF z, q
<1>7. CASE ~InRegion(r2, p) /\ ~(End(r1) <= p /\ p < r2.addr)
  <2>1. InRegion(r1, p) <=> InRegion(rs[k], p)
    BY <1>3, <1>7 DEF InRegion
  <2> QED
    BY <2>1, <1>1, <1>2, <1>7 DEF z, q
<1> QED
  BY <1>5, <1>6, <1>7

-----------------------------------------------------------------------------
(* The inductive invariant, for any application.                            *)

(* The threads that are about to unmap a page.                              *)
RangeOf(t) == PagesOf(call[t].addr, call[t].len)
Unmaps(t, p) == pc[t] \in {"unmap", "unmapping"} /\ p \in RangeOf(t)

(* A held page is mapped.  With kubridge a page of the table has memory, of *)
(* the protection that the table has, but for the pages that the ghosts     *)
(* name.  A page of the table has an owner, or a thread that takes it away. *)
PageAt(p) ==
    /\ hold[p] # NoThread => ProtsOf(regions, p) # {}
    /\ HaveKubridge /\ ProtsOf(regions, p) # {} /\ p \notin holes => p \in DOMAIN backing
    /\ p \in holes => HaveKubridge /\ ProtsOf(regions, p) # {} /\ p \notin DOMAIN backing
    /\ HaveKubridge /\ p \notin holes \cup diverged
           => \A pr \in ProtsOf(regions, p) : backing[p] = pr
    /\ ProtsOf(regions, p) # {}
           => hold[p] # NoThread \/ p \in stranded \/ \E t \in Threads : Unmaps(t, p)

(* After module_stop the table is empty, and no call goes on.               *)
StoppedEmpty == ~mman_ready => regions = <<>> /\ \A t \in Threads : pc[t] \notin Loops

(* The loop of __mman_unmap leaves nothing of the range behind its cursor.  *)
UnmappingAt(t) ==
    pc[t] = "unmapping" =>
        /\ \A p \in RangeOf(t) : hold[p] = NoThread
        /\ \A j \in 1..Len(regions) : j < call[t].i =>
               \A p \in RangeOf(t) : ~InRegion(regions[j], p)

PagesInv ==
    /\ \A p \in Pages : PageAt(p)
    /\ StoppedEmpty
    /\ \A t \in Threads : UnmappingAt(t)

(* Only t moves.                                                            *)
Moves(t) == \A u \in Threads : u # t => pc'[u] = pc[u] /\ call'[u] = call[u]

LEMMA RequestMoves ==
    ASSUME IInv, NEW t \in Threads, Request(t)
    PROVE  Moves(t) /\ mman_ready' = mman_ready
<1>0. pc \in [Threads -> Labels] /\ call \in [Threads -> CallType]
  BY DEF IInv, TypeOK
<1>1. \A l, c : Begin(t, l, c) => Moves(t)
  BY <1>0 DEF Begin, Goto, Moves
<1> QED
  BY <1>1 DEF Request, Mmap, Munmap, mprotect, Madvise, Mremap, Store, Moves, table

LEMMA CallMoves ==
    ASSUME IInv, NEW t \in Threads, InCall(t)
    PROVE  Moves(t) /\ mman_ready' = mman_ready
<1>0. pc \in [Threads -> Labels] /\ call \in [Threads -> CallType]
  BY DEF IInv, TypeOK
<1>1. Return(t) => Moves(t)
  BY <1>0 DEF Return, Goto, Moves
<1>2. \A l : Goto(t, l) /\ call' = call => Moves(t)
  BY <1>0 DEF Goto, Moves
<1>3. \A l : Goto(t, l) => \A u \in Threads : u # t => pc'[u] = pc[u]
  BY <1>0 DEF Goto
<1>4. CASE Map(t)
  BY <1>0, <1>1, <1>2, <1>3, <1>4
  DEF Map, MapRefused, MapReserve, MapReserveFails, MapPool, MapPoolFails, AllocNext, AllocDone,
      AllocFails, Moves, table
<1>5. CASE Unmap(t)
  BY <1>0, <1>1, <1>2, <1>3, <1>5
  DEF Unmap, UnmapRefused, UnmapLock, UnmapSkip, UnmapWhole, UnmapHead, UnmapTail, UnmapSplit,
      UnmapNoRoom, UnmapDone, Moves, table
<1>6. CASE Remap(t)
  BY <1>0, <1>1, <1>2, <1>6
  DEF Remap, RemapMapped, RemapUnmapped, ResizeSame, ResizeShrink, ResizeGrow, ResizeRefused,
      RemapCopy, table
<1>7. CASE \/ MmapFill(t) \/ MmapReadFails(t) \/ KeepWritable(t) \/ Protect(t)
           \/ Discard(t) \/ DiscardFails(t) \/ DiscardRefused(t) \/ Fault(t)
  BY <1>0, <1>1, <1>2, <1>3, <1>7
  DEF MmapFill, MmapReadFails, KeepWritable, Protect, AfterProtect, Discard, DiscardFails,
      DiscardRefused, Fault, Moves, table
<1> QED
  BY <1>4, <1>5, <1>6, <1>7 DEF InCall

(* A step on the table is taken with the mutex, while the library is ready. *)
TakesTurn(t) ==
    /\ Moves(t) /\ mman_ready' = mman_ready
    /\ mman_ready \/ (regions' = regions /\ pc'[t] \notin Loops)
    /\ \/ mutex \in {t, NoThread}
       \/ regions' = regions /\ \A p \in Pages : hold'[p] \in {hold[p], NoThread}

LEMMA PageStep ==
    ASSUME IInv, PagesInv, NEW t \in Threads, TakesTurn(t), UnmappingAt(t)',
           \A p \in Pages : PageAt(p)'
    PROVE  PagesInv'
<1>1. StoppedEmpty'
  BY DEF PagesInv, StoppedEmpty, TakesTurn, Moves
<1>2. ASSUME NEW u \in Threads PROVE UnmappingAt(u)'
  <2>1. CASE u = t
    BY <2>1
  <2>2. CASE u # t /\ pc[u] # "unmapping"
    BY <2>2 DEF TakesTurn, Moves, UnmappingAt
  <2>3. CASE u # t /\ pc[u] = "unmapping"
    <3>1. mutex = u
      BY <2>3 DEF IInv, OneHolder, Loops
    <3>2. regions' = regions /\ \A p \in Pages : hold'[p] \in {hold[p], NoThread}
      BY <2>3, <3>1, MmanAssumption DEF TakesTurn
    <3>3. pc'[u] = pc[u] /\ call'[u] = call[u]
      BY <2>3 DEF TakesTurn, Moves
    <3>4. RangeOf(u) \subseteq Pages
      BY PageTypes DEF RangeOf
    <3>5. UnmappingAt(u)
      BY DEF PagesInv
    <3> QED
      BY <2>3, <3>2, <3>3, <3>4, <3>5 DEF UnmappingAt, RangeOf
  <2> QED
    BY <2>1, <2>2, <2>3
<1> QED
  BY <1>1, <1>2 DEF PagesInv

(* A page that the step leaves alone.                                       *)
SameAt(p) ==
    /\ hold'[p] = hold[p] /\ ProtsOf(regions', p) = ProtsOf(regions, p)
    /\ p \in holes' <=> p \in holes
    /\ p \in diverged' <=> p \in diverged
    /\ p \in stranded' <=> p \in stranded
    /\ p \in DOMAIN backing' <=> p \in DOMAIN backing
    /\ p \in DOMAIN backing => backing'[p] = backing[p]

LEMMA SamePage ==
    ASSUME NEW t \in Threads, Moves(t), NEW p \in Pages, PageAt(p), SameAt(p),
           Unmaps(t, p) /\ ProtsOf(regions, p) # {}
               => Unmaps(t, p)' \/ hold[p] # NoThread
    PROVE  PageAt(p)'
<1>1. ASSUME NEW u \in Threads, Unmaps(u, p), ProtsOf(regions, p) # {}
      PROVE  Unmaps(u, p)' \/ hold[p] # NoThread
  BY <1>1 DEF Moves, Unmaps, RangeOf
<1> QED
  BY <1>1 DEF PageAt, SameAt

(* A step that leaves all of them alone.                                    *)
Untouched == UNCHANGED <<regions, backing, hold, holes, diverged, stranded>>

LEMMA QuietPages ==
    ASSUME IInv, PagesInv, NEW t \in Threads, Moves(t), Untouched, mman_ready' = mman_ready,
           mman_ready \/ pc'[t] \notin Loops, UnmappingAt(t)',
           \A p \in Pages : Unmaps(t, p) /\ ProtsOf(regions, p) # {}
               => Unmaps(t, p)' \/ hold[p] # NoThread
    PROVE  PagesInv'
<1>1. TakesTurn(t)
  BY DEF TakesTurn, Untouched
<1>2. ASSUME NEW p \in Pages PROVE PageAt(p)'
  <2>1. SameAt(p) /\ PageAt(p)
    BY DEF SameAt, Untouched, PagesInv
  <2> QED
    BY <2>1, SamePage
<1> QED
  BY <1>1, <1>2, PageStep

LEMMA PlainPages ==
    ASSUME IInv, PagesInv, NEW t \in Threads, Moves(t), Untouched, mman_ready' = mman_ready,
           pc[t] \notin {"unmap", "unmapping"},
           pc'[t] # "unmapping" /\ (pc'[t] = "alloc" => mman_ready)
    PROVE  PagesInv'
<1>1. UnmappingAt(t)'
  BY DEF UnmappingAt
<1>2. \A p : ~Unmaps(t, p)
  BY DEF Unmaps
<1> QED
  BY <1>1, <1>2, QuietPages DEF Loops

-----------------------------------------------------------------------------
(* Steps that touch no page.                                                *)
LEMMA RequestPages ==
    ASSUME IInv, PagesInv, NEW t \in Threads, Request(t), ~mprotect(t)
    PROVE  PagesInv' /\ pc[t] = "idle" /\ Untouched
<1>0. pc \in [Threads -> Labels] /\ Moves(t) /\ mman_ready' = mman_ready
  BY RequestMoves DEF IInv, TypeOK
<1>1. \A l, c : Begin(t, l, c) => pc[t] = "idle" /\ pc'[t] = l
  BY <1>0 DEF Begin, Goto
<1>2. pc[t] = "idle" /\ pc'[t] \in {"idle", "map", "unmap", "discard", "remap"} /\ Untouched
  BY <1>0, <1>1
  DEF Request, Mmap, Munmap, Madvise, Mremap, Store, Untouched, table, kernel, ghosts
<1> QED
  BY <1>0, <1>2, PlainPages

LEMMA QuietMapPages ==
    ASSUME IInv, PagesInv, NEW t \in Threads, InCall(t),
           \/ MapRefused(t) \/ MapReserveFails(t) \/ MapPool(t) \/ MapPoolFails(t)
           \/ AllocNext(t) \/ AllocFails(t)
    PROVE  PagesInv' /\ pc[t] \in {"map", "alloc"} /\ Untouched
<1>0. pc \in [Threads -> Labels] /\ Moves(t) /\ mman_ready' = mman_ready
  BY CallMoves DEF IInv, TypeOK
<1>1. \A l : Goto(t, l) => pc'[t] = l
  BY <1>0 DEF Goto
<1>2. pc[t] \in {"map", "alloc"} /\ Untouched
  BY DEF MapRefused, MapReserveFails, MapPool, MapPoolFails, AllocNext, AllocFails, Allocating,
         Mapping, Untouched, table, kernel, ghosts
<1>3. pc[t] = "alloc" => mman_ready
  BY DEF PagesInv, StoppedEmpty, Loops
<1>4. pc'[t] # "unmapping" /\ (pc'[t] = "alloc" => mman_ready)
  BY <1>0, <1>1, <1>2, <1>3
  DEF MapRefused, MapReserveFails, MapPool, MapPoolFails, AllocNext, AllocFails, Allocating,
      Mapping, MapOk, Return
<1> QED
  BY <1>0, <1>2, <1>4, PlainPages

LEMMA QuietCallPages ==
    ASSUME IInv, PagesInv, NEW t \in Threads, InCall(t),
           \/ MmapFill(t) \/ KeepWritable(t) \/ DiscardRefused(t) \/ RemapMapped(t)
           \/ RemapUnmapped(t) \/ ResizeSame(t) \/ ResizeRefused(t) \/ RemapCopy(t) \/ Fault(t)
    PROVE  PagesInv' /\ Untouched
<1>0. pc \in [Threads -> Labels] /\ Moves(t) /\ mman_ready' = mman_ready
  BY CallMoves DEF IInv, TypeOK
<1>1. \A l : Goto(t, l) => pc'[t] = l
  BY <1>0 DEF Goto
<1>2. pc[t] \notin {"unmap", "unmapping"} /\ Untouched
  BY DEF MmapFill, KeepWritable, DiscardRefused, RemapMapped, RemapUnmapped, ResizeSame, Resizing,
         ResizeRefused, RemapCopy, Fault, Untouched, table, kernel, ghosts
<1>3. pc'[t] \notin {"alloc", "unmapping"}
  BY <1>1
  DEF MmapFill, KeepWritable, AfterProtect, DiscardRefused, RemapMapped, RemapUnmapped,
      ResizeSame, ResizeRefused, RemapCopy, Fault, Return
<1> QED
  BY <1>0, <1>2, <1>3, PlainPages

LEMMA CallFacts ==
    ASSUME IInv, NEW t \in Threads
    PROVE  /\ call \in [Threads -> CallType] /\ call[t] \in CallType
           /\ call[t].addr \in Pages /\ call[t].base \in Pages
           /\ call[t].addr \in Nat /\ call[t].base \in Nat /\ call[t].i \in Nat
           /\ call[t].len \in Nat /\ call[t].new \in Nat
           /\ call[t].len <= AddrSpace /\ call[t].new <= AddrSpace
<1>1. call \in [Threads -> CallType] /\ call[t] \in CallType
  BY DEF IInv, TypeOK
<1>2. /\ call[t].addr \in Pages /\ call[t].base \in Pages /\ call[t].i \in Nat
      /\ call[t].len \in 0..AddrSpace /\ call[t].new \in 0..AddrSpace
  BY <1>1 DEF CallType
<1>3. call[t].addr \in Nat /\ call[t].base \in Nat
  BY <1>2, PageTypes
<1>4. /\ call[t].len \in Nat /\ call[t].new \in Nat
      /\ call[t].len <= AddrSpace /\ call[t].new <= AddrSpace
  BY <1>2, MmanAssumption
<1> QED
  BY <1>1, <1>2, <1>3, <1>4

(* The range of a call that unmaps does not wrap around.                    *)
LEMMA UnmapRange ==
    ASSUME IInv, NEW t \in Threads, pc[t] \in {"unmap", "unmapping"}
    PROVE  /\ call[t] \in CallType /\ call[t].addr \in Nat /\ call[t].len \in Nat
           /\ UnmapLen(t) = call[t].len /\ UnmapEnd(t) = call[t].addr + call[t].len
           /\ RangeOf(t) \subseteq Pages
           /\ \A p \in Pages : p \in RangeOf(t) <=> call[t].addr <= p /\ p < UnmapEnd(t)
<1>1. call[t] \in CallType
  BY CallFacts
<1>2. call[t].addr \in Nat /\ call[t].len \in Nat
  BY CallFacts
<1>3. call[t].addr + call[t].len < AddrSpace
  BY DEF IInv, LocalsAt, NoWrap
<1>4. UnmapLen(t) = call[t].len /\ UnmapEnd(t) = call[t].addr + call[t].len
  BY <1>2, <1>3, MmanAssumption DEF UnmapLen, UnmapEnd, MMAN_PAGE_ALIGN, Plus
<1> QED
  BY <1>1, <1>2, <1>4, PageTypes DEF RangeOf, PagesOf

(* A refused unmap had nothing to unmap.                                    *)
LEMMA UnmapRefusedPages ==
    ASSUME IInv, PagesInv, NEW t \in Threads, UnmapRefused(t)
    PROVE  PagesInv'
<1>0. pc \in [Threads -> Labels] /\ Moves(t) /\ mman_ready' = mman_ready
  BY CallMoves DEF IInv, TypeOK, InCall, Unmap
<1>1. pc[t] = "unmap" /\ pc'[t] = "idle" /\ Untouched
  BY <1>0 DEF UnmapRefused, Return, Goto, Untouched, table, kernel, ghosts
<1>2. ASSUME NEW p \in Pages, Unmaps(t, p), ProtsOf(regions, p) # {} PROVE FALSE
  <2>0. p \in Nat
    BY PageTypes
  <2>1. call[t].len # 0
    BY <1>1, <1>2, <2>0, UnmapRange DEF Unmaps
  <2>2. ~mman_ready
    BY <1>1, <2>1, UnmapRange DEF UnmapRefused
  <2>3. regions = <<>>
    BY <2>2 DEF PagesInv, StoppedEmpty
  <2> QED
    BY <1>2, <2>3, EmptyProts
<1>3. UnmappingAt(t)'
  BY <1>1 DEF UnmappingAt
<1> QED
  BY <1>0, <1>1, <1>2, <1>3, QuietPages DEF Loops

(* The loop of __mman_unmap passes a region without a page of the range, or *)
(* ends when it has passed them all.                                        *)
LEMMA UnmapSkipPages ==
    ASSUME IInv, PagesInv, NEW t \in Threads, UnmapSkip(t)
    PROVE  PagesInv'
<1>0. /\ pc \in [Threads -> Labels] /\ Moves(t) /\ mman_ready' = mman_ready
      /\ call \in [Threads -> CallType] /\ call[t] \in CallType /\ call[t].i \in Nat
  BY CallMoves, CallFacts DEF IInv, TypeOK, InCall, Unmap
<1>1. /\ pc[t] = "unmapping" /\ call[t].i <= Len(regions) /\ ~Touched(t) /\ pc' = pc
      /\ call' = [call EXCEPT ![t].i = @ + 1] /\ Untouched
  BY DEF UnmapSkip, InLoop, Untouched, table, kernel, ghosts
<1>2. /\ call'[t].i = call[t].i + 1 /\ call'[t].addr = call[t].addr
      /\ call'[t].len = call[t].len
  BY <1>0, <1>1 DEF CallType
<1>3. RangeOf(t)' = RangeOf(t)
  BY <1>2 DEF RangeOf
<1>4. mman_ready
  BY <1>1 DEF PagesInv, StoppedEmpty, Loops
<1>5. call[t].i \in 1..Len(regions)
  <2>1. call[t].i >= 1
    BY <1>1 DEF IInv, LocalsAt
  <2>2. Len(regions) \in Nat
    BY TableType DEF IInv, TypeOK
  <2> QED
    BY <1>0, <1>1, <2>1, <2>2
<1>6. ASSUME NEW p \in RangeOf(t), InRegion(Rgn(t), p) PROVE FALSE
  <2>1. /\ p \in Nat /\ call[t].addr <= p /\ p < UnmapEnd(t) /\ call[t].addr \in Nat
        /\ UnmapEnd(t) \in Nat
    <3>1. /\ call[t].addr \in Nat /\ call[t].len \in Nat
          /\ UnmapEnd(t) = call[t].addr + call[t].len /\ RangeOf(t) \subseteq Pages
          /\ \A x \in Pages : x \in RangeOf(t) <=> call[t].addr <= x /\ x < UnmapEnd(t)
      BY <1>1, UnmapRange
    <3>2. p \in Pages /\ p \in Nat
      BY <3>1, PageTypes
    <3>3. call[t].addr <= p /\ p < UnmapEnd(t)
      BY <3>1, <3>2
    <3> QED
      BY <3>1, <3>2, <3>3
  <2>2. Rgn(t).addr \in Nat /\ End(Rgn(t)) \in Nat
    BY <1>5, Neighbours DEF Rgn
  <2>3. ~(End(Rgn(t)) > call[t].addr /\ Rgn(t).addr < UnmapEnd(t))
    BY <1>1 DEF Touched, InLoop
  <2> QED
    BY <1>6, <2>1, <2>2, <2>3 DEF InRegion
<1>7. UnmappingAt(t)'
  <2>1. ASSUME NEW j \in 1..Len(regions), j < call[t].i + 1, NEW p \in RangeOf(t)
        PROVE  ~InRegion(regions[j], p)
    <3>1. CASE j = call[t].i
      BY <3>1, <1>6 DEF Rgn
    <3>2. CASE j < call[t].i
      BY <3>2, <1>1 DEF PagesInv, UnmappingAt
    <3> QED
      BY <2>1, <3>1, <3>2, <1>0
  <2>2. \A p \in RangeOf(t) : hold[p] = NoThread
    BY <1>1 DEF PagesInv, UnmappingAt
  <2> QED
    BY <1>1, <1>2, <1>3, <2>1, <2>2 DEF UnmappingAt, Untouched
<1>8. \A p \in Pages : Unmaps(t, p) => Unmaps(t, p)'
  BY <1>1, <1>3 DEF Unmaps
<1> QED
  BY <1>0, <1>1, <1>4, <1>7, <1>8, QuietPages

LEMMA UnmapDonePages ==
    ASSUME IInv, PagesInv, NEW t \in Threads, UnmapDone(t)
    PROVE  PagesInv'
<1>0. pc \in [Threads -> Labels] /\ Moves(t) /\ mman_ready' = mman_ready
  BY CallMoves DEF IInv, TypeOK, InCall, Unmap
<1>1. pc[t] = "unmapping" /\ ~(call[t].i <= Len(regions)) /\ pc'[t] = "idle" /\ Untouched
  BY <1>0 DEF UnmapDone, InLoop, Return, Goto, Untouched, table, kernel, ghosts
<1>2. ASSUME NEW p \in Pages, Unmaps(t, p) PROVE ProtsOf(regions, p) = {}
  <2>1. \A j \in 1..Len(regions) : ~InRegion(regions[j], p)
    <3>1. call[t].i \in Nat /\ Len(regions) \in Nat
      BY CallFacts, TableType DEF IInv, TypeOK
    <3>2. \A j \in 1..Len(regions) : j < call[t].i
      BY <1>1, <3>1
    <3> QED
      BY <1>1, <1>2, <3>2 DEF PagesInv, UnmappingAt, Unmaps
  <2> QED
    BY <2>1, NoProt, PageTypes DEF IInv, TypeOK
<1>3. UnmappingAt(t)'
  BY <1>1 DEF UnmappingAt
<1> QED
  BY <1>0, <1>1, <1>2, <1>3, QuietPages DEF Loops

LEMMA FillAt ==
    ASSUME NEW f, NEW S, NEW v, NEW p \in Pages
    PROVE  Fill(f, S, v)[p] = IF p \in S THEN v ELSE f[p]
BY DEF Fill

(* The application gives pages up that the call goes on to unmap.           *)
LEMMA DropPages ==
    ASSUME IInv, PagesInv, NEW t \in Threads, Moves(t), NEW S, Drop(S),
           UNCHANGED <<regions, backing, holes, diverged, stranded>>,
           mman_ready' = mman_ready, mman_ready \/ pc'[t] \notin Loops, UnmappingAt(t)',
           \A p \in Pages : Unmaps(t, p) \/ p \in S => Unmaps(t, p)'
    PROVE  PagesInv'
<1>1. \A p \in Pages : hold'[p] = IF p \in S THEN NoThread ELSE hold[p]
  BY FillAt DEF Drop
<1>2. TakesTurn(t)
  BY <1>1 DEF TakesTurn
<1>3. ASSUME NEW p \in Pages PROVE PageAt(p)'
  <2>0. PageAt(p)
    BY DEF PagesInv
  <2>1. CASE p \in S
    <3>1. hold'[p] = NoThread /\ Unmaps(t, p)'
      BY <1>1, <2>1
    <3> QED
      BY <2>0, <3>1 DEF PageAt
  <2>2. CASE p \notin S
    <3>1. SameAt(p)
      BY <1>1, <2>2 DEF SameAt
    <3> QED
      BY <2>0, <3>1, SamePage
  <2> QED
    BY <2>1, <2>2
<1> QED
  BY <1>2, <1>3, PageStep

LEMMA UnmapLockPages ==
    ASSUME IInv, PagesInv, NEW t \in Threads, UnmapLock(t)
    PROVE  PagesInv' /\ Drop(RangeOf(t)) /\ pc[t] = "unmap" /\ pc'[t] = "unmapping"
           /\ RangeOf(t)' = RangeOf(t)
           /\ UNCHANGED <<regions, backing, holes, diverged, stranded, mem, expect>>
<1>0. /\ pc \in [Threads -> Labels] /\ Moves(t) /\ mman_ready' = mman_ready
      /\ call \in [Threads -> CallType] /\ call[t] \in CallType /\ call[t].i \in Nat
  BY CallMoves, CallFacts DEF IInv, TypeOK, InCall, Unmap
<1>1. /\ pc[t] = "unmap" /\ mman_ready /\ Goto(t, "unmapping")
      /\ call' = [call EXCEPT ![t].i = 1]
      /\ Drop(PagesOf(call[t].addr, UnmapLen(t)))
      /\ UNCHANGED <<regions, backing, holes, diverged, stranded, mem, expect>>
  BY DEF UnmapLock, table, kernel
<1>2. /\ call'[t].i = 1 /\ call'[t].addr = call[t].addr /\ call'[t].len = call[t].len
      /\ pc'[t] = "unmapping"
  BY <1>0, <1>1 DEF CallType, Goto
<1>3. RangeOf(t)' = RangeOf(t) /\ RangeOf(t) \subseteq Pages
  BY <1>2, PageTypes DEF RangeOf
<1>4. Drop(RangeOf(t))
  BY <1>1, UnmapRange DEF RangeOf
<1>5. UnmappingAt(t)'
  <2>1. \A p \in RangeOf(t) : hold'[p] = NoThread
    BY <1>3, <1>4, FillAt DEF Drop
  <2>2. ~ \E j \in 1..Len(regions') : j < call'[t].i
    BY <1>2
  <2> QED
    BY <1>2, <1>3, <2>1, <2>2 DEF UnmappingAt
<1>6. \A p \in Pages : Unmaps(t, p) \/ p \in RangeOf(t) => Unmaps(t, p)'
  BY <1>2, <1>3 DEF Unmaps
<1>7. PICK S : S = RangeOf(t)
  OBVIOUS
<1>8. PagesInv'
  BY <1>0, <1>1, <1>4, <1>5, <1>6, <1>7, DropPages
<1> QED
  BY <1>1, <1>2, <1>3, <1>4, <1>8

LEMMA MapLenNew ==
    ASSUME NEW t, MapLen(t) # 0
    PROVE  MapLen(t) = call[t].new
BY DEF MapLen, MMAN_PAGE_ALIGN

LEMMA MmapReadFailsPages ==
    ASSUME IInv, PagesInv, NEW t \in Threads, MmapReadFails(t)
    PROVE  PagesInv' /\ pc[t] = "fill" /\ pc'[t] = "unmap" /\ call'[t].op = "mmap_file"
           /\ RangeOf(t)' = PagesOf(call[t].base, MapLen(t)) /\ Drop(RangeOf(t)')
           /\ UNCHANGED <<regions, backing, holes, diverged, stranded, expect>>
<1>0. /\ pc \in [Threads -> Labels] /\ Moves(t) /\ mman_ready' = mman_ready
      /\ call \in [Threads -> CallType] /\ call[t] \in CallType
  BY CallMoves, CallFacts DEF IInv, TypeOK, InCall
<1>1. /\ pc[t] = "fill" /\ Goto(t, "unmap") /\ call[t].op = "mmap_file"
      /\ call' = [call EXCEPT ![t].addr = call[t].base, ![t].len = call[t].new]
      /\ Drop(PagesOf(call[t].base, MapLen(t)))
      /\ UNCHANGED <<regions, backing, holes, diverged, stranded, expect>>
  BY DEF MmapReadFails, table, kernel
<1>2. MapLen(t) = call[t].new
  BY <1>1, MapLenNew DEF IInv, LocalsAt
<1>3. /\ call'[t].addr = call[t].base /\ call'[t].len = call[t].new /\ pc'[t] = "unmap"
      /\ call'[t].op = call[t].op
  BY <1>0, <1>1 DEF CallType, Goto
<1>4. RangeOf(t)' = PagesOf(call[t].base, MapLen(t))
  BY <1>2, <1>3 DEF RangeOf
<1>5. PICK S : S = PagesOf(call[t].base, MapLen(t))
  OBVIOUS
<1>6. \A p \in Pages : Unmaps(t, p) \/ p \in S => Unmaps(t, p)'
  BY <1>1, <1>3, <1>4, <1>5 DEF Unmaps
<1>7. UnmappingAt(t)' /\ pc'[t] \notin Loops
  BY <1>3 DEF UnmappingAt, Loops
<1>8. PagesInv'
  BY <1>0, <1>1, <1>5, <1>6, <1>7, DropPages
<1> QED
  BY <1>1, <1>3, <1>4, <1>8

-----------------------------------------------------------------------------
(* Steps that take pages out of the table.                                  *)
GoneAt(p) ==
    /\ ProtsOf(regions', p) = {} /\ expect'[p] = "any"
    /\ p \notin holes' /\ p \notin diverged' /\ p \notin stranded'
    /\ HaveKubridge => p \notin DOMAIN backing'
CutEffect(S) ==
    /\ \A p \in S : GoneAt(p)
    /\ \A p \in Pages \ S : SameAt(p) /\ expect'[p] = expect[p]

LEMMA CutEffectOf ==
    ASSUME IInv, NEW S \in SUBSET Pages, Forget(S), NEW k \in 1..Len(regions),
           backing' = IF regions[k].uid = PoolUid THEN backing ELSE Decommit(S),
           \A p \in Pages : ProtsOf(regions', p) = IF p \in S THEN {} ELSE ProtsOf(regions, p),
           \A p \in Pages \ S : hold'[p] = hold[p]
    PROVE  CutEffect(S)
<1>1. regions[k].uid = PoolUid <=> ~HaveKubridge
  BY DEF IInv, TableInv, OneBackend
<1>2. \A p \in Pages : expect'[p] = IF p \in S THEN "any" ELSE expect[p]
  BY FillAt DEF Forget
<1>3. /\ HaveKubridge => DOMAIN backing' = DOMAIN backing \ S
      /\ ~HaveKubridge => backing' = backing
      /\ \A p \in DOMAIN backing \ S : backing'[p] = backing[p]
  BY <1>1 DEF Decommit
<1>4. holes' = holes \ S /\ diverged' = diverged \ S /\ stranded' = stranded \ S
  BY DEF Forget
<1>5. ASSUME NEW p \in S PROVE GoneAt(p)
  BY <1>2, <1>3, <1>4 DEF GoneAt
<1>6. ASSUME NEW p \in Pages \ S PROVE SameAt(p) /\ expect'[p] = expect[p]
  BY <1>2, <1>3, <1>4 DEF SameAt
<1> QED
  BY <1>5, <1>6 DEF CutEffect

LEMMA CutPages ==
    ASSUME IInv, PagesInv, NEW t \in Threads, TakesTurn(t), NEW S \in SUBSET Pages, CutEffect(S),
           \A p \in S : hold'[p] = NoThread, UnmappingAt(t)',
           \A p \in Pages \ S : Unmaps(t, p) /\ ProtsOf(regions, p) # {}
               => Unmaps(t, p)' \/ hold[p] # NoThread
    PROVE  PagesInv'
<1>1. ASSUME NEW p \in Pages PROVE PageAt(p)'
  <2>1. CASE p \in S
    <3>1. GoneAt(p) /\ hold'[p] = NoThread
      BY <2>1 DEF CutEffect
    <3> QED
      BY <3>1 DEF GoneAt, PageAt
  <2>2. CASE p \notin S
    <3>1. SameAt(p) /\ PageAt(p) /\ Moves(t)
      BY <2>2 DEF CutEffect, PagesInv, TakesTurn
    <3> QED
      BY <2>2, <3>1, SamePage
  <2> QED
    BY <2>1, <2>2
<1> QED
  BY <1>1, PageStep

(* What the loop of __mman_unmap cuts is the part of the region that lies   *)
(* in the range.                                                            *)
LEMMA CutIs ==
    ASSUME IInv, NEW t \in Threads, Touched(t)
    PROVE  /\ Cut(t) \in SUBSET Pages /\ Cut(t) \subseteq RangeOf(t)
           /\ \A p \in Pages : p \in Cut(t) <=> us(t) <= p /\ p < ue(t)
           /\ \A p \in Pages : p \in Cut(t) <=> InRegion(Rgn(t), p) /\ p \in RangeOf(t)
<1>1. /\ call[t].i \in 1..Len(regions) /\ pc[t] = "unmapping"
      /\ Rgn(t).addr \in Nat /\ Rgn(t).len \in Nat /\ End(Rgn(t)) = Rgn(t).addr + Rgn(t).len
      /\ us(t) \in Nat /\ ue(t) \in Nat /\ us(t) <= ue(t)
  BY CutFacts
<1>2. /\ call[t].addr \in Nat /\ call[t].len \in Nat
      /\ UnmapEnd(t) = call[t].addr + call[t].len
      /\ \A p \in Pages : p \in RangeOf(t) <=> call[t].addr <= p /\ p < UnmapEnd(t)
  BY <1>1, UnmapRange
<1>3. ASSUME NEW p \in Pages PROVE p \in Cut(t) <=> us(t) <= p /\ p < ue(t)
  <2>1. p \in Nat
    BY PageTypes
  <2>2. us(t) + (ue(t) - us(t)) = ue(t)
    BY <1>1
  <2> QED
    BY <2>1, <2>2 DEF Cut, PagesOf
<1>4. ASSUME NEW p \in Pages
      PROVE  us(t) <= p /\ p < ue(t) <=> InRegion(Rgn(t), p) /\ p \in RangeOf(t)
  <2>1. p \in Nat
    BY PageTypes
  <2>2. us(t) <= p <=> call[t].addr <= p /\ Rgn(t).addr <= p
    BY <2>1, <1>1, <1>2 DEF us
  <2>3. p < ue(t) <=> p < UnmapEnd(t) /\ p < End(Rgn(t))
    BY <2>1, <1>1, <1>2 DEF ue
  <2> QED
    BY <2>2, <2>3, <1>2 DEF InRegion
<1>5. Cut(t) \in SUBSET Pages
  BY PageTypes DEF Cut
<1> QED
  BY <1>3, <1>4, <1>5

(* The page of a cut is nobody's: __mman_unmap was given the whole range.   *)
LEMMA CutNobodys ==
    ASSUME IInv, PagesInv, NEW t \in Threads, Touched(t)
    PROVE  mman_ready /\ \A p \in Cut(t) : hold[p] = NoThread
<1>1. pc[t] = "unmapping" /\ Cut(t) \subseteq RangeOf(t)
  BY CutFacts, CutIs
<1> QED
  BY <1>1 DEF PagesInv, UnmappingAt, StoppedEmpty, Loops

LEMMA UnmapWholePages ==
    ASSUME IInv, PagesInv, NEW t \in Threads, UnmapWhole(t)
    PROVE  PagesInv' /\ CutEffect(Cut(t)) /\ UNCHANGED <<pc, call, hold, mem>>
<1>0. Moves(t) /\ mman_ready' = mman_ready
  BY CallMoves DEF InCall, Unmap
<1>1. /\ Touched(t) /\ us(t) = Rgn(t).addr /\ ue(t) = End(Rgn(t)) /\ DecommitCut(t)
      /\ regions' = region_remove(regions, call[t].i) /\ Forget(Cut(t))
      /\ UNCHANGED <<pc, call, hold, mem>>
  BY DEF UnmapWhole
<1>2. /\ call[t].i \in 1..Len(regions) /\ mutex = t /\ pc[t] = "unmapping"
      /\ Rgn(t) = regions[call[t].i]
  BY <1>1, CutFacts
<1>3. /\ Cut(t) \in SUBSET Pages
      /\ \A p \in Pages : p \in Cut(t) <=> InRegion(Rgn(t), p)
  BY <1>1, CutIs DEF InRegion
<1>4. regions \in Seq(Region) /\ Ordered(regions) /\ Len(regions) \in Nat
  BY <1>2, Neighbours
<1>5. \A p \in Pages : ProtsOf(regions', p) = IF p \in Cut(t) THEN {} ELSE ProtsOf(regions, p)
  <2> SUFFICES ASSUME NEW p \in Pages
               PROVE  ProtsOf(regions', p) = IF p \in Cut(t) THEN {} ELSE ProtsOf(regions, p)
    OBVIOUS
  <2>1. p \in Nat
    BY PageTypes
  <2>2. ProtsOf(regions', p) = IF InRegion(Rgn(t), p) THEN {} ELSE ProtsOf(regions, p)
    BY <2>1, <1>1, <1>2, <1>4, RemoveProts
  <2> QED
    BY <2>2, <1>3
<1>6. PICK S \in SUBSET Pages : S = Cut(t)
  BY <1>3
<1>7. CutEffect(S)
  <2>1. PICK k \in 1..Len(regions) : k = call[t].i
    BY <1>2
  <2>2. backing' = IF regions[k].uid = PoolUid THEN backing ELSE Decommit(S)
    BY <1>1, <1>2, <1>6, <2>1 DEF DecommitCut
  <2> QED
    BY <1>1, <1>5, <1>6, <2>2, CutEffectOf
<1>8. mman_ready /\ \A p \in S : hold'[p] = NoThread
  BY <1>1, <1>6, CutNobodys
<1>9. TakesTurn(t)
  BY <1>0, <1>2, <1>8 DEF TakesTurn
<1>10. UnmappingAt(t)'
  <2>1. /\ Len(regions') = Len(regions) - 1
        /\ \A j \in 1..(Len(regions) - 1) : j < call[t].i => regions'[j] = regions[j]
    <3>1. Len(regions') = Len(regions) - 1
      BY <1>1, <1>2, <1>4, RemoveOrdered
    <3> QED
      BY <3>1, <1>1 DEF region_remove
  <2>2. \A j \in 1..(Len(regions) - 1) : j \in 1..Len(regions)
    BY <1>4
  <2>3. UnmappingAt(t)
    BY DEF PagesInv
  <2> QED
    BY <1>1, <1>2, <2>1, <2>2, <2>3 DEF UnmappingAt, RangeOf
<1>11. \A p \in Pages : Unmaps(t, p) => Unmaps(t, p)'
  BY <1>1 DEF Unmaps, RangeOf
<1>12. PagesInv'
  BY <1>7, <1>8, <1>9, <1>10, <1>11, CutPages
<1> QED
  BY <1>1, <1>6, <1>7, <1>12

(* A region loses its head or its tail.                                     *)
LEMMA TrimPages ==
    ASSUME IInv, PagesInv, NEW t \in Threads, UnmapHead(t) \/ UnmapTail(t),
           NEW r \in Region, r.prot = Rgn(t).prot,
           \A p \in Pages : InRegion(r, p) <=> InRegion(Rgn(t), p) /\ p \notin Cut(t),
           regions' = Replaced(regions, call[t].i, r)
    PROVE  /\ PagesInv' /\ CutEffect(Cut(t)) /\ UNCHANGED <<pc, hold, mem>>
           /\ RangeOf(t)' = RangeOf(t) /\ call'[t].op = call[t].op
<1>0. /\ Moves(t) /\ mman_ready' = mman_ready /\ call \in [Threads -> CallType]
      /\ call[t] \in CallType /\ call[t].i \in Nat
  BY CallMoves, CallFacts DEF InCall, Unmap
<1>1. /\ Touched(t) /\ DecommitCut(t) /\ call' = [call EXCEPT ![t].i = @ + 1]
      /\ Forget(Cut(t)) /\ UNCHANGED <<pc, hold, mem>>
  BY DEF UnmapHead, UnmapTail
<1>2. PICK k \in 1..Len(regions) : k = call[t].i /\ Rgn(t) = regions[k]
  BY <1>1, CutFacts
<1>3. mutex = t /\ pc[t] = "unmapping"
  BY <1>1, CutFacts
<1>4. /\ Cut(t) \in SUBSET Pages /\ Cut(t) \subseteq RangeOf(t)
      /\ \A p \in Pages : p \in Cut(t) <=> InRegion(Rgn(t), p) /\ p \in RangeOf(t)
  BY <1>1, CutIs
<1>5. regions \in Seq(Region) /\ Ordered(regions) /\ Len(regions) \in Nat
  BY <1>2, Neighbours
<1>6. ASSUME NEW p \in Pages
      PROVE  ProtsOf(regions', p) = IF p \in Cut(t) THEN {} ELSE ProtsOf(regions, p)
  <2>1. p \in Nat
    BY PageTypes
  <2>2. /\ (InRegion(r, p) <=> InRegion(regions[k], p)) => ProtsOf(regions', p) = ProtsOf(regions, p)
        /\ InRegion(regions[k], p) /\ ~InRegion(r, p) => ProtsOf(regions', p) = {}
    BY <2>1, <1>2, <1>5, ReplaceProts
  <2> QED
    BY <2>2, <1>2, <1>4
<1>7. PICK S \in SUBSET Pages : S = Cut(t)
  BY <1>4
<1>8. CutEffect(S)
  <2>1. backing' = IF regions[k].uid = PoolUid THEN backing ELSE Decommit(S)
    BY <1>1, <1>2, <1>7 DEF DecommitCut
  <2> QED
    BY <1>1, <1>6, <1>7, <2>1, CutEffectOf
<1>9. mman_ready /\ \A p \in S : hold'[p] = NoThread
  BY <1>1, <1>7, CutNobodys
<1>10. TakesTurn(t)
  BY <1>0, <1>3, <1>9 DEF TakesTurn
<1>11. /\ call'[t].i = call[t].i + 1 /\ call'[t].addr = call[t].addr
       /\ call'[t].len = call[t].len /\ call'[t].op = call[t].op
  BY <1>0, <1>1 DEF CallType
<1>12. RangeOf(t)' = RangeOf(t) /\ RangeOf(t) \subseteq Pages
  BY <1>11, PageTypes DEF RangeOf
<1>13. UnmappingAt(t)'
  <2>1. /\ Len(regions') = Len(regions)
        /\ \A j \in 1..Len(regions) : regions'[j] = IF j = k THEN r ELSE regions[j]
    BY <1>2, <1>5, ExceptSeq DEF Replaced
  <2>2. UnmappingAt(t)
    BY DEF PagesInv
  <2>3. \A p \in RangeOf(t) : ~InRegion(r, p)
    BY <1>4, <1>12
  <2>4. ASSUME NEW j \in 1..Len(regions), j < call[t].i + 1, NEW p \in RangeOf(t)
        PROVE  ~InRegion(regions'[j], p)
    <3>1. CASE j = k
      BY <3>1, <2>1, <2>3
    <3>2. CASE j # k
      <4>1. j < call[t].i /\ regions'[j] = regions[j]
        BY <3>2, <2>1, <2>4, <1>0, <1>2
      <4> QED
        BY <4>1, <2>2, <1>3 DEF UnmappingAt
    <3> QED
      BY <3>1, <3>2
  <2>5. \A p \in RangeOf(t) : hold'[p] = NoThread
    BY <2>2, <1>1, <1>3 DEF UnmappingAt
  <2> QED
    BY <1>11, <1>12, <2>1, <2>4, <2>5 DEF UnmappingAt
<1>14. \A p \in Pages : Unmaps(t, p) => Unmaps(t, p)'
  BY <1>1, <1>12 DEF Unmaps
<1>15. PagesInv'
  BY <1>8, <1>9, <1>10, <1>13, <1>14, CutPages
<1> QED
  BY <1>1, <1>7, <1>8, <1>11, <1>12, <1>15

LEMMA UnmapHeadPages ==
    ASSUME IInv, PagesInv, NEW t \in Threads, UnmapHead(t)
    PROVE  /\ PagesInv' /\ CutEffect(Cut(t)) /\ UNCHANGED <<pc, hold, mem>>
           /\ RangeOf(t)' = RangeOf(t) /\ call'[t].op = call[t].op
<1>1. /\ Touched(t) /\ us(t) = Rgn(t).addr /\ ue(t) # End(Rgn(t))
      /\ regions' = [regions EXCEPT ![call[t].i].addr = ue(t),
                                    ![call[t].i].len = End(Rgn(t)) - ue(t)]
  BY DEF UnmapHead
<1>2. /\ Rgn(t) = regions[call[t].i] /\ Rgn(t) \in Region
      /\ Rgn(t).addr \in Nat /\ Rgn(t).len \in Pages /\ Rgn(t).len \in Nat
      /\ End(Rgn(t)) = Rgn(t).addr + Rgn(t).len
      /\ ue(t) \in Nat /\ ue(t) <= End(Rgn(t)) /\ Rgn(t).addr < ue(t) /\ ue(t) \in Pages
  BY <1>1, CutFacts
<1>3. PICK r : r = [Rgn(t) EXCEPT !.addr = ue(t), !.len = End(Rgn(t)) - ue(t)]
  OBVIOUS
<1>4. End(Rgn(t)) - ue(t) \in Pages
  <2>1. End(Rgn(t)) - ue(t) \in Int /\ 0 <= End(Rgn(t)) - ue(t) /\ End(Rgn(t)) - ue(t) <= Rgn(t).len
    BY <1>2
  <2> QED
    BY <2>1, <1>2, SmallerPage
<1>5. r \in Region /\ r.prot = Rgn(t).prot /\ r.addr = ue(t) /\ r.len = End(Rgn(t)) - ue(t)
  BY <1>2, <1>3, <1>4 DEF Region
<1>6. End(r) = End(Rgn(t))
  BY <1>2, <1>5 DEF End
<1>7. ASSUME NEW p \in Pages
      PROVE  InRegion(r, p) <=> InRegion(Rgn(t), p) /\ p \notin Cut(t)
  <2>1. p \in Nat
    BY PageTypes
  <2>2. p \in Cut(t) <=> Rgn(t).addr <= p /\ p < ue(t)
    BY <1>1, CutIs
  <2>3. InRegion(r, p) <=> ue(t) <= p /\ p < End(Rgn(t))
    BY <1>5, <1>6 DEF InRegion
  <2> QED
    BY <1>2, <2>1, <2>2, <2>3 DEF InRegion
<1>8. regions' = Replaced(regions, call[t].i, r)
  BY <1>1, <1>2, <1>3 DEF Replaced
<1> QED
  BY <1>5, <1>7, <1>8, TrimPages

LEMMA UnmapTailPages ==
    ASSUME IInv, PagesInv, NEW t \in Threads, UnmapTail(t)
    PROVE  /\ PagesInv' /\ CutEffect(Cut(t)) /\ UNCHANGED <<pc, hold, mem>>
           /\ RangeOf(t)' = RangeOf(t) /\ call'[t].op = call[t].op
<1>1. /\ Touched(t) /\ us(t) # Rgn(t).addr /\ ue(t) = End(Rgn(t))
      /\ regions' = [regions EXCEPT ![call[t].i].len = us(t) - Rgn(t).addr]
  BY DEF UnmapTail
<1>2. /\ Rgn(t) = regions[call[t].i] /\ Rgn(t) \in Region
      /\ Rgn(t).addr \in Nat /\ Rgn(t).len \in Pages /\ Rgn(t).len \in Nat
      /\ End(Rgn(t)) = Rgn(t).addr + Rgn(t).len
      /\ us(t) \in Nat /\ us(t) < End(Rgn(t)) /\ Rgn(t).addr <= us(t)
  BY <1>1, CutFacts
<1>3. PICK r : r = [Rgn(t) EXCEPT !.len = us(t) - Rgn(t).addr]
  OBVIOUS
<1>4. us(t) - Rgn(t).addr \in Pages
  <2>1. us(t) - Rgn(t).addr \in Int /\ 0 <= us(t) - Rgn(t).addr /\ us(t) - Rgn(t).addr <= Rgn(t).len
    BY <1>2
  <2> QED
    BY <2>1, <1>2, SmallerPage
<1>5. r \in Region /\ r.prot = Rgn(t).prot /\ r.addr = Rgn(t).addr /\ r.len = us(t) - Rgn(t).addr
  BY <1>2, <1>3, <1>4 DEF Region
<1>6. End(r) = us(t)
  BY <1>2, <1>5 DEF End
<1>7. ASSUME NEW p \in Pages
      PROVE  InRegion(r, p) <=> InRegion(Rgn(t), p) /\ p \notin Cut(t)
  <2>1. p \in Nat
    BY PageTypes
  <2>2. p \in Cut(t) <=> us(t) <= p /\ p < End(Rgn(t))
    BY <1>1, CutIs
  <2>3. InRegion(r, p) <=> Rgn(t).addr <= p /\ p < us(t)
    BY <1>5, <1>6 DEF InRegion
  <2> QED
    BY <1>2, <2>1, <2>2, <2>3 DEF InRegion
<1>8. regions' = Replaced(regions, call[t].i, r)
  BY <1>1, <1>2, <1>3 DEF Replaced
<1> QED
  BY <1>5, <1>7, <1>8, TrimPages

(* A region that is split contains the whole range.                         *)
LEMMA SplitRange ==
    ASSUME IInv, NEW t \in Threads, Splits(t)
    PROVE  RangeOf(t) = Cut(t) /\ Touched(t)
<1>1. Touched(t) /\ us(t) # Rgn(t).addr /\ ue(t) # End(Rgn(t))
  BY DEF Splits
<1>2. us(t) = call[t].addr /\ ue(t) = UnmapEnd(t)
  BY <1>1 DEF us, ue
<1>3. \A p \in Pages : p \in Cut(t) <=> p \in RangeOf(t)
  BY <1>1, <1>2, CutIs, CutFacts, UnmapRange
<1>4. Cut(t) \subseteq Pages /\ RangeOf(t) \subseteq Pages
  BY PageTypes DEF Cut, RangeOf
<1> QED
  BY <1>1, <1>3, <1>4

LEMMA UnmapSplitPages ==
    ASSUME IInv, IInv', PagesInv, NEW t \in Threads, UnmapSplit(t)
    PROVE  PagesInv' /\ CutEffect(Cut(t)) /\ UNCHANGED <<hold, mem>> /\ Return(t)
<1> DEFINE k == call[t].i
           r1 == [Rgn(t) EXCEPT !.len = us(t) - Rgn(t).addr]
           r2 == [addr |-> ue(t), len |-> End(Rgn(t)) - ue(t),
                  uid |-> Rgn(t).uid, prot |-> Rgn(t).prot]
<1>0. Moves(t) /\ mman_ready' = mman_ready
  BY CallMoves DEF InCall, Unmap
<1>1. /\ Touched(t) /\ us(t) # Rgn(t).addr /\ ue(t) # End(Rgn(t))
      /\ DecommitCut(t) /\ Forget(Cut(t)) /\ Return(t) /\ UNCHANGED <<hold, mem>>
  BY DEF UnmapSplit, Splits
<1>2. regions' = region_insert(Replaced(regions, k, r1), r2)
  BY DEF UnmapSplit, Replaced, Rgn
<1>3. /\ k \in 1..Len(regions) /\ Rgn(t) = regions[k] /\ Rgn(t) \in Region /\ mutex = t
      /\ pc[t] = "unmapping"
      /\ Rgn(t).addr \in Nat /\ Rgn(t).len \in Pages /\ Rgn(t).len \in Nat
      /\ End(Rgn(t)) = Rgn(t).addr + Rgn(t).len
      /\ us(t) \in Nat /\ ue(t) \in Nat /\ us(t) <= ue(t)
      /\ Rgn(t).addr <= us(t) /\ ue(t) <= End(Rgn(t)) /\ us(t) < End(Rgn(t))
      /\ Rgn(t).addr < ue(t) /\ ue(t) \in Pages
  BY <1>1, CutFacts
<1>4. us(t) - Rgn(t).addr \in Pages
  <2>0. /\ us(t) \in Nat /\ Rgn(t).addr \in Nat /\ Rgn(t).len \in Nat /\ Rgn(t).addr <= us(t)
        /\ us(t) < Rgn(t).addr + Rgn(t).len
    BY <1>3
  <2>1. us(t) - Rgn(t).addr \in Int /\ 0 <= us(t) - Rgn(t).addr /\ us(t) - Rgn(t).addr <= Rgn(t).len
    BY <2>0
  <2> QED
    BY <2>1, <1>3, SmallerPage
<1>5. End(Rgn(t)) - ue(t) \in Pages
  <2>1. End(Rgn(t)) - ue(t) \in Int /\ 0 <= End(Rgn(t)) - ue(t) /\ End(Rgn(t)) - ue(t) <= Rgn(t).len
    BY <1>3
  <2> QED
    BY <2>1, <1>3, SmallerPage
<1>6. /\ r1 \in Region /\ r1.addr = Rgn(t).addr /\ r1.len = us(t) - Rgn(t).addr
      /\ r1.prot = Rgn(t).prot
  BY <1>3, <1>4 DEF Region
<1>7. /\ r2 \in Region /\ r2.addr = ue(t) /\ r2.len = End(Rgn(t)) - ue(t) /\ r2.prot = Rgn(t).prot
  BY <1>3, <1>5 DEF Region
<1> HIDE DEF k, r1, r2
<1>8. End(r1) = us(t)
  BY <1>3, <1>6 DEF End
<1>9. End(r2) = End(Rgn(t))
  <2>1. End(r2) = ue(t) + (End(Rgn(t)) - ue(t))
    BY <1>7 DEF End
  <2> QED
    BY <2>1, <1>3
<1>10. regions \in Seq(Region) /\ Ordered(regions) /\ Ordered(regions')
  <2>1. regions \in Seq(Region) /\ Ordered(regions)
    BY DEF IInv, TypeOK, TableInv, RegionsDisjoint, Ordered
  <2>2. Ordered(regions')
    BY DEF IInv, TableInv, RegionsDisjoint, Ordered, End
  <2> QED
    BY <2>1, <2>2
<1>11. ASSUME NEW p \in Pages
       PROVE  ProtsOf(regions', p) = IF p \in Cut(t) THEN {} ELSE ProtsOf(regions, p)
  <2>1. p \in Nat
    BY PageTypes
  <2>2. End(r1) <= r2.addr
    BY <1>3, <1>7, <1>8
  <2>3. ProtsOf(regions', p) = IF End(r1) <= p /\ p < r2.addr THEN {} ELSE ProtsOf(regions, p)
    BY <2>1, <2>2, <1>2, <1>3, <1>6, <1>7, <1>9, <1>10, SplitProts
  <2>4. p \in Cut(t) <=> us(t) <= p /\ p < ue(t)
    BY <1>1, CutIs
  <2> QED
    BY <2>3, <2>4, <1>7, <1>8
<1>12. PICK S \in SUBSET Pages : S = Cut(t)
  BY <1>1, CutIs
<1>13. CutEffect(S)
  <2>1. PICK m \in 1..Len(regions) : m = k
    BY <1>3
  <2>2. backing' = IF regions[m].uid = PoolUid THEN backing ELSE Decommit(S)
    BY <1>1, <1>3, <1>12, <2>1 DEF DecommitCut
  <2> QED
    BY <1>1, <1>11, <1>12, <2>2, CutEffectOf
<1>14. mman_ready /\ \A p \in S : hold'[p] = NoThread
  BY <1>1, <1>12, CutNobodys
<1>15. TakesTurn(t)
  BY <1>0, <1>3, <1>14 DEF TakesTurn
<1>16. UnmappingAt(t)'
  BY <1>1, ReturnTypes DEF UnmappingAt
<1>17. \A p \in Pages \ S : ~Unmaps(t, p)
  <2>1. Splits(t)
    BY DEF UnmapSplit
  <2> QED
    BY <2>1, <1>12, SplitRange DEF Unmaps
<1>18. PagesInv'
  BY <1>13, <1>14, <1>15, <1>16, <1>17, CutPages
<1> QED
  BY <1>1, <1>12, <1>13, <1>18

(* Without room for the split the pages go back to the caller, or remain    *)
(* stranded behind mremap.                                                  *)
LEMMA UnmapNoRoomPages ==
    ASSUME IInv, PagesInv, NEW t \in Threads, UnmapNoRoom(t)
    PROVE  PagesInv'
<1>0. Moves(t) /\ mman_ready' = mman_ready
  BY CallMoves DEF InCall, Unmap
<1>1. /\ Splits(t) /\ DecommitCut(t) /\ Return(t)
      /\ holes' = IF Rgn(t).uid = PoolUid THEN holes ELSE holes \cup Cut(t)
      /\ IF call[t].op \in RemapCalls
         THEN stranded' = stranded \cup Cut(t) /\ UNCHANGED hold
         ELSE hold' = Fill(hold, Cut(t), t) /\ UNCHANGED stranded
      /\ UNCHANGED <<regions, diverged>>
  BY DEF UnmapNoRoom, table
<1>2. RangeOf(t) = Cut(t) /\ Touched(t)
  BY <1>1, SplitRange
<1>3. /\ call[t].i \in 1..Len(regions) /\ mutex = t /\ Rgn(t) = regions[call[t].i]
  BY <1>2, CutFacts
<1>4. Rgn(t).uid = PoolUid <=> ~HaveKubridge
  BY <1>3 DEF IInv, TableInv, OneBackend
<1>5. /\ HaveKubridge => DOMAIN backing' = DOMAIN backing \ Cut(t) /\ holes' = holes \cup Cut(t)
      /\ ~HaveKubridge => backing' = backing /\ holes' = holes
      /\ \A p \in DOMAIN backing \ Cut(t) : backing'[p] = backing[p]
  BY <1>1, <1>4 DEF DecommitCut, Decommit
<1>6. \A p \in Pages \ Cut(t) : hold'[p] = hold[p] /\ (p \in stranded' <=> p \in stranded)
  BY <1>1, FillAt
<1>7. \A p \in Cut(t) : p \in Pages /\ (hold'[p] = t \/ p \in stranded')
  <2>1. Cut(t) \subseteq Pages
    BY <1>2, CutIs
  <2> QED
    BY <2>1, <1>1, FillAt
<1>8. ASSUME NEW p \in Pages PROVE PageAt(p)'
  <2>0. PageAt(p)
    BY DEF PagesInv
  <2>1. CASE p \in Cut(t)
    <3>1. InRegion(regions[call[t].i], p)
      BY <2>1, <1>2, <1>3, CutIs
    <3>2. ProtsOf(regions, p) # {}
      BY <3>1, <1>3, NoProt, PageTypes DEF IInv, TypeOK
    <3>3. p \in holes' <=> HaveKubridge
      BY <2>0, <2>1, <1>5 DEF PageAt
    <3>4. t # NoThread
      BY MmanAssumption
    <3> QED
      BY <2>0, <2>1, <3>2, <3>3, <3>4, <1>1, <1>5, <1>7 DEF PageAt
  <2>2. CASE p \notin Cut(t)
    <3>1. SameAt(p)
      BY <2>2, <1>1, <1>5, <1>6 DEF SameAt
    <3>2. ~Unmaps(t, p)
      BY <2>2, <1>2 DEF Unmaps
    <3> QED
      BY <2>0, <3>1, <3>2, <1>0, SamePage
  <2> QED
    BY <2>1, <2>2
<1>9. TakesTurn(t)
  BY <1>0, <1>2, <1>3, CutNobodys DEF TakesTurn
<1>10. UnmappingAt(t)'
  BY <1>1, ReturnTypes DEF UnmappingAt
<1> QED
  BY <1>8, <1>9, <1>10, PageStep

LEMMA ResizeShrinkPages ==
    ASSUME IInv, PagesInv, NEW t \in Threads, ResizeShrink(t)
    PROVE  /\ PagesInv' /\ Return(t) /\ UNCHANGED mem /\ pc[t] = "resize"
           /\ \E S \in SUBSET RangeOf(t) : CutEffect(S) /\ \A p \in S : hold'[p] = NoThread
<1>0. Moves(t) /\ mman_ready' = mman_ready
  BY CallMoves DEF InCall, Remap
<1>1. Return(t) /\ UNCHANGED mem
  BY DEF ResizeShrink
<1>2. PICK k \in 1..Len(regions) :
          LET D == PagesOf(GrownEnd(t), regions[k].len - call[t].new)
          IN /\ Resizing(t, k) /\ call[t].new < regions[k].len
             /\ backing' = IF regions[k].uid = PoolUid THEN backing ELSE Decommit(D)
             /\ regions' = [regions EXCEPT ![k].len = call[t].new]
             /\ Drop(D) /\ Forget(D)
  BY DEF ResizeShrink
<1>3. PICK S : S = PagesOf(GrownEnd(t), regions[k].len - call[t].new)
  OBVIOUS
<1>4. /\ call[t].new < regions[k].len
      /\ backing' = IF regions[k].uid = PoolUid THEN backing ELSE Decommit(S)
      /\ regions' = [regions EXCEPT ![k].len = call[t].new]
      /\ Drop(S) /\ Forget(S)
  BY <1>2, <1>3
<1>5. /\ pc[t] = "resize" /\ mutex = NoThread /\ mman_ready
      /\ regions[k].addr = call[t].addr /\ regions[k].len = MMAN_PAGE_ALIGN(call[t].len)
  BY <1>2 DEF Resizing, Free
<1>6. /\ call[t].addr \in Nat /\ call[t].len \in Nat /\ call[t].new \in Nat
      /\ call[t].addr + call[t].len < AddrSpace
  BY <1>5, CallFacts DEF IInv, LocalsAt, NoWrap
<1>7. regions[k].len = call[t].len
  BY <1>5, <1>6, MmanAssumption DEF MMAN_PAGE_ALIGN
<1>8. /\ regions \in Seq(Region) /\ Ordered(regions) /\ regions[k] \in Region
      /\ regions[k].addr \in Nat /\ regions[k].len \in Nat
      /\ End(regions[k]) = regions[k].addr + regions[k].len
  BY Neighbours
<1>9. call[t].new \in Pages
  <2>1. regions[k].len \in Pages /\ call[t].new \in Int /\ 0 <= call[t].new
        /\ call[t].new <= regions[k].len
    BY <1>4, <1>6, <1>8 DEF Region
  <2> QED
    BY <2>1, SmallerPage
<1>10. PICK r : r = [regions[k] EXCEPT !.len = call[t].new]
  OBVIOUS
<1>11. r \in Region /\ r.prot = regions[k].prot /\ r.addr = regions[k].addr /\ r.len = call[t].new
  BY <1>8, <1>9, <1>10 DEF Region
<1>12. regions' = Replaced(regions, k, r)
  BY <1>4, <1>10 DEF Replaced
<1>13. ASSUME NEW p \in Pages
       PROVE  /\ p \in S <=> InRegion(regions[k], p) /\ ~InRegion(r, p)
              /\ InRegion(r, p) => InRegion(regions[k], p)
              /\ p \in S => p \in RangeOf(t)
  <2>1. p \in Nat
    BY PageTypes
  <2>2. End(r) = regions[k].addr + call[t].new
    BY <1>11 DEF End
  <2>3. p \in S <=> call[t].addr + call[t].new <= p /\ p < call[t].addr + call[t].len
    <3>1. call[t].addr + call[t].new + (call[t].len - call[t].new) = call[t].addr + call[t].len
      BY <1>6
    <3> QED
      BY <2>1, <3>1, <1>3, <1>7 DEF PagesOf, GrownEnd
  <2>4. InRegion(r, p) <=> call[t].addr <= p /\ p < call[t].addr + call[t].new
    BY <2>2, <1>5, <1>11 DEF InRegion
  <2>5. InRegion(regions[k], p) <=> call[t].addr <= p /\ p < call[t].addr + call[t].len
    BY <1>5, <1>7, <1>8 DEF InRegion
  <2>6. p \in RangeOf(t) <=> call[t].addr <= p /\ p < call[t].addr + call[t].len
    BY DEF RangeOf, PagesOf
  <2>7. call[t].new < call[t].len
    BY <1>4, <1>7
  <2> QED
    BY <2>1, <2>3, <2>4, <2>5, <2>6, <2>7, <1>6
<1>14. S \in SUBSET Pages
  BY <1>3, PageTypes
<1>15. ASSUME NEW p \in Pages
       PROVE  ProtsOf(regions', p) = IF p \in S THEN {} ELSE ProtsOf(regions, p)
  <2>1. p \in Nat
    BY PageTypes
  <2>2. /\ (InRegion(r, p) <=> InRegion(regions[k], p))
               => ProtsOf(regions', p) = ProtsOf(regions, p)
        /\ InRegion(regions[k], p) /\ ~InRegion(r, p) => ProtsOf(regions', p) = {}
    BY <2>1, <1>8, <1>11, <1>12, ReplaceProts
  <2> QED
    BY <2>2, <1>13
<1>16. \A p \in Pages : hold'[p] = IF p \in S THEN NoThread ELSE hold[p]
  BY <1>4, FillAt DEF Drop
<1>17. CutEffect(S)
  BY <1>4, <1>14, <1>15, <1>16, CutEffectOf
<1>18. TakesTurn(t)
  BY <1>0, <1>5 DEF TakesTurn
<1>19. UnmappingAt(t)'
  BY <1>1, ReturnTypes DEF UnmappingAt
<1>20. \A p \in Pages : ~Unmaps(t, p)
  BY <1>5 DEF Unmaps
<1>21. \A p \in S : hold'[p] = NoThread
  BY <1>14, <1>16
<1>22. PagesInv'
  BY <1>14, <1>17, <1>18, <1>19, <1>20, <1>21, CutPages
<1>23. S \in SUBSET RangeOf(t)
  BY <1>13, <1>14
<1> QED
  BY <1>1, <1>5, <1>17, <1>21, <1>22, <1>23

-----------------------------------------------------------------------------
(* Steps that bring pages into the table.                                   *)
NewAt(p, t, pr, v) ==
    /\ ProtsOf(regions, p) = {} /\ ProtsOf(regions', p) = {pr}
    /\ hold'[p] = t /\ expect'[p] = v
    /\ p \in holes' <=> p \in holes
    /\ HaveKubridge => p \in DOMAIN backing' /\ backing'[p] = pr
MadeEffect(S, t, pr, v) ==
    /\ \A p \in S : NewAt(p, t, pr, v)
    /\ \A p \in Pages \ S : SameAt(p) /\ expect'[p] = expect[p]

LEMMA MadePages ==
    ASSUME IInv, PagesInv, NEW t \in Threads, Moves(t), mman_ready' = mman_ready, mman_ready,
           mutex \in {t, NoThread}, NEW S \in SUBSET Pages, NEW pr, NEW v,
           MadeEffect(S, t, pr, v),
           pc[t] \notin {"unmap", "unmapping"}, pc'[t] # "unmapping"
    PROVE  PagesInv'
<1>1. ASSUME NEW p \in Pages PROVE PageAt(p)'
  <2>0. PageAt(p)
    BY DEF PagesInv
  <2>1. CASE p \in S
    <3>1. NewAt(p, t, pr, v)
      BY <2>1 DEF MadeEffect
    <3>2. p \notin holes
      BY <2>0, <3>1 DEF PageAt, NewAt
    <3>3. t # NoThread
      BY MmanAssumption
    <3> QED
      BY <3>1, <3>2, <3>3 DEF PageAt, NewAt
  <2>2. CASE p \notin S
    <3>1. SameAt(p) /\ ~Unmaps(t, p)
      BY <2>2 DEF MadeEffect, Unmaps
    <3> QED
      BY <2>0, <3>1, SamePage
  <2> QED
    BY <2>1, <2>2
<1>2. TakesTurn(t)
  BY DEF TakesTurn
<1>3. UnmappingAt(t)'
  BY DEF UnmappingAt
<1> QED
  BY <1>1, <1>2, <1>3, PageStep

LEMMA OrderedAfter ==
    ASSUME IInv, IInv'
    PROVE  regions \in Seq(Region) /\ Ordered(regions) /\ regions' \in Seq(Region) /\ Ordered(regions')
<1>1. regions \in Seq(Region) /\ Ordered(regions)
  BY DEF IInv, TypeOK, TableInv, RegionsDisjoint, Ordered
<1>2. regions' \in Seq(Region)
  BY DEF IInv, TypeOK
<1>3. Ordered(regions')
  BY DEF IInv, TableInv, RegionsDisjoint, Ordered, End
<1> QED
  BY <1>1, <1>2, <1>3

LEMMA ResizeGrowPages ==
    ASSUME IInv, IInv', PagesInv, NEW t \in Threads, ResizeGrow(t)
    PROVE  /\ PagesInv' /\ Return(t) /\ pc[t] = "resize"
           /\ \E S \in SUBSET Pages, pr \in SUBSET Bits :
                 MadeEffect(S, t, pr, "zero") /\ mem' = Fill(mem, S, "zero")
<1>0. Moves(t) /\ mman_ready' = mman_ready
  BY CallMoves DEF InCall, Remap
<1>1. Return(t) /\ UNCHANGED <<backing, holes, diverged, stranded>>
  BY DEF ResizeGrow, kernel
<1>2. PICK k \in 1..Len(regions) :
          LET D == PagesOf(End(regions[k]), call[t].new - regions[k].len)
          IN /\ Resizing(t, k) /\ call[t].new > regions[k].len /\ CanGrow(t, k)
             /\ mem' = Fill(mem, D, "zero")
             /\ regions' = [regions EXCEPT ![k].len = call[t].new]
             /\ hold' = Fill(hold, D, t) /\ expect' = Fill(expect, D, "zero")
  BY DEF ResizeGrow
<1>3. PICK S : S = PagesOf(End(regions[k]), call[t].new - regions[k].len)
  OBVIOUS
<1>4. /\ call[t].new > regions[k].len /\ mem' = Fill(mem, S, "zero")
      /\ regions' = [regions EXCEPT ![k].len = call[t].new]
      /\ hold' = Fill(hold, S, t) /\ expect' = Fill(expect, S, "zero")
  BY <1>2, <1>3
<1>5. /\ pc[t] = "resize" /\ mutex = NoThread /\ mman_ready
      /\ regions[k].addr = call[t].addr /\ regions[k].uid = PoolUid
      /\ call[t].addr + call[t].new <= PoolEnd
  BY <1>2 DEF Resizing, Free, CanGrow, GrownEnd
<1>6. ~HaveKubridge
  BY <1>5 DEF IInv, TableInv, OneBackend
<1>7. call[t].addr \in Nat /\ call[t].new \in Nat
  BY CallFacts
<1>8. /\ regions[k] \in Region /\ regions[k].addr \in Nat /\ regions[k].len \in Nat
      /\ End(regions[k]) = regions[k].addr + regions[k].len
  BY Neighbours
<1>9. call[t].new \in Pages
  <2>1. PoolEnd \in Pages /\ PoolEnd \in Nat
    BY PageTypes
  <2>2. call[t].new <= PoolEnd
    BY <2>1, <1>5, <1>7
  <2> QED
    BY <2>1, <2>2, <1>7, SmallerPage
<1>10. PICK r : r = [regions[k] EXCEPT !.len = call[t].new]
  OBVIOUS
<1>11. r \in Region /\ r.prot = regions[k].prot /\ r.addr = regions[k].addr /\ r.len = call[t].new
  BY <1>8, <1>9, <1>10 DEF Region
<1>12. regions' = Replaced(regions, k, r)
  BY <1>4, <1>10 DEF Replaced
<1>13. ASSUME NEW p \in Pages
       PROVE  /\ p \in S <=> InRegion(r, p) /\ ~InRegion(regions[k], p)
              /\ InRegion(regions[k], p) => InRegion(r, p)
  <2>1. p \in Nat
    BY PageTypes
  <2>2. End(r) = regions[k].addr + call[t].new
    BY <1>11 DEF End
  <2>3. p \in S <=> End(regions[k]) <= p /\ p < regions[k].addr + call[t].new
    <3>1. End(regions[k]) + (call[t].new - regions[k].len) = regions[k].addr + call[t].new
      BY <1>7, <1>8
    <3> QED
      BY <2>1, <3>1, <1>3 DEF PagesOf
  <2>4. InRegion(r, p) <=> regions[k].addr <= p /\ p < regions[k].addr + call[t].new
    BY <2>2, <1>11 DEF InRegion
  <2> QED
    BY <2>1, <2>3, <2>4, <1>4, <1>7, <1>8 DEF InRegion
<1>14. S \in SUBSET Pages
  BY <1>3, PageTypes
<1>15. \A p \in Pages : /\ hold'[p] = IF p \in S THEN t ELSE hold[p]
                        /\ expect'[p] = IF p \in S THEN "zero" ELSE expect[p]
  BY <1>4, FillAt
<1>16. PICK pr \in SUBSET Bits : pr = r.prot
  BY <1>11 DEF Region
<1>17. ASSUME NEW p \in Pages
       PROVE  /\ p \in S => NewAt(p, t, pr, "zero")
              /\ p \notin S => SameAt(p) /\ expect'[p] = expect[p]
  <2>1. p \in Nat
    BY PageTypes
  <2>2. regions \in Seq(Region) /\ Ordered(regions) /\ Ordered(Replaced(regions, k, r))
    BY <1>12, OrderedAfter
  <2>3. /\ (InRegion(r, p) <=> InRegion(regions[k], p))
               => ProtsOf(regions', p) = ProtsOf(regions, p)
        /\ InRegion(r, p) /\ ~InRegion(regions[k], p)
               => ProtsOf(regions, p) = {} /\ ProtsOf(regions', p) = {r.prot}
    BY <2>1, <2>2, <1>11, <1>12, ReplaceProts
  <2>4. CASE p \in S
    BY <2>3, <2>4, <1>1, <1>6, <1>13, <1>15, <1>16 DEF NewAt
  <2>5. CASE p \notin S
    BY <2>3, <2>5, <1>1, <1>13, <1>15 DEF SameAt
  <2> QED
    BY <2>4, <2>5
<1>18. MadeEffect(S, t, pr, "zero")
  BY <1>14, <1>17 DEF MadeEffect
<1>19. pc[t] \notin {"unmap", "unmapping"} /\ pc'[t] # "unmapping"
  BY <1>1, <1>5, ReturnTypes
<1>20. PICK v : v = "zero"
  OBVIOUS
<1>21. PagesInv'
  BY <1>0, <1>5, <1>14, <1>18, <1>19, <1>20, MadePages
<1> QED
  BY <1>1, <1>4, <1>5, <1>14, <1>18, <1>21

(* __mman_map inserts one region, of pages that no other region has.        *)
LEMMA InsertEffect ==
    ASSUME IInv, IInv', NEW t \in Threads, NEW b \in Pages, NEW r \in Region,
           r.addr = b, r.len = MapLen(t), r.prot = MapProt(t),
           regions' = region_insert(regions, r), Take(t, PagesOf(b, MapLen(t))),
           IF HaveKubridge THEN backing' = Commit(PagesOf(b, MapLen(t)), MapProt(t))
                           ELSE backing' = backing
    PROVE  MadeEffect(PagesOf(b, MapLen(t)), t, MapProt(t), "any")
<1>1. PICK S : S = PagesOf(b, MapLen(t))
  OBVIOUS
<1>2. b \in Nat /\ MapLen(t) \in Nat
  BY MapTypes, PageTypes
<1>3. \A p \in Pages : p \in S <=> InRegion(r, p)
  BY <1>1 DEF PagesOf, InRegion, End
<1>4. \A p \in Pages : /\ hold'[p] = IF p \in S THEN t ELSE hold[p]
                       /\ expect'[p] = IF p \in S THEN "any" ELSE expect[p]
  BY <1>1, FillAt DEF Take
<1>5. UNCHANGED <<holes, diverged, stranded>>
  BY DEF Take
<1>6. S \in SUBSET Pages
  BY <1>1, PageTypes
<1>7. /\ HaveKubridge => /\ DOMAIN backing' = DOMAIN backing \cup S
                         /\ \A p \in S : backing'[p] = MapProt(t)
                         /\ \A p \in DOMAIN backing \ S : backing'[p] = backing[p]
      /\ ~HaveKubridge => backing' = backing
  BY <1>1 DEF Commit
<1>8. ASSUME NEW p \in Pages
      PROVE  /\ p \in S => NewAt(p, t, MapProt(t), "any")
             /\ p \notin S => SameAt(p) /\ expect'[p] = expect[p]
  <2>1. p \in Nat
    BY PageTypes
  <2>2. regions \in Seq(Region) /\ Ordered(region_insert(regions, r))
    BY OrderedAfter
  <2>3. /\ InRegion(r, p) => ProtsOf(regions, p) = {} /\ ProtsOf(regions', p) = {r.prot}
        /\ ~InRegion(r, p) => ProtsOf(regions', p) = ProtsOf(regions, p)
    BY <2>1, <2>2, InsertProts
  <2>4. CASE p \in S
    BY <2>3, <2>4, <1>3, <1>4, <1>5, <1>7 DEF NewAt
  <2>5. CASE p \notin S
    BY <2>3, <2>5, <1>3, <1>4, <1>5, <1>7 DEF SameAt
  <2> QED
    BY <2>4, <2>5
<1> QED
  BY <1>1, <1>6, <1>8 DEF MadeEffect

(* What __mman_map does when it succeeds.                                   *)
SameArgs(t) ==
    /\ call'[t].op = call[t].op /\ call'[t].addr = call[t].addr /\ call'[t].len = call[t].len
    /\ call'[t].new = call[t].new
MapsNew(t) ==
    /\ pc[t] \in {"map", "alloc"} /\ pc'[t] = AfterMap(t) /\ MapLen(t) # 0
    /\ SameArgs(t) /\ UNCHANGED mem
    /\ MadeEffect(PagesOf(call'[t].base, MapLen(t)), t, MapProt(t), "any")

LEMMA MapsNewPages ==
    ASSUME IInv, PagesInv, NEW t \in Threads, Moves(t), mman_ready' = mman_ready, mman_ready,
           mutex \in {t, NoThread}, MapsNew(t)
    PROVE  PagesInv'
<1>1. PICK S, pr, v : S = PagesOf(call'[t].base, MapLen(t)) /\ pr = MapProt(t) /\ v = "any"
  OBVIOUS
<1>2. S \in SUBSET Pages
  BY <1>1, PageTypes
<1>3. MadeEffect(S, t, pr, v)
  BY <1>1 DEF MapsNew
<1>4. pc[t] \notin {"unmap", "unmapping"} /\ pc'[t] # "unmapping"
  BY AfterMapType DEF MapsNew
<1> QED
  BY <1>2, <1>3, <1>4, MadePages

LEMMA MapReservePages ==
    ASSUME IInv, IInv', PagesInv, NEW t \in Threads, MapReserve(t)
    PROVE  PagesInv' /\ MapsNew(t)
<1>0. Moves(t) /\ mman_ready' = mman_ready
  BY CallMoves DEF InCall, Map
<1>1. /\ pc[t] = "map" /\ MapLen(t) # 0 /\ mutex = NoThread /\ HaveKubridge /\ mman_ready
      /\ Goto(t, AfterMap(t)) /\ UNCHANGED mem
  BY DEF MapReserve, Mapping, MapOk, Free
<1>2. PICK b \in Pages, u \in Uids :
          /\ backing' = Commit(PagesOf(b, MapLen(t)), MapProt(t))
          /\ regions' = region_insert(regions,
                [addr |-> b, len |-> MapLen(t), uid |-> u, prot |-> MapProt(t)])
          /\ call' = [call EXCEPT ![t].base = b]
          /\ Take(t, PagesOf(b, MapLen(t)))
  BY DEF MapReserve
<1>3. /\ call[t] \in CallType /\ call \in [Threads -> CallType]
      /\ MapLen(t) \in Pages /\ MapProt(t) \in SUBSET Bits
  BY MapTypes
<1>4. PICK r : r = [addr |-> b, len |-> MapLen(t), uid |-> u, prot |-> MapProt(t)]
  OBVIOUS
<1>5. r \in Region /\ r.addr = b /\ r.len = MapLen(t) /\ r.prot = MapProt(t)
  BY <1>3, <1>4 DEF Region
<1>6. MadeEffect(PagesOf(b, MapLen(t)), t, MapProt(t), "any")
  BY <1>1, <1>2, <1>4, <1>5, InsertEffect
<1>7. call'[t].base = b /\ SameArgs(t)
  BY <1>2, <1>3 DEF CallType, SameArgs
<1>8. pc'[t] = AfterMap(t)
  BY <1>1 DEF Goto, IInv, TypeOK
<1>9. MapsNew(t)
  BY <1>1, <1>6, <1>7, <1>8 DEF MapsNew
<1> QED
  BY <1>0, <1>1, <1>9, MapsNewPages

LEMMA AllocDonePages ==
    ASSUME IInv, IInv', PagesInv, NEW t \in Threads, AllocDone(t)
    PROVE  PagesInv' /\ MapsNew(t)
<1>0. Moves(t) /\ mman_ready' = mman_ready
  BY CallMoves DEF InCall, Map
<1>1. /\ pc[t] = "alloc" /\ Goto(t, AfterMap(t)) /\ UNCHANGED <<mem, call, backing>>
      /\ regions' = region_insert(regions,
            [addr |-> call[t].base, len |-> MapLen(t), uid |-> PoolUid, prot |-> MapProt(t)])
      /\ Take(t, PagesOf(call[t].base, MapLen(t)))
  BY DEF AllocDone, kernel
<1>2. ~HaveKubridge /\ MapLen(t) # 0 /\ mutex = t /\ mman_ready
  BY <1>1 DEF IInv, LocalsAt, OneHolder, Loops, PagesInv, StoppedEmpty
<1>3. MapLen(t) \in Pages /\ MapProt(t) \in SUBSET Bits
  BY MapTypes
<1>4. PICK b \in Pages : b = call[t].base
  BY CallFacts
<1>5. PICK r : r = [addr |-> b, len |-> MapLen(t), uid |-> PoolUid, prot |-> MapProt(t)]
  OBVIOUS
<1>6. r \in Region /\ r.addr = b /\ r.len = MapLen(t) /\ r.prot = MapProt(t)
  BY <1>3, <1>5 DEF Region
<1>7. MadeEffect(PagesOf(b, MapLen(t)), t, MapProt(t), "any")
  BY <1>1, <1>2, <1>4, <1>5, <1>6, InsertEffect
<1>8. pc'[t] = AfterMap(t) /\ call'[t].base = b /\ SameArgs(t)
  BY <1>1, <1>4 DEF Goto, IInv, TypeOK, SameArgs
<1>9. MapsNew(t)
  BY <1>1, <1>2, <1>7, <1>8 DEF MapsNew
<1> QED
  BY <1>0, <1>2, <1>9, MapsNewPages

-----------------------------------------------------------------------------
(* Steps that change the protection or the memory of pages in the table.    *)

(* __mman_protect changes the table only for the regions inside the range.  *)
LEMMA ProtectProts ==
    ASSUME IInv, NEW a \in Pages, NEW l \in Pages, NEW prot \in SUBSET Bits,
           mman_protect(a, l, prot), UNCHANGED <<vm_open, blocks>>, NEW p \in Pages
    PROVE  /\ p \in Covered(a, l) => /\ ProtsOf(regions', p) = {prot} /\ p \in PagesOf(a, l)
                                     /\ ProtsOf(regions, p) # {}
           /\ p \notin Covered(a, l) => ProtsOf(regions', p) = ProtsOf(regions, p)
<1> DEFINE n == Len(regions)
           e(j) == IF Covers(a, l, regions[j]) THEN [regions[j] EXCEPT !.prot = prot]
                   ELSE regions[j]
<1>0. p \in Nat /\ a \in Nat /\ l \in Nat
  BY PageTypes
<1>1. regions' = [j \in 1..n |-> e(j)]
  BY DEF mman_protect
<1>2. n \in Nat /\ \A j \in 1..n : regions[j] \in Region /\ regions[j].addr \in Nat /\ End(regions[j]) \in Nat
  BY TableType DEF IInv, TypeOK
<1>3. regions' \in Seq(Region) /\ Len(regions') = n /\ Ordered(regions')
  <2>1. regions' \in Seq(Region) /\ Len(regions') = n /\ TableInv'
    BY ProtectTable
  <2> QED
    BY <2>1 DEF TableInv, RegionsDisjoint, Ordered, End
<1>4. \A j \in 1..n : /\ regions'[j].addr = regions[j].addr /\ regions'[j].len = regions[j].len
                      /\ Covers(a, l, regions[j]) => regions'[j].prot = prot
                      /\ ~Covers(a, l, regions[j]) => regions'[j] = regions[j]
  BY <1>1, <1>2 DEF Region
<1>5. \A j \in 1..n : InRegion(regions'[j], p) <=> InRegion(regions[j], p)
  BY <1>4 DEF InRegion, End
<1>6. p \in Covered(a, l) <=> \E i \in 1..n : Covers(a, l, regions[i]) /\ InRegion(regions[i], p)
  BY DEF Covered, PagesIn, PagesOf, InRegion, End
<1> HIDE DEF e
<1>7. ASSUME p \in Covered(a, l)
      PROVE  /\ ProtsOf(regions', p) = {prot} /\ p \in PagesOf(a, l)
             /\ ProtsOf(regions, p) # {}
  <2>1. PICK i \in 1..n : Covers(a, l, regions[i]) /\ InRegion(regions[i], p)
    BY <1>6, <1>7
  <2>2. ProtsOf(regions', p) = {regions'[i].prot}
    BY <2>1, <1>0, <1>3, <1>5, OneProt
  <2>3. Plus(a, l) \in Nat /\ Plus(a, l) <= a + l
    BY <1>0, PageTypes, MmanAssumption DEF Plus
  <2>4. a <= p /\ p < a + l
    BY <2>1, <2>3, <1>0, <1>2 DEF Covers, InRegion
  <2>5. ProtsOf(regions, p) # {}
    BY <2>1, <1>0, NoProt DEF IInv, TypeOK
  <2> QED
    BY <2>1, <2>2, <2>4, <2>5, <1>4 DEF PagesOf
<1>8. ASSUME p \notin Covered(a, l) PROVE ProtsOf(regions', p) = ProtsOf(regions, p)
  <2>1. \A i \in 1..n : InRegion(regions[i], p) => regions'[i] = regions[i]
    BY <1>4, <1>6, <1>8
  <2>2. ASSUME NEW pr \in SUBSET Bits
        PROVE  (\E j \in 1..Len(regions') : InRegion(regions'[j], p) /\ regions'[j].prot = pr)
                   <=> (\E i \in 1..n : InRegion(regions[i], p) /\ regions[i].prot = pr)
    BY <1>3, <1>5, <2>1
  <2> QED
    BY <2>2 DEF ProtsOf
<1> QED
  BY <1>7, <1>8

LEMMA ProtectPagesOf ==
    ASSUME IInv, PagesInv, NEW t \in Threads, Moves(t), mman_ready, mman_ready' = mman_ready,
           mutex = NoThread, pc[t] \notin {"unmap", "unmapping"}, pc'[t] # "unmapping",
           NEW a \in Pages, NEW l \in Pages, NEW prot \in SUBSET Bits, mman_protect(a, l, prot),
           UNCHANGED <<vm_open, blocks, hold, holes, stranded>>
    PROVE  PagesInv' /\ \A p \in Pages \ PagesOf(a, l) : SameAt(p)
<1>1. ASSUME NEW p \in Pages
      PROVE  PageAt(p)' /\ (p \notin PagesOf(a, l) => SameAt(p))
  <2>0. PageAt(p)
    BY DEF PagesInv
  <2>1. /\ p \in Covered(a, l) => /\ ProtsOf(regions', p) = {prot} /\ p \in PagesOf(a, l)
                                  /\ ProtsOf(regions, p) # {}
        /\ p \notin Covered(a, l) => ProtsOf(regions', p) = ProtsOf(regions, p)
    BY ProtectProts
  <2>2. \/ /\ HaveKubridge /\ PagesOf(a, l) \subseteq DOMAIN backing
           /\ DOMAIN backing' = DOMAIN backing
           /\ \A x \in DOMAIN backing : backing'[x] = IF x \in PagesOf(a, l) THEN prot ELSE backing[x]
           /\ diverged' = (diverged \ Covered(a, l)) \cup (PagesOf(a, l) \ Covered(a, l))
        \/ /\ HaveKubridge /\ backing' = backing /\ diverged' = diverged \cup Covered(a, l)
        \/ /\ ~HaveKubridge /\ backing' = backing /\ diverged' = diverged
    BY DEF mman_protect, Commit
  <2>3. \A u \in Threads : Unmaps(u, p) => Unmaps(u, p)'
    BY DEF Unmaps, Moves, RangeOf
  <2>4. PageAt(p)'
    BY <2>0, <2>1, <2>2, <2>3 DEF PageAt
  <2>5. p \notin PagesOf(a, l) => SameAt(p)
    BY <2>1, <2>2 DEF SameAt
  <2> QED
    BY <2>4, <2>5
<1>2. TakesTurn(t)
  BY DEF TakesTurn
<1>3. UnmappingAt(t)'
  BY DEF UnmappingAt
<1> QED
  BY <1>1, <1>2, <1>3, PageStep

LEMMA ProtectPages ==
    ASSUME IInv, PagesInv, NEW t \in Threads, Protect(t)
    PROVE  /\ PagesInv' /\ pc[t] = "protect" /\ AfterProtect(t)
           /\ \A p \in Pages \ PagesOf(call[t].base, MapLen(t)) : SameAt(p)
           /\ UNCHANGED <<hold, holes, mem, expect>>
<1>0. Moves(t) /\ mman_ready' = mman_ready
  BY CallMoves DEF InCall
<1>1. /\ pc[t] = "protect" /\ mutex = NoThread /\ mman_ready
      /\ mman_protect(call[t].base, MapLen(t), call[t].prot) /\ AfterProtect(t)
      /\ UNCHANGED <<vm_open, blocks, hold, holes, stranded, mem, expect>>
  BY DEF Protect, Free
<1>2. PICK a \in Pages, l \in Pages, prot \in SUBSET Bits :
          a = call[t].base /\ l = MapLen(t) /\ prot = call[t].prot
  BY CallFacts, MapTypes DEF CallType
<1>3. pc'[t] # "unmapping"
  <2>1. Return(t) \/ Goto(t, "unmap")
    BY <1>1 DEF AfterProtect
  <2> QED
    BY <2>1 DEF Return, Goto, IInv, TypeOK
<1>4. PagesInv' /\ \A p \in Pages \ PagesOf(a, l) : SameAt(p)
  BY <1>0, <1>1, <1>2, <1>3, ProtectPagesOf
<1> QED
  BY <1>1, <1>2, <1>4

LEMMA mprotectPages ==
    ASSUME IInv, PagesInv, NEW t \in Threads, mprotect(t)
    PROVE  /\ PagesInv' /\ pc[t] = "idle"
           /\ \E a \in Pages, l \in Nat :
                 May(t, a, l) /\ \A p \in Pages \ PagesOf(a, l) : SameAt(p)
           /\ UNCHANGED <<pc, call, hold, holes, mem, expect>>
<1>0. Moves(t) /\ mman_ready' = mman_ready
  BY RequestMoves DEF Request
<1>1. /\ pc[t] = "idle" /\ mutex = NoThread /\ mman_ready
      /\ UNCHANGED <<vm_open, blocks, hold, holes, stranded, mem, expect, pc, call>>
  BY DEF mprotect, Free
<1>2. PICK a \in Pages, l \in Lens \ {0}, prot \in Prots :
          May(t, a, l) /\ mman_protect(a, MMAN_PAGE_ALIGN(l), prot)
  BY DEF mprotect
<1>3. l \in 0..AddrSpace /\ l \in Nat /\ prot \in SUBSET Bits
  BY MmanAssumption
<1>4. PICK m \in Pages : m = MMAN_PAGE_ALIGN(l)
  BY <1>3, PageTypes
<1>5. PagesInv' /\ \A p \in Pages \ PagesOf(a, m) : SameAt(p)
  BY <1>0, <1>1, <1>2, <1>3, <1>4, ProtectPagesOf
<1>6. m <= l
  BY <1>3, <1>4 DEF MMAN_PAGE_ALIGN
<1>7. PagesOf(a, m) \subseteq PagesOf(a, l)
  BY <1>3, <1>4, <1>6, PageTypes DEF PagesOf
<1>8. \A p \in Pages \ PagesOf(a, l) : SameAt(p)
  BY <1>5, <1>7
<1> QED
  BY <1>1, <1>2, <1>3, <1>5, <1>8

(* __mman_discard stays inside the range and inside one region.             *)
LEMMA DiscardIs ==
    ASSUME IInv, NEW t \in Threads, NEW k \in 1..Len(regions), Discarding(t, k)
    PROVE  /\ DiscardPages(t, k) \in SUBSET RangeOf(t) /\ DiscardPages(t, k) \in SUBSET Pages
           /\ \A p \in DiscardPages(t, k) : ProtsOf(regions, p) = {regions[k].prot}
           /\ pc[t] = "discard" /\ mutex = NoThread /\ mman_ready
<1>1. /\ pc[t] = "discard" /\ mutex = NoThread /\ mman_ready
      /\ regions[k].addr <= call[t].addr
  BY DEF Discarding, Free, FoundAt
<1>2. /\ regions \in Seq(Region) /\ Ordered(regions)
      /\ regions[k].addr \in Nat /\ End(regions[k]) \in Nat
  BY Neighbours
<1>3. call[t].addr \in Nat /\ call[t].addr \in Pages /\ call[t].len \in Nat /\ call[t].len <= AddrSpace
  BY CallFacts
<1>4. PICK l \in Nat : l = MMAN_PAGE_ALIGN(call[t].len) /\ l <= call[t].len
  BY <1>3 DEF MMAN_PAGE_ALIGN
<1>5. PICK de \in Int : de = Plus(call[t].addr, l) /\ de <= call[t].addr + l
  <2>1. AddrSpace \in Nat
    BY MmanAssumption
  <2>2. Plus(call[t].addr, l) \in Int /\ Plus(call[t].addr, l) <= call[t].addr + l
    BY <2>1, <1>3 DEF Plus
  <2> QED
    BY <2>2
<1>6. DiscardEnd(t, regions[k]) = IF de > End(regions[k]) THEN End(regions[k]) ELSE de
  BY <1>4, <1>5 DEF DiscardEnd
<1>7. ASSUME NEW p \in DiscardPages(t, k)
      PROVE  p \in Pages /\ p \in RangeOf(t) /\ ProtsOf(regions, p) = {regions[k].prot}
  <2>1. p \in Pages /\ call[t].addr <= p /\ p < DiscardEnd(t, regions[k])
    BY DEF DiscardPages
  <2>2. p \in Nat
    BY <2>1, PageTypes
  <2>3. p < End(regions[k]) /\ p < de
    BY <2>1, <2>2, <1>2, <1>6
  <2>4. InRegion(regions[k], p)
    BY <2>1, <2>2, <2>3, <1>1, <1>2, <1>3 DEF InRegion
  <2>5. p < call[t].addr + call[t].len
    BY <2>2, <2>3, <1>3, <1>4, <1>5
  <2> QED
    BY <2>1, <2>2, <2>4, <2>5, <1>2, OneProt DEF RangeOf, PagesOf
<1> QED
  BY <1>1, <1>7

LEMMA DiscardPagesInv ==
    ASSUME IInv, PagesInv, NEW t \in Threads, Discard(t)
    PROVE  /\ PagesInv' /\ Return(t) /\ pc[t] = "discard"
           /\ \E S \in SUBSET RangeOf(t) :
                 /\ \A p \in Pages \ S : SameAt(p)
                 /\ \A p \in S : ProtsOf(regions', p) = ProtsOf(regions, p)
                 /\ mem' = Fill(mem, S, "zero") /\ expect' = Fill(expect, S, "zero")
                 /\ UNCHANGED hold
<1>0. Moves(t) /\ mman_ready' = mman_ready
  BY CallMoves DEF InCall
<1>1. Return(t) /\ UNCHANGED <<regions, hold, stranded>>
  BY DEF Discard, table
<1>2. PICK k \in 1..Len(regions) :
          LET D == DiscardPages(t, k)
              prot == regions[k].prot
          IN /\ Discarding(t, k)
             /\ mem' = Fill(mem, D, "zero") /\ expect' = Fill(expect, D, "zero")
             /\ IF regions[k].uid = PoolUid THEN UNCHANGED <<backing, holes, diverged>>
                ELSE \E pr \in {prot, prot \cup {"W"}} :
                        /\ backing' = Commit(D, pr)
                        /\ holes' = holes \ D
                        /\ diverged' = IF pr = prot THEN diverged \ D ELSE diverged \cup D
  BY DEF Discard
<1>3. PICK S : S = DiscardPages(t, k)
  OBVIOUS
<1>4. mem' = Fill(mem, S, "zero") /\ expect' = Fill(expect, S, "zero")
  BY <1>2, <1>3
<1>5. /\ S \in SUBSET RangeOf(t) /\ S \in SUBSET Pages
      /\ \A p \in S : ProtsOf(regions, p) = {regions[k].prot}
      /\ pc[t] = "discard" /\ mutex = NoThread /\ mman_ready
  BY <1>2, <1>3, DiscardIs
<1>6. regions[k].uid = PoolUid <=> ~HaveKubridge
  BY DEF IInv, TableInv, OneBackend
<1>7. \/ ~HaveKubridge /\ UNCHANGED <<backing, holes, diverged>>
      \/ HaveKubridge /\ \E pr :
            /\ DOMAIN backing' = DOMAIN backing \cup S
            /\ \A x \in DOMAIN backing' : backing'[x] = IF x \in S THEN pr ELSE backing[x]
            /\ holes' = holes \ S
            /\ diverged' = IF pr = regions[k].prot THEN diverged \ S ELSE diverged \cup S
  BY <1>2, <1>3, <1>6 DEF Commit
<1>8. ASSUME NEW p \in Pages PROVE PageAt(p)' /\ (p \notin S => SameAt(p))
  <2>0. PageAt(p)
    BY DEF PagesInv
  <2>1. \A u \in Threads : Unmaps(u, p) => Unmaps(u, p)'
    BY <1>0, <1>5 DEF Unmaps, Moves, RangeOf
  <2>2. p \notin S => SameAt(p)
    BY <1>1, <1>7 DEF SameAt
  <2>3. PageAt(p)'
    <3>1. CASE ~HaveKubridge
      BY <2>0, <2>1, <3>1, <1>1, <1>7 DEF PageAt
    <3>2. CASE HaveKubridge /\ p \notin S
      BY <2>0, <2>1, <2>2, <3>2 DEF PageAt, SameAt
    <3>3. CASE HaveKubridge /\ p \in S
      <4>1. ProtsOf(regions', p) = {regions[k].prot} /\ ProtsOf(regions, p) = {regions[k].prot}
        BY <3>3, <1>1, <1>5
      <4>2. /\ p \in DOMAIN backing' /\ p \notin holes'
            /\ p \notin diverged' => backing'[p] = regions[k].prot
        BY <3>3, <1>7
      <4> QED
        BY <2>0, <2>1, <3>3, <4>1, <4>2, <1>1 DEF PageAt
    <3> QED
      BY <3>1, <3>2, <3>3
  <2> QED
    BY <2>2, <2>3
<1>9. TakesTurn(t)
  BY <1>0, <1>5 DEF TakesTurn
<1>10. UnmappingAt(t)'
  BY <1>1, ReturnTypes DEF UnmappingAt
<1>11. PagesInv'
  BY <1>8, <1>9, <1>10, PageStep
<1> QED
  BY <1>1, <1>4, <1>5, <1>8, <1>11

LEMMA DiscardFailsPages ==
    ASSUME IInv, PagesInv, NEW t \in Threads, DiscardFails(t)
    PROVE  /\ PagesInv' /\ Return(t) /\ pc[t] = "discard"
           /\ \E S \in SUBSET RangeOf(t) :
                 /\ \A p \in Pages \ S : SameAt(p)
                 /\ \A p \in S : p \in holes' /\ ProtsOf(regions', p) = ProtsOf(regions, p)
                 /\ UNCHANGED <<mem, expect, hold>>
<1>0. Moves(t) /\ mman_ready' = mman_ready
  BY CallMoves DEF InCall
<1>1. Return(t) /\ UNCHANGED <<regions, hold, stranded, diverged, mem, expect>>
  BY DEF DiscardFails, table
<1>2. PICK k \in 1..Len(regions) :
          /\ Discarding(t, k) /\ regions[k].uid # PoolUid
          /\ backing' = Decommit(DiscardPages(t, k))
          /\ holes' = holes \cup DiscardPages(t, k)
  BY DEF DiscardFails
<1>3. PICK S : S = DiscardPages(t, k)
  OBVIOUS
<1>4. /\ S \in SUBSET RangeOf(t) /\ S \in SUBSET Pages
      /\ \A p \in S : ProtsOf(regions, p) = {regions[k].prot}
      /\ pc[t] = "discard" /\ mutex = NoThread /\ mman_ready
  BY <1>2, <1>3, DiscardIs
<1>5. HaveKubridge
  BY <1>2 DEF IInv, TableInv, OneBackend
<1>6. /\ DOMAIN backing' = DOMAIN backing \ S /\ holes' = holes \cup S
      /\ \A x \in DOMAIN backing' : backing'[x] = backing[x]
  BY <1>2, <1>3 DEF Decommit
<1>7. ASSUME NEW p \in Pages PROVE PageAt(p)' /\ (p \notin S => SameAt(p))
  <2>0. PageAt(p)
    BY DEF PagesInv
  <2>1. \A u \in Threads : Unmaps(u, p) => Unmaps(u, p)'
    BY <1>0, <1>4 DEF Unmaps, Moves, RangeOf
  <2>2. p \notin S => SameAt(p)
    BY <1>1, <1>6 DEF SameAt
  <2>3. CASE p \notin S
    BY <2>0, <2>1, <2>2, <2>3 DEF PageAt, SameAt
  <2>4. CASE p \in S
    <3>1. ProtsOf(regions', p) = ProtsOf(regions, p) /\ ProtsOf(regions, p) # {}
      BY <2>4, <1>1, <1>4
    <3>2. p \notin DOMAIN backing' /\ p \in holes'
      BY <2>4, <1>6
    <3>3. hold[p] # NoThread \/ p \in stranded \/ \E u \in Threads : Unmaps(u, p)'
      BY <2>0, <2>1, <3>1 DEF PageAt
    <3>4. hold'[p] # NoThread \/ p \in stranded' \/ \E u \in Threads : Unmaps(u, p)'
      BY <3>3, <1>1
    <3>5. ProtsOf(regions', p) # {} /\ HaveKubridge
      BY <3>1, <1>5
    <3> QED
      BY <2>2, <3>2, <3>4, <3>5 DEF PageAt
  <2> QED
    BY <2>2, <2>3, <2>4
<1>8. TakesTurn(t)
  BY <1>0, <1>4 DEF TakesTurn
<1>9. UnmappingAt(t)'
  BY <1>1, ReturnTypes DEF UnmappingAt
<1>10. PagesInv'
  BY <1>7, <1>8, <1>9, PageStep
<1> QED
  BY <1>1, <1>4, <1>6, <1>7, <1>10

-----------------------------------------------------------------------------
(* __fini_mman leaves no page.                                              *)
LEMMA FiniPages ==
    ASSUME IInv, PagesInv, Fini
    PROVE  PagesInv' /\ \A p \in Pages : hold'[p] = NoThread /\ expect'[p] = "any"
<1>1. /\ \A t \in Threads : pc[t] = "idle" /\ pc'[t] = "idle"
      /\ regions' = <<>> /\ Drop(Pages) /\ Forget(Pages)
  BY DEF Fini
<1>2. \A p \in Pages : hold'[p] = NoThread /\ expect'[p] = "any" /\ p \notin holes'
  BY <1>1, FillAt DEF Drop, Forget
<1>3. ASSUME NEW p \in Pages PROVE PageAt(p)'
  <2>1. ProtsOf(regions', p) = {}
    BY <1>1, EmptyProts
  <2> QED
    BY <2>1, <1>2 DEF PageAt
<1>4. StoppedEmpty'
  BY <1>1 DEF StoppedEmpty, Loops
<1>5. \A t \in Threads : UnmappingAt(t)'
  BY <1>1 DEF UnmappingAt
<1> QED
  BY <1>2, <1>3, <1>4, <1>5 DEF PagesInv

LEMMA InitPages == Init => PagesInv
<1> SUFFICES ASSUME Init PROVE PagesInv
  OBVIOUS
<1>1. ASSUME NEW p \in Pages PROVE PageAt(p)
  <2>1. ProtsOf(regions, p) = {}
    BY EmptyProts DEF Init
  <2> QED
    BY <2>1 DEF Init, PageAt
<1> QED
  BY <1>1 DEF Init, PagesInv, StoppedEmpty, UnmappingAt

(* The invariant is inductive: one lemma per action.                        *)
LEMMA StepPages == IInv /\ IInv' /\ PagesInv /\ [Next]_vars => PagesInv'
<1> SUFFICES ASSUME IInv, IInv', PagesInv, [Next]_vars PROVE PagesInv'
  OBVIOUS
<1>1. CASE UNCHANGED vars
  <2>1. /\ UNCHANGED <<regions, backing, hold, holes, diverged, stranded, mman_ready, pc, call>>
    BY <1>1 DEF vars, table, kernel, ghosts
  <2>2. \A p \in Pages : PageAt(p)'
    BY <2>1 DEF PagesInv, PageAt, Unmaps, RangeOf
  <2>3. \A t \in Threads : UnmappingAt(t)'
    BY <2>1 DEF PagesInv, UnmappingAt, RangeOf
  <2> QED
    BY <2>1, <2>2, <2>3 DEF PagesInv, StoppedEmpty
<1>2. CASE Fini
  BY <1>2, FiniPages
<1>3. ASSUME NEW t \in Threads, Request(t) PROVE PagesInv'
  BY <1>3, RequestPages, mprotectPages
<1>4. ASSUME NEW t \in Threads, InCall(t), Map(t) PROVE PagesInv'
  BY <1>4, QuietMapPages, MapReservePages, AllocDonePages DEF Map
<1>5. ASSUME NEW t \in Threads, Unmap(t) PROVE PagesInv'
  BY <1>5, UnmapRefusedPages, UnmapLockPages, UnmapSkipPages, UnmapWholePages, UnmapHeadPages,
     UnmapTailPages, UnmapSplitPages, UnmapNoRoomPages, UnmapDonePages
  DEF Unmap
<1>6. ASSUME NEW t \in Threads, InCall(t), Remap(t) PROVE PagesInv'
  BY <1>6, QuietCallPages, ResizeShrinkPages, ResizeGrowPages DEF Remap
<1>7. ASSUME NEW t \in Threads, InCall(t) PROVE PagesInv'
  BY <1>4, <1>5, <1>6, <1>7, QuietCallPages, MmapReadFailsPages, ProtectPages, DiscardPagesInv,
     DiscardFailsPages
  DEF InCall
<1> QED
  BY <1>1, <1>2, <1>3, <1>7 DEF Next

LEMMA PagesInvariant == Spec => []PagesInv
<1>1. Init => PagesInv
  BY InitPages
<1>2. IInv /\ IInv' /\ PagesInv /\ [Next]_vars => PagesInv'
  BY StepPages
<1> QED
  BY <1>1, <1>2, MmanInvariant, PTL DEF Spec

LEMMA MappedPages ==
    ASSUME IInv
    PROVE  \A p \in Pages : p \in Mapped <=> ProtsOf(regions, p) # {}
BY MappedProts DEF IInv, TypeOK

(* What a thread mapped with mmap or mremap is in _regions until the thread *)
(* itself unmaps it: no interleaving of __mman_map, __mman_resize,          *)
(* __mman_unmap and their failures takes a held page out of the table.      *)
THEOREM MmanHeldMapped == Spec => []HeldMapped
<1>1. IInv /\ PagesInv => HeldMapped
  BY MappedPages DEF PagesInv, PageAt, HeldMapped
<1> QED
  BY <1>1, MmanInvariant, PagesInvariant, PTL

(* With kubridge a held page has memory, but for the pages that a munmap    *)
(* without room in the table or a failing madvise had already decommitted.  *)
THEOREM MmanHeldBacked == Spec => []HeldBacked
<1>1. PagesInv => HeldBacked
  BY DEF PagesInv, PageAt, HeldBacked
<1> QED
  BY <1>1, PagesInvariant, PTL

(* No page stays in _regions without an owner, unless mremap found no room  *)
(* to split the region it moved away from: an mmap that cannot read its     *)
(* file, and every unmap, take their pages back.                            *)
THEOREM MmanLeaked == Spec => []LeakedOnlyByFullTable
<1>1. IInv /\ PagesInv => LeakedOnlyByFullTable
  <2> SUFFICES ASSUME IInv, PagesInv, NEW p \in Mapped
               PROVE  \/ hold[p] # NoThread \/ p \in stranded
                      \/ \E t \in Threads : /\ pc[t] \in {"unmap", "unmapping"}
                                            /\ p \in PagesOf(call[t].addr, call[t].len)
    BY DEF LeakedOnlyByFullTable
  <2>1. p \in Pages
    BY DEF Mapped
  <2>2. PageAt(p) /\ ProtsOf(regions, p) # {}
    BY <2>1, MappedPages DEF PagesInv
  <2> QED
    BY <2>2 DEF PageAt, Unmaps, RangeOf
<1> QED
  BY <1>1, MmanInvariant, PagesInvariant, PTL

(* The protection that _regions has for a page is the one the kernel has,   *)
(* unless __mman_protect named a part of a region or the kernel refused it. *)
THEOREM MmanProtection == Spec => []ProtectionKnown
<1>1. IInv /\ PagesInv => ProtectionKnown
  <2> SUFFICES ASSUME IInv, PagesInv, HaveKubridge, NEW i \in 1..Len(regions),
                      NEW p \in PagesIn(regions[i]) \ (holes \cup diverged)
               PROVE  backing[p] = regions[i].prot
    BY DEF ProtectionKnown
  <2>1. p \in Pages /\ p \in Nat /\ InRegion(regions[i], p)
    BY PageTypes DEF PagesIn, PagesOf, InRegion, End
  <2>2. regions \in Seq(Region) /\ Ordered(regions)
    BY Neighbours
  <2>3. ProtsOf(regions, p) = {regions[i].prot}
    BY <2>1, <2>2, OneProt
  <2>4. PageAt(p)
    BY <2>1 DEF PagesInv
  <2> QED
    BY <2>3, <2>4 DEF PageAt
<1> QED
  BY <1>1, MmanInvariant, PagesInvariant, PTL

-----------------------------------------------------------------------------
(* What holds besides when each thread only names pages that it mapped.     *)

(* The pages a call was given are its thread's, until they are unmapped;    *)
(* those of an mmap that could not read its file are nobody's.              *)
ReadFailed(t) == pc[t] = "unmap" /\ call[t].op = "mmap_file"
GivenAt(t) ==
    /\ pc[t] \notin {"idle", "unmapping"} /\ ~ReadFailed(t) => \A p \in RangeOf(t) : hold[p] = t
    /\ ReadFailed(t)
           => \A p \in RangeOf(t) : hold[p] = NoThread /\ ProtsOf(regions, p) # {}

(* The pages it mapped are its thread's, too; and they can be written.      *)
NewRange(t) == PagesOf(call[t].base, MapLen(t))
MadeAt(t) ==
    /\ pc[t] \in {"fill", "copy", "protect"} => \A p \in NewRange(t) : hold[p] = t
    /\ pc[t] \in {"fill", "copy"} => Writable(NewRange(t))
    /\ pc[t] = "fill" => \A p \in NewRange(t) : expect[p] = "any"

(* Which calls come to which places.                                        *)
PlaceAt(t) ==
    /\ pc[t] \in {"map", "alloc", "protect"} => call[t].op \in MapCalls \cup RemapCalls
    /\ pc[t] = "fill" => call[t].op \in MapCalls
    /\ pc[t] \in {"remap", "resize", "copy"} => call[t].op \in RemapCalls
    /\ pc[t] \in {"alloc", "fill", "copy", "protect"} => MapLen(t) = call[t].new

FaultAt(t) ==
    pc[t] = "fault" =>
        /\ call[t].op \in RemapCalls
        /\ \E p \in PagesOf(call[t].addr, CopyLen(t)) :
              p \in holes \/ (p \in DOMAIN backing /\ backing[p] = {})

OwnAt(t) == GivenAt(t) /\ MadeAt(t) /\ PlaceAt(t) /\ FaultAt(t)

(* Two threads never unmap the same page.                                   *)
Apart == \A t, u \in Threads : t # u => ~ \E p \in Pages : Unmaps(t, p) /\ Unmaps(u, p)

ContentsAt(p) == p \in holes \/ expect[p] = "any" \/ mem[p] = expect[p]

OwnInv ==
    /\ \A p \in Pages : ContentsAt(p)
    /\ Apart
    /\ \A t \in Threads : OwnAt(t)

(* A step of t changes only pages of t, pages that nobody mapped, and pages *)
(* that t unmaps.                                                           *)
Mine(t, p) == hold[p] = t \/ ProtsOf(regions, p) = {} \/ Unmaps(t, p)
KeptAt(p) == SameAt(p) /\ expect'[p] = expect[p]
Frame(t) == \A p \in Pages : KeptAt(p) \/ Mine(t, p)

(* No page of another thread is among them.                                 *)
LEMMA HeldNotMine ==
    ASSUME PagesInv, OwnInv, NEW t \in Threads, NEW u \in Threads, u # t,
           NEW p \in Pages, hold[p] = u
    PROVE  ~Mine(t, p)
<1>1. ProtsOf(regions, p) # {} /\ u # NoThread
  BY MmanAssumption DEF PagesInv, PageAt
<1>2. ASSUME Unmaps(t, p) PROVE hold[p] \in {t, NoThread}
  <2>1. CASE pc[t] = "unmapping"
    BY <2>1, <1>2 DEF PagesInv, UnmappingAt, Unmaps
  <2>2. CASE pc[t] = "unmap"
    BY <2>2, <1>2 DEF OwnInv, OwnAt, GivenAt, Unmaps
  <2> QED
    BY <2>1, <2>2, <1>2 DEF Unmaps
<1> QED
  BY <1>1, <1>2 DEF Mine

(* mremap copies no more than it was given, and no more than it maps.       *)
LEMMA CopyRange ==
    ASSUME IInv, NEW t \in Threads
    PROVE  /\ PagesOf(call[t].addr, CopyLen(t)) \subseteq RangeOf(t)
           /\ MapLen(t) = call[t].new => PagesOf(call[t].base, CopyLen(t)) \subseteq NewRange(t)
           /\ CopyLen(t) \in Nat /\ CopyLen(t) <= call[t].len
<1>1. /\ call[t].addr \in Nat /\ call[t].base \in Nat /\ call[t].len \in Nat
      /\ call[t].new \in Nat
  BY CallFacts
<1>2. CopyLen(t) \in Nat /\ CopyLen(t) <= call[t].len /\ CopyLen(t) <= call[t].new
  BY <1>1 DEF CopyLen
<1>3. ASSUME NEW a \in Nat, NEW l \in Nat, NEW m \in Nat, l <= m
      PROVE  PagesOf(a, l) \subseteq PagesOf(a, m)
  <2> SUFFICES ASSUME NEW p \in PagesOf(a, l) PROVE p \in PagesOf(a, m)
    OBVIOUS
  <2>1. p \in Pages /\ a <= p /\ p < a + l
    BY DEF PagesOf
  <2>2. p \in Nat
    BY <2>1, PageTypes
  <2>3. p < a + m
    BY <2>1, <2>2, <1>3
  <2> QED
    BY <2>1, <2>3 DEF PagesOf
<1>4. PagesOf(call[t].addr, CopyLen(t)) \subseteq PagesOf(call[t].addr, call[t].len)
  BY <1>1, <1>2, <1>3
<1>5. PagesOf(call[t].base, CopyLen(t)) \subseteq PagesOf(call[t].base, call[t].new)
  BY <1>1, <1>2, <1>3
<1> QED
  BY <1>2, <1>4, <1>5 DEF RangeOf, NewRange

LEMMA OthersOwn ==
    ASSUME IInv, PagesInv, OwnInv, NEW t \in Threads, Moves(t), Frame(t),
           NEW u \in Threads, u # t
    PROVE  OwnAt(u)'
<1>0. /\ pc'[u] = pc[u] /\ call'[u] = call[u]
      /\ GivenAt(u) /\ MadeAt(u) /\ PlaceAt(u) /\ FaultAt(u)
  BY DEF Moves, OwnInv, OwnAt
<1>1. \A p \in Pages : hold[p] = u => KeptAt(p)
  BY HeldNotMine DEF Frame
<1>2. RangeOf(u) \subseteq Pages /\ NewRange(u) \subseteq Pages
      /\ PagesOf(call[u].addr, CopyLen(u)) \subseteq Pages
  BY PageTypes DEF RangeOf, NewRange
<1>3. RangeOf(u)' = RangeOf(u) /\ NewRange(u)' = NewRange(u) /\ MapLen(u)' = MapLen(u)
      /\ CopyLen(u)' = CopyLen(u)
  BY <1>0 DEF RangeOf, NewRange, MapLen, CopyLen
<1>4. GivenAt(u)'
  <2>1. CASE ReadFailed(u)
    <3>1. ASSUME NEW p \in RangeOf(u) PROVE KeptAt(p)
      <4>1. hold[p] = NoThread /\ ProtsOf(regions, p) # {} /\ Unmaps(u, p) /\ p \in Pages
        BY <2>1, <1>0, <1>2 DEF GivenAt, Unmaps, ReadFailed
      <4>2. ~Unmaps(t, p)
        BY <4>1 DEF OwnInv, Apart
      <4>3. t # NoThread
        BY MmanAssumption
      <4> QED
        BY <4>1, <4>2, <4>3 DEF Frame, Mine
    <3>2. \A p \in RangeOf(u) : hold'[p] = NoThread /\ ProtsOf(regions', p) # {}
      BY <2>1, <3>1, <1>0 DEF KeptAt, SameAt, GivenAt
    <3> QED
      BY <2>1, <3>2, <1>0, <1>3 DEF GivenAt, ReadFailed
  <2>2. CASE ~ReadFailed(u) /\ pc[u] \notin {"idle", "unmapping"}
    <3>1. \A p \in RangeOf(u) : hold'[p] = u
      BY <2>2, <1>0, <1>1, <1>2 DEF GivenAt, KeptAt, SameAt
    <3> QED
      BY <2>2, <3>1, <1>0, <1>3 DEF GivenAt, ReadFailed
  <2>3. CASE ~ReadFailed(u) /\ pc[u] \in {"idle", "unmapping"}
    BY <2>3, <1>0 DEF GivenAt, ReadFailed
  <2> QED
    BY <2>1, <2>2, <2>3
<1>5. MadeAt(u)'
  <2>1. CASE pc[u] \in {"fill", "copy", "protect"}
    <3>1. \A p \in NewRange(u) : hold[p] = u /\ KeptAt(p)
      BY <2>1, <1>0, <1>1, <1>2 DEF MadeAt
    <3>2. \A p \in NewRange(u) : hold'[p] = u /\ expect'[p] = expect[p]
      BY <3>1 DEF KeptAt, SameAt
    <3>3. Writable(NewRange(u)) => Writable(NewRange(u))'
      <4>1. ASSUME NEW p \in NewRange(u), p \in DOMAIN backing, "W" \in backing[p]
            PROVE  p \in DOMAIN backing' /\ "W" \in backing'[p]
        BY <3>1, <4>1 DEF KeptAt, SameAt
      <4> QED
        BY <4>1, <1>3 DEF Writable
    <3> QED
      BY <3>2, <3>3, <1>0, <1>3 DEF MadeAt
  <2>2. CASE pc[u] \notin {"fill", "copy", "protect"}
    BY <2>2, <1>0 DEF MadeAt
  <2> QED
    BY <2>1, <2>2
<1>6. PlaceAt(u)'
  BY <1>0, <1>3 DEF PlaceAt
<1>7. FaultAt(u)'
  <2> SUFFICES ASSUME pc[u] = "fault" PROVE FaultAt(u)'
    BY <1>0 DEF FaultAt
  <2>1. PICK p \in PagesOf(call[u].addr, CopyLen(u)) :
            p \in holes \/ (p \in DOMAIN backing /\ backing[p] = {})
    BY <1>0 DEF FaultAt
  <2>2. p \in RangeOf(u)
    BY <2>1, CopyRange
  <2>3. hold[p] = u
    BY <2>2, <1>0 DEF GivenAt, ReadFailed
  <2>4. KeptAt(p)
    BY <2>2, <2>3, <1>1, <1>2
  <2>5. p \in holes' \/ (p \in DOMAIN backing' /\ backing'[p] = {})
    BY <2>1, <2>4 DEF KeptAt, SameAt
  <2>6. call'[u].op \in RemapCalls /\ p \in PagesOf(call'[u].addr, CopyLen(u)')
    BY <1>0, <1>3 DEF FaultAt
  <2> QED
    BY <2>5, <2>6 DEF FaultAt
<1> QED
  BY <1>4, <1>5, <1>6, <1>7 DEF OwnAt

(* What a step of t has to show: that it stays with its own pages, also     *)
(* when it starts to unmap, and that contents and locals are as they should *)
(* be.                                                                      *)
OwnStep(t) ==
    /\ Moves(t) /\ Frame(t)
    /\ \A p \in Pages : Unmaps(t, p)' => Unmaps(t, p) \/ hold[p] = t
    /\ \A p \in Pages : ContentsAt(p)'
    /\ OwnAt(t)'

LEMMA OwnSteps ==
    ASSUME IInv, PagesInv, OwnInv, NEW t \in Threads, OwnStep(t)
    PROVE  OwnInv'
<1>0. /\ Moves(t) /\ Frame(t) /\ OwnAt(t)'
      /\ \A p \in Pages : Unmaps(t, p)' => Unmaps(t, p) \/ hold[p] = t
      /\ \A p \in Pages : ContentsAt(p)'
  BY DEF OwnStep
<1>1. \A u \in Threads : OwnAt(u)'
  <2> SUFFICES ASSUME NEW u \in Threads PROVE OwnAt(u)'
    OBVIOUS
  <2>1. CASE u = t
    BY <2>1, <1>0
  <2>2. CASE u # t
    BY <2>2, <1>0, OthersOwn
  <2> QED
    BY <2>1, <2>2
<1>2. ASSUME NEW u \in Threads, u # t, NEW p \in Pages, Unmaps(t, p)', Unmaps(u, p)'
      PROVE  FALSE
  <2>1. Unmaps(u, p)
    BY <1>0, <1>2 DEF Unmaps, RangeOf, Moves
  <2>2. ~Unmaps(t, p)
    BY <1>2, <2>1 DEF OwnInv, Apart
  <2>3. hold[p] = t
    BY <1>0, <1>2, <2>2
  <2>4. ~Mine(u, p)
    BY <1>2, <2>3, HeldNotMine
  <2> QED
    BY <2>1, <2>4 DEF Mine
<1>3. ASSUME NEW u \in Threads, NEW v \in Threads, u # v, u # t, v # t,
             NEW p \in Pages, Unmaps(u, p)', Unmaps(v, p)'
      PROVE  FALSE
  <2>1. Unmaps(u, p) /\ Unmaps(v, p)
    BY <1>0, <1>3 DEF Unmaps, RangeOf, Moves
  <2> QED
    BY <2>1, <1>3 DEF OwnInv, Apart
<1>4. Apart'
  BY <1>2, <1>3 DEF Apart
<1> QED
  BY <1>0, <1>1, <1>4 DEF OwnInv

LEMMA IdleOwn ==
    ASSUME NEW t \in Threads, pc'[t] = "idle"
    PROVE  OwnAt(t)' /\ \A p \in Pages : ~Unmaps(t, p)'
BY DEF OwnAt, GivenAt, MadeAt, PlaceAt, FaultAt, ReadFailed, Unmaps

LEMMA ReturnOwn ==
    ASSUME IInv, NEW t \in Threads, Return(t)
    PROVE  pc'[t] = "idle" /\ OwnAt(t)' /\ \A p \in Pages : ~Unmaps(t, p)'
<1>1. pc'[t] = "idle"
  BY DEF IInv, TypeOK, Return, Goto
<1> QED
  BY <1>1, IdleOwn

LEMMA SameContents ==
    ASSUME OwnInv, Untouched, UNCHANGED <<mem, expect>>, NEW t
    PROVE  Frame(t) /\ \A p \in Pages : ContentsAt(p)'
BY DEF OwnInv, Untouched, Frame, KeptAt, SameAt, ContentsAt

(* The application's requests.                                              *)
LEMMA BeginOwn ==
    ASSUME IInv, OwnInv, NEW t \in Threads, NEW l, NEW c, Begin(t, l, c), Untouched,
           UNCHANGED <<mem, expect>>,
           l \in {"map", "unmap", "discard", "remap"},
           \A p \in PagesOf(c.addr, c.len) : hold[p] = t,
           l = "unmap" => c.op # "mmap_file",
           l = "map" => c.op \in MapCalls,
           l = "remap" => c.op \in RemapCalls,
           Moves(t)
    PROVE  OwnStep(t)
<1>1. pc'[t] = l /\ call'[t] = c
  BY DEF IInv, TypeOK, Begin, Goto
<1>2. hold' = hold
  BY DEF Untouched
<1>3. RangeOf(t)' = PagesOf(c.addr, c.len)
  BY <1>1 DEF RangeOf
<1>4. GivenAt(t)'
  BY <1>1, <1>2, <1>3 DEF GivenAt, ReadFailed
<1>5. MadeAt(t)' /\ PlaceAt(t)' /\ FaultAt(t)'
  BY <1>1 DEF MadeAt, PlaceAt, FaultAt
<1>6. \A p \in Pages : Unmaps(t, p)' => hold[p] = t
  BY <1>3 DEF Unmaps
<1>7. Frame(t) /\ \A p \in Pages : ContentsAt(p)'
  BY SameContents
<1> QED
  BY <1>4, <1>5, <1>6, <1>7 DEF OwnStep, OwnAt

LEMMA ArgsAre ==
    ASSUME NEW op, NEW a, NEW l, NEW n, NEW h, NEW pr
    PROVE  /\ Args(op, a, l, n, h, pr).op = op /\ Args(op, a, l, n, h, pr).addr = a
           /\ Args(op, a, l, n, h, pr).len = l
BY DEF Args

LEMMA MmapOwn ==
    ASSUME IInv, OwnInv, NEW t \in Threads, Mmap(t), Moves(t)
    PROVE  OwnStep(t)
<1>1. PICK op \in MapCalls, l \in Lens \ {0}, h \in Hints, pr \in Prots :
          Begin(t, "map", Args(op, 0, 0, l, h, pr))
  BY DEF Mmap
<1>2. PICK c : c = Args(op, 0, 0, l, h, pr)
  OBVIOUS
<1>3. c.op = op /\ c.addr = 0 /\ c.len = 0
  BY <1>2, ArgsAre
<1>4. PagesOf(0, 0) = {}
  <2>1. \A p \in Pages : ~(0 <= p /\ p < 0 + 0)
    BY PageTypes
  <2> QED
    BY <2>1 DEF PagesOf
<1>5. Untouched /\ UNCHANGED <<mem, expect>>
  BY DEF Mmap, Untouched, table, kernel, ghosts
<1>6. Begin(t, "map", c)
  BY <1>1, <1>2
<1> QED
  BY <1>3, <1>4, <1>5, <1>6, BeginOwn

LEMMA NamedOwn ==
    ASSUME IInv, OwnInv, Disciplined, NEW t \in Threads, Munmap(t) \/ Madvise(t) \/ Mremap(t),
           Moves(t)
    PROVE  OwnStep(t)
<1>1. Untouched /\ UNCHANGED <<mem, expect>>
  BY DEF Munmap, Madvise, Mremap, Untouched, table, kernel, ghosts
<1>2. ASSUME NEW op, NEW a, NEW l, NEW n, NEW h, NEW pr, NEW lb, May(t, a, l),
             Begin(t, lb, Args(op, a, l, n, h, pr)), lb \in {"unmap", "discard", "remap"},
             lb = "unmap" => op # "mmap_file", lb = "remap" => op \in RemapCalls
      PROVE  OwnStep(t)
  <2>1. PICK c : c = Args(op, a, l, n, h, pr)
    OBVIOUS
  <2>2. c.op = op /\ c.addr = a /\ c.len = l
    BY <2>1, ArgsAre
  <2>3. \A p \in PagesOf(c.addr, c.len) : hold[p] = t
    BY <1>2, <2>2 DEF May
  <2>4. Begin(t, lb, c)
    BY <1>2, <2>1
  <2> QED
    BY <1>1, <1>2, <2>2, <2>3, <2>4, BeginOwn
<1>3. CASE Munmap(t)
  <2>1. PICK a \in Pages, l \in Lens \ {0} :
            May(t, a, l) /\ Begin(t, "unmap", Args("munmap", a, l, 0, 0, {}))
    BY <1>3 DEF Munmap
  <2> QED
    BY <2>1, <1>2
<1>4. CASE Madvise(t)
  <2>1. PICK a \in Pages, l \in Lens \ {0} :
            May(t, a, l) /\ Begin(t, "discard", Args("madvise", a, l, 0, 0, {}))
    BY <1>4 DEF Madvise
  <2> QED
    BY <2>1, <1>2
<1>5. CASE Mremap(t)
  <2>1. PICK op \in RemapCalls \cap Calls, a \in Pages, l \in Lens, n \in GrowLens, h \in Hints,
             i \in 1..Len(regions) :
            May(t, a, l) /\ Begin(t, "remap", Args(op, a, l, n, h, regions[i].prot))
    BY <1>5 DEF Mremap
  <2> QED
    BY <2>1, <1>2
<1> QED
  BY <1>3, <1>4, <1>5

LEMMA StoreOwn ==
    ASSUME IInv, PagesInv, OwnInv, NEW t \in Threads, Store(t), Moves(t)
    PROVE  OwnStep(t)
<1>1. PICK p \in Pages : /\ hold[p] = t /\ mem' = [mem EXCEPT ![p] = "data"]
                         /\ expect' = [expect EXCEPT ![p] = "data"]
  BY DEF Store
<1>2. Untouched /\ pc' = pc /\ pc[t] = "idle"
  BY DEF Store, Untouched, table, kernel
<1>3. mem \in [Pages -> {"zero", "data"}] /\ expect \in [Pages -> {"zero", "data", "any"}]
  BY DEF IInv, TypeOK
<1>4. ASSUME NEW q \in Pages PROVE ContentsAt(q)' /\ (KeptAt(q) \/ Mine(t, q))
  <2>1. CASE q = p
    <3>1. mem'[q] = expect'[q]
      BY <1>1, <1>3, <2>1
    <3> QED
      BY <3>1, <1>1, <2>1 DEF ContentsAt, Mine
  <2>2. CASE q # p
    <3>1. mem'[q] = mem[q] /\ expect'[q] = expect[q] /\ ContentsAt(q)
      BY <1>1, <1>3, <2>2 DEF OwnInv
    <3> QED
      BY <3>1, <1>2 DEF ContentsAt, KeptAt, SameAt, Untouched
  <2> QED
    BY <2>1, <2>2
<1> QED
  BY <1>2, <1>4, IdleOwn DEF OwnStep, Frame

LEMMA mprotectOwn ==
    ASSUME IInv, PagesInv, OwnInv, Disciplined, NEW t \in Threads, mprotect(t), Moves(t)
    PROVE  OwnStep(t)
<1>1. PICK a \in Pages, l \in Nat : May(t, a, l) /\ \A p \in Pages \ PagesOf(a, l) : SameAt(p)
  BY mprotectPages
<1>2. pc[t] = "idle" /\ UNCHANGED <<pc, call, hold, holes, mem, expect>>
  BY mprotectPages
<1>3. Frame(t)
  BY <1>1, <1>2 DEF May, Frame, KeptAt, Mine
<1>4. \A p \in Pages : ContentsAt(p)'
  BY <1>2 DEF OwnInv, ContentsAt
<1> QED
  BY <1>2, <1>3, <1>4, IdleOwn DEF OwnStep

LEMMA RequestOwn ==
    ASSUME IInv, PagesInv, OwnInv, Disciplined, NEW t \in Threads, Request(t), Moves(t)
    PROVE  OwnStep(t)
BY MmapOwn, NamedOwn, StoreOwn, mprotectOwn DEF Request

(* A call that ends without having touched anything.                        *)
LEMMA QuietReturnOwn ==
    ASSUME IInv, OwnInv, NEW t \in Threads, Return(t), Untouched, UNCHANGED <<mem, expect>>,
           Moves(t)
    PROVE  OwnStep(t)
BY ReturnOwn, SameContents DEF OwnStep

(* A step that only brings its thread to another place.                     *)
LEMMA QuietGotoOwn ==
    ASSUME IInv, OwnInv, NEW t \in Threads, NEW l, Goto(t, l), SameArgs(t), Untouched,
           UNCHANGED <<mem, expect>>, Moves(t),
           pc[t] \notin {"idle", "unmap", "unmapping"},
           \/ l \in {"map", "resize"} /\ call[t].op \in RemapCalls
           \/ l = "alloc" /\ pc[t] \in {"map", "alloc"} /\ MapLen(t) = call[t].new
           \/ l = "unmap" /\ call[t].op \in RemapCalls
    PROVE  OwnStep(t)
<1>0. /\ pc'[t] = l /\ hold' = hold /\ call'[t].op = call[t].op /\ MapLen(t)' = MapLen(t)
      /\ call'[t].new = call[t].new
  BY DEF IInv, TypeOK, Goto, Untouched, SameArgs, MapLen
<1>1. GivenAt(t) /\ PlaceAt(t)
  BY DEF OwnInv, OwnAt
<1>2. RangeOf(t)' = RangeOf(t) /\ \A p \in RangeOf(t) : hold[p] = t
  BY <1>1 DEF GivenAt, ReadFailed, RangeOf, SameArgs
<1>3. ~ReadFailed(t)'
  BY <1>0 DEF ReadFailed, RemapCalls
<1>4. GivenAt(t)'
  BY <1>0, <1>2, <1>3 DEF GivenAt
<1>5. MadeAt(t)' /\ FaultAt(t)'
  BY <1>0 DEF MadeAt, FaultAt
<1>6. PlaceAt(t)'
  BY <1>0, <1>1 DEF PlaceAt
<1>7. \A p \in Pages : Unmaps(t, p)' => hold[p] = t
  BY <1>2 DEF Unmaps
<1>8. Frame(t) /\ \A p \in Pages : ContentsAt(p)'
  BY SameContents
<1> QED
  BY <1>4, <1>5, <1>6, <1>7, <1>8 DEF OwnStep, OwnAt

(* __mman_map.                                                              *)
LEMMA MapsNewOwn ==
    ASSUME IInv, PagesInv, OwnInv, NEW t \in Threads, MapsNew(t), Moves(t)
    PROVE  OwnStep(t)
<1>1. /\ pc[t] \in {"map", "alloc"} /\ pc'[t] = AfterMap(t) /\ MapLen(t) # 0
      /\ SameArgs(t) /\ UNCHANGED mem
      /\ MadeEffect(PagesOf(call'[t].base, MapLen(t)), t, MapProt(t), "any")
  BY DEF MapsNew
<1>2. GivenAt(t) /\ PlaceAt(t)
  BY DEF OwnInv, OwnAt
<1>3. /\ MapLen(t)' = MapLen(t) /\ MapLen(t) = call[t].new /\ RangeOf(t)' = RangeOf(t)
      /\ CopyLen(t)' = CopyLen(t) /\ call'[t].op = call[t].op /\ call'[t].new = call[t].new
  BY <1>1, MapLenNew DEF SameArgs, MapLen, RangeOf, CopyLen
<1>4. PICK S : S = NewRange(t)'
  OBVIOUS
<1>5. S = PagesOf(call'[t].base, MapLen(t)) /\ S \subseteq Pages
  BY <1>3, <1>4, PageTypes DEF NewRange
<1>6. /\ \A p \in S : NewAt(p, t, MapProt(t), "any")
      /\ \A p \in Pages \ S : KeptAt(p)
  BY <1>1, <1>5 DEF MadeEffect, KeptAt
<1>7. "W" \in MapProt(t)
  BY DEF MapProt
<1>8. pc'[t] \in {"fill", "copy"} /\ (pc'[t] = "fill" <=> call[t].op \in MapCalls)
  BY <1>1 DEF AfterMap
<1>9. GivenAt(t)'
  <2>1. \A p \in RangeOf(t) : hold[p] = t
    BY <1>1, <1>2 DEF GivenAt, ReadFailed
  <2>2. \A p \in RangeOf(t) : hold'[p] = t
    <3>1. RangeOf(t) \subseteq Pages
      BY PageTypes DEF RangeOf
    <3> QED
      BY <2>1, <3>1, <1>6 DEF KeptAt, SameAt, NewAt
  <2> QED
    BY <2>2, <1>3, <1>8 DEF GivenAt, ReadFailed
<1>10. MadeAt(t)'
  <2>1. \A p \in S : hold'[p] = t /\ expect'[p] = "any"
    BY <1>6 DEF NewAt
  <2>2. HaveKubridge => \A p \in S : p \in DOMAIN backing' /\ "W" \in backing'[p]
    BY <1>6, <1>7 DEF NewAt
  <2>3. Writable(NewRange(t))'
    BY <2>2, <1>4 DEF Writable
  <2> QED
    BY <2>1, <2>3, <1>4 DEF MadeAt
<1>11. PlaceAt(t)' /\ FaultAt(t)'
  BY <1>1, <1>2, <1>3, <1>8 DEF PlaceAt, FaultAt
<1>12. \A p \in Pages : ContentsAt(p)'
  BY <1>1, <1>6 DEF OwnInv, ContentsAt, KeptAt, SameAt, NewAt
<1>13. Frame(t)
  BY <1>6 DEF Frame, Mine, NewAt
<1>14. \A p \in Pages : ~Unmaps(t, p)'
  BY <1>8 DEF Unmaps
<1> QED
  BY <1>9, <1>10, <1>11, <1>12, <1>13, <1>14 DEF OwnStep, OwnAt

LEMMA MapOwn ==
    ASSUME IInv, IInv', PagesInv, OwnInv, NEW t \in Threads, InCall(t), Map(t), Moves(t)
    PROVE  OwnStep(t)
<1>1. CASE MapRefused(t) \/ MapReserveFails(t) \/ MapPoolFails(t) \/ AllocFails(t)
  <2>1. Return(t) /\ Untouched /\ UNCHANGED <<mem, expect>>
    BY <1>1 DEF MapRefused, MapReserveFails, MapPoolFails, AllocFails, Untouched, table, kernel,
                ghosts
  <2> QED
    BY <2>1, QuietReturnOwn
<1>2. CASE MapPool(t)
  <2>1. Goto(t, "alloc") /\ Untouched /\ UNCHANGED <<mem, expect>> /\ pc[t] = "map" /\ MapLen(t) # 0
    BY <1>2 DEF MapPool, Untouched, kernel, ghosts, Mapping, MapOk
  <2>2. SameArgs(t)
    BY <1>2, CallFacts DEF MapPool, SameArgs, CallType
  <2> QED
    BY <2>1, <2>2, QuietGotoOwn, MapLenNew
<1>3. CASE AllocNext(t)
  <2>1. Untouched /\ UNCHANGED <<mem, expect, pc>> /\ pc[t] = "alloc"
    BY <1>3 DEF AllocNext, Untouched, table, kernel, ghosts, Allocating
  <2>2. SameArgs(t)
    BY <1>3, CallFacts DEF AllocNext, SameArgs, CallType
  <2>3. Goto(t, "alloc")
    BY <2>1 DEF IInv, TypeOK, Goto
  <2>4. MapLen(t) = call[t].new
    BY <2>1 DEF OwnInv, OwnAt, PlaceAt
  <2> QED
    BY <2>1, <2>2, <2>3, <2>4, QuietGotoOwn
<1>4. CASE MapReserve(t) \/ AllocDone(t)
  BY <1>4, MapReservePages, AllocDonePages, MapsNewOwn
<1> QED
  BY <1>1, <1>2, <1>3, <1>4 DEF Map

(* Filling, copying, protecting what was mapped.                            *)
LEMMA WrittenOwn ==
    ASSUME IInv, PagesInv, OwnInv, NEW t \in Threads, Moves(t), Untouched, Goto(t, "protect"),
           UNCHANGED call, pc[t] \in {"fill", "copy"},
           \A p \in Pages : p \in NewRange(t) \/ expect'[p] = expect[p],
           \A p \in Pages : ContentsAt(p)'
    PROVE  OwnStep(t)
<1>0. pc'[t] = "protect" /\ hold' = hold
  BY DEF IInv, TypeOK, Goto, Untouched
<1>1. GivenAt(t) /\ MadeAt(t) /\ PlaceAt(t)
  BY DEF OwnInv, OwnAt
<1>2. NewRange(t)' = NewRange(t) /\ RangeOf(t)' = RangeOf(t) /\ MapLen(t)' = MapLen(t)
  BY DEF NewRange, RangeOf, MapLen
<1>3. GivenAt(t)'
  BY <1>0, <1>1, <1>2 DEF GivenAt, ReadFailed
<1>4. MadeAt(t)'
  BY <1>0, <1>1, <1>2 DEF MadeAt
<1>5. PlaceAt(t)' /\ FaultAt(t)'
  BY <1>0, <1>1, <1>2 DEF PlaceAt, FaultAt
<1>6. ASSUME NEW p \in Pages PROVE KeptAt(p) \/ Mine(t, p)
  <2>1. p \in NewRange(t) => hold[p] = t
    BY <1>1 DEF MadeAt
  <2>2. SameAt(p)
    BY DEF SameAt, Untouched
  <2> QED
    BY <2>1, <2>2 DEF KeptAt, Mine
<1>7. \A p \in Pages : ~Unmaps(t, p)'
  BY <1>0 DEF Unmaps
<1> QED
  BY <1>3, <1>4, <1>5, <1>6, <1>7 DEF OwnStep, OwnAt, Frame

LEMMA MmapFillOwn ==
    ASSUME IInv, PagesInv, OwnInv, NEW t \in Threads, MmapFill(t), Moves(t)
    PROVE  OwnStep(t)
<1>1. /\ pc[t] = "fill" /\ Goto(t, "protect") /\ UNCHANGED call /\ Untouched
  BY DEF MmapFill, Untouched, table, kernel
<1>2. PICK k : /\ mem' = Filled(t, k)
               /\ expect' = [p \in Pages |->
                     IF p \notin PagesOf(call[t].base, MapLen(t)) THEN expect[p]
                     ELSE IF p < call[t].base + k THEN "data" ELSE "zero"]
  BY DEF MmapFill
<1>3. ASSUME NEW p \in Pages
      PROVE  (p \in NewRange(t) \/ expect'[p] = expect[p]) /\ ContentsAt(p)'
  <2>1. CASE p \in NewRange(t)
    <3>1. mem'[p] = expect'[p]
      BY <1>2, <2>1 DEF Filled, NewRange
    <3> QED
      BY <3>1, <2>1 DEF ContentsAt
  <2>2. CASE p \notin NewRange(t)
    <3>1. mem'[p] = mem[p] /\ expect'[p] = expect[p] /\ ContentsAt(p)
      BY <1>2, <2>2 DEF Filled, NewRange, OwnInv
    <3> QED
      BY <3>1, <1>1 DEF ContentsAt, Untouched
  <2> QED
    BY <2>1, <2>2
<1> QED
  BY <1>1, <1>3, WrittenOwn

LEMMA RemapCopyOwn ==
    ASSUME IInv, PagesInv, OwnInv, NEW t \in Threads, RemapCopy(t), Moves(t)
    PROVE  OwnStep(t)
<1>1. /\ pc[t] = "copy" /\ Goto(t, "protect") /\ UNCHANGED call /\ Untouched /\ CopyLegal(t)
      /\ mem' = Copied(t, mem) /\ expect' = Copied(t, expect)
  BY DEF RemapCopy, Untouched, table, kernel
<1>2. PICK D : D = PagesOf(call[t].base, CopyLen(t))
  OBVIOUS
<1>3. PICK S : S = PagesOf(call[t].addr, CopyLen(t))
  OBVIOUS
<1>4. D \subseteq NewRange(t)
  BY <1>1, <1>2, CopyRange DEF OwnInv, OwnAt, PlaceAt
<1>5. \A p \in S : p \in Pages /\ p \notin holes
  <2>1. S \subseteq Pages
    BY <1>3, PageTypes
  <2>2. HaveKubridge => \A p \in S : p \in DOMAIN backing
    BY <1>1, <1>3 DEF CopyLegal, Readable
  <2> QED
    BY <2>1, <2>2 DEF PagesInv, PageAt
<1>6. ASSUME NEW p \in D PROVE p - call[t].base + call[t].addr \in S
  <2>1. p \in Pages /\ call[t].base <= p /\ p < call[t].base + CopyLen(t)
    BY <1>2 DEF PagesOf
  <2>2. p \in Nat /\ call[t].addr \in Nat /\ call[t].base \in Nat /\ CopyLen(t) \in Nat
    BY <2>1, PageTypes, CallFacts, CopyRange
  <2>3. call[t].addr + CopyLen(t) <= AddrSpace
    BY <1>1 DEF CopyLegal
  <2>4. PICK q : q = p - call[t].base + call[t].addr
    OBVIOUS
  <2>5. q \in Nat /\ call[t].addr <= q /\ q < call[t].addr + CopyLen(t) /\ q < AddrSpace
    BY <2>1, <2>2, <2>3, <2>4, MmanAssumption
  <2>6. q \in Pages
    BY <2>5, MmanAssumption DEF Pages
  <2> QED
    BY <2>4, <2>5, <2>6, <1>3 DEF PagesOf
<1>7. ASSUME NEW p \in Pages
      PROVE  (p \in NewRange(t) \/ expect'[p] = expect[p]) /\ ContentsAt(p)'
  <2>1. CASE p \in D
    <3>1. PICK q \in S : q = p - call[t].base + call[t].addr
      BY <1>6, <2>1
    <3>2. mem'[p] = mem[q] /\ expect'[p] = expect[q]
      BY <1>1, <1>2, <2>1, <3>1 DEF Copied
    <3>3. expect[q] = "any" \/ mem[q] = expect[q]
      BY <1>5 DEF OwnInv, ContentsAt
    <3> QED
      BY <2>1, <1>4, <3>2, <3>3 DEF ContentsAt
  <2>2. CASE p \notin D
    <3>1. mem'[p] = mem[p] /\ expect'[p] = expect[p] /\ ContentsAt(p)
      BY <1>1, <1>2, <2>2 DEF Copied, OwnInv
    <3> QED
      BY <3>1, <1>1 DEF ContentsAt, Untouched
  <2> QED
    BY <2>1, <2>2
<1> QED
  BY <1>1, <1>7, WrittenOwn

LEMMA MmapReadFailsOwn ==
    ASSUME IInv, PagesInv, OwnInv, NEW t \in Threads, MmapReadFails(t), Moves(t)
    PROVE  OwnStep(t)
<1>1. /\ pc[t] = "fill" /\ pc'[t] = "unmap" /\ call'[t].op = "mmap_file"
      /\ RangeOf(t)' = NewRange(t) /\ Drop(NewRange(t))
      /\ UNCHANGED <<regions, backing, holes, diverged, stranded, expect>>
  BY MmapReadFailsPages DEF NewRange
<1>2. PICK S : S = NewRange(t)
  OBVIOUS
<1>3. \A p \in S : hold[p] = t /\ expect[p] = "any"
  BY <1>1, <1>2 DEF OwnInv, OwnAt, MadeAt
<1>4. S \subseteq Pages /\ t # NoThread
  BY <1>2, PageTypes, MmanAssumption DEF NewRange
<1>5. \A p \in Pages : hold'[p] = IF p \in S THEN NoThread ELSE hold[p]
  BY <1>1, <1>2, FillAt DEF Drop
<1>6. GivenAt(t)'
  <2>1. \A p \in S : ProtsOf(regions, p) # {}
    BY <1>3, <1>4 DEF PagesInv, PageAt
  <2>2. \A p \in S : hold'[p] = NoThread /\ ProtsOf(regions', p) # {}
    BY <1>1, <1>4, <1>5, <2>1
  <2> QED
    BY <2>2, <1>1, <1>2 DEF GivenAt, ReadFailed
<1>7. MadeAt(t)' /\ PlaceAt(t)' /\ FaultAt(t)'
  BY <1>1 DEF MadeAt, PlaceAt, FaultAt
<1>8. \A p \in Pages : Unmaps(t, p)' => hold[p] = t
  BY <1>1, <1>2, <1>3 DEF Unmaps
<1>9. \A p \in Pages : p \notin S => mem'[p] = mem[p]
  <2>1. PICK k \in 0..(MapLen(t) - 1) : mem' = Fill(mem, PagesOf(call[t].base, k), "data")
    BY DEF MmapReadFails
  <2>2. PagesOf(call[t].base, k) \subseteq S
    <3>1. MapLen(t) \in Nat /\ call[t].base \in Nat
      BY CallFacts, PageTypes, MmanAssumption DEF MapLen, MMAN_PAGE_ALIGN
    <3> SUFFICES ASSUME NEW p \in PagesOf(call[t].base, k) PROVE p \in S
      OBVIOUS
    <3>2. p \in Pages /\ call[t].base <= p /\ p < call[t].base + k
      BY DEF PagesOf
    <3>3. p \in Nat
      BY <3>2, PageTypes
    <3>4. p < call[t].base + MapLen(t)
      BY <2>1, <3>1, <3>2, <3>3
    <3> QED
      BY <3>2, <3>4, <1>2 DEF NewRange, PagesOf
  <2> QED
    BY <2>1, <2>2, FillAt
<1>10. ASSUME NEW p \in Pages PROVE ContentsAt(p)' /\ (KeptAt(p) \/ Mine(t, p))
  <2>1. CASE p \in S
    BY <2>1, <1>1, <1>3 DEF ContentsAt, Mine
  <2>2. CASE p \notin S
    <3>1. mem'[p] = mem[p] /\ ContentsAt(p) /\ hold'[p] = hold[p]
      BY <1>5, <1>9, <2>2 DEF OwnInv
    <3> QED
      BY <3>1, <1>1 DEF ContentsAt, KeptAt, SameAt
  <2> QED
    BY <2>1, <2>2
<1> QED
  BY <1>6, <1>7, <1>8, <1>10 DEF OwnStep, OwnAt, Frame

LEMMA ProtectedOwn ==
    ASSUME IInv, OwnInv, NEW t \in Threads, Moves(t), AfterProtect(t), pc[t] = "protect",
           UNCHANGED <<hold, holes, mem, expect>>,
           \A p \in Pages \ NewRange(t) : SameAt(p)
    PROVE  OwnStep(t)
<1>1. GivenAt(t) /\ MadeAt(t) /\ PlaceAt(t)
  BY DEF OwnInv, OwnAt
<1>2. \A p \in Pages : ContentsAt(p)'
  BY DEF OwnInv, ContentsAt
<1>3. Frame(t)
  <2>1. \A p \in NewRange(t) : hold[p] = t
    BY <1>1 DEF MadeAt
  <2> QED
    BY <2>1 DEF Frame, KeptAt, Mine
<1>4. CASE call[t].op \in MapCalls
  <2>1. Return(t)
    BY <1>4 DEF AfterProtect
  <2> QED
    BY <2>1, <1>2, <1>3, ReturnOwn DEF OwnStep
<1>5. CASE call[t].op \notin MapCalls
  <2>1. pc'[t] = "unmap" /\ call' = call
    BY <1>5 DEF AfterProtect, Goto, IInv, TypeOK
  <2>2. RangeOf(t)' = RangeOf(t) /\ \A p \in RangeOf(t) : hold[p] = t
    BY <1>1, <2>1 DEF GivenAt, ReadFailed, RangeOf
  <2>3. ~ReadFailed(t)'
    BY <2>1, <1>5 DEF ReadFailed, MapCalls
  <2>4. GivenAt(t)'
    BY <2>2, <2>3 DEF GivenAt
  <2>5. MadeAt(t)' /\ PlaceAt(t)' /\ FaultAt(t)'
    BY <2>1 DEF MadeAt, PlaceAt, FaultAt
  <2>6. \A p \in Pages : Unmaps(t, p)' => hold[p] = t
    BY <2>2 DEF Unmaps
  <2> QED
    BY <2>4, <2>5, <2>6, <1>2, <1>3 DEF OwnStep, OwnAt
<1> QED
  BY <1>4, <1>5

LEMMA ProtectOwn ==
    ASSUME IInv, PagesInv, OwnInv, NEW t \in Threads, KeepWritable(t) \/ Protect(t), Moves(t)
    PROVE  OwnStep(t)
<1>1. CASE KeepWritable(t)
  <2>1. /\ pc[t] = "protect" /\ AfterProtect(t) /\ UNCHANGED <<hold, holes, mem, expect>>
        /\ \A p \in Pages : SameAt(p)
    BY <1>1 DEF KeepWritable, table, kernel, ghosts, SameAt
  <2> QED
    BY <2>1, ProtectedOwn
<1>2. CASE Protect(t)
  <2>1. /\ pc[t] = "protect" /\ AfterProtect(t) /\ UNCHANGED <<hold, holes, mem, expect>>
        /\ \A p \in Pages \ NewRange(t) : SameAt(p)
    BY <1>2, ProtectPages DEF NewRange
  <2> QED
    BY <2>1, ProtectedOwn
<1> QED
  BY <1>1, <1>2

(* What was mapped can be written, so that only the source of mremap's copy *)
(* can be at fault.                                                         *)
LEMMA FaultOwn ==
    ASSUME IInv, PagesInv, OwnInv, NEW t \in Threads, Fault(t), Moves(t)
    PROVE  OwnStep(t)
<1>0. Goto(t, "fault") /\ UNCHANGED call /\ Untouched /\ UNCHANGED <<mem, expect>>
  BY DEF Fault, Untouched, table, kernel, ghosts
<1>1. pc'[t] = "fault" /\ pc[t] \in {"fill", "copy"}
  BY <1>0 DEF Fault, Goto, IInv, TypeOK
<1>2. GivenAt(t) /\ MadeAt(t) /\ PlaceAt(t)
  BY DEF OwnInv, OwnAt
<1>3. pc[t] = "copy" /\ ~CopyLegal(t)
  BY <1>1, <1>2 DEF Fault, MadeAt, NewRange
<1>4. Writable(PagesOf(call[t].base, CopyLen(t)))
  <2>1. PagesOf(call[t].base, CopyLen(t)) \subseteq NewRange(t) /\ Writable(NewRange(t))
    BY <1>2, <1>3, CopyRange DEF MadeAt, PlaceAt
  <2> QED
    BY <2>1 DEF Writable
<1>5. call[t].addr + CopyLen(t) <= AddrSpace
  <2>1. call[t].addr + call[t].len < AddrSpace
    BY <1>3 DEF IInv, LocalsAt, NoWrap
  <2>2. call[t].addr \in Nat /\ call[t].len \in Nat /\ CopyLen(t) \in Nat /\ CopyLen(t) <= call[t].len
    BY CallFacts, CopyRange
  <2> QED
    BY <2>1, <2>2, MmanAssumption
<1>6. PICK p \in PagesOf(call[t].addr, CopyLen(t)) :
          HaveKubridge /\ ~(p \in DOMAIN backing /\ backing[p] # {})
  BY <1>3, <1>4, <1>5 DEF CopyLegal, Readable
<1>7. p \in Pages /\ p \in RangeOf(t)
  BY <1>6, CopyRange, PageTypes
<1>8. hold[p] = t /\ t # NoThread
  BY <1>2, <1>3, <1>7, MmanAssumption DEF GivenAt, ReadFailed
<1>9. p \in holes \/ (p \in DOMAIN backing /\ backing[p] = {})
  BY <1>6, <1>7, <1>8 DEF PagesInv, PageAt
<1>10. FaultAt(t)'
  <2>1. p \in PagesOf(call'[t].addr, CopyLen(t)') /\ call'[t].op \in RemapCalls
    BY <1>0, <1>2, <1>3, <1>6 DEF PlaceAt, CopyLen
  <2>2. p \in holes' \/ (p \in DOMAIN backing' /\ backing'[p] = {})
    BY <1>0, <1>9 DEF Untouched
  <2> QED
    BY <2>1, <2>2 DEF FaultAt
<1>11. GivenAt(t)'
  BY <1>0, <1>1, <1>2, <1>3 DEF GivenAt, ReadFailed, RangeOf, Untouched
<1>12. MadeAt(t)' /\ PlaceAt(t)' /\ \A q \in Pages : ~Unmaps(t, q)'
  BY <1>1 DEF MadeAt, PlaceAt, Unmaps
<1>13. Frame(t) /\ \A q \in Pages : ContentsAt(q)'
  BY <1>0, SameContents
<1> QED
  BY <1>10, <1>11, <1>12, <1>13 DEF OwnStep, OwnAt

(* __mman_discard and __mman_resize.                                        *)
LEMMA DiscardOwn ==
    ASSUME IInv, PagesInv, OwnInv, NEW t \in Threads,
           Discard(t) \/ DiscardFails(t) \/ DiscardRefused(t), Moves(t)
    PROVE  OwnStep(t)
<1>1. CASE DiscardRefused(t)
  <2>1. Return(t) /\ Untouched /\ UNCHANGED <<mem, expect>>
    BY <1>1 DEF DiscardRefused, Untouched, table, kernel, ghosts
  <2> QED
    BY <2>1, QuietReturnOwn
<1>2. ASSUME Return(t), pc[t] = "discard", NEW S \in SUBSET RangeOf(t),
             \A p \in Pages \ S : KeptAt(p) /\ mem'[p] = mem[p],
             \A p \in S : ContentsAt(p)'
      PROVE  OwnStep(t)
  <2>1. \A p \in S : hold[p] = t
    BY <1>2 DEF OwnInv, OwnAt, GivenAt, ReadFailed
  <2>2. Frame(t)
    BY <1>2, <2>1 DEF Frame, Mine
  <2>3. \A p \in Pages : ContentsAt(p)'
    BY <1>2 DEF OwnInv, ContentsAt, KeptAt, SameAt
  <2> QED
    BY <1>2, <2>2, <2>3, ReturnOwn DEF OwnStep
<1>3. CASE Discard(t)
  <2>1. PICK S \in SUBSET RangeOf(t) :
            /\ \A p \in Pages \ S : SameAt(p)
            /\ mem' = Fill(mem, S, "zero") /\ expect' = Fill(expect, S, "zero")
    BY <1>3, DiscardPagesInv
  <2>2. \A p \in Pages \ S : KeptAt(p) /\ mem'[p] = mem[p]
    BY <2>1, FillAt DEF KeptAt
  <2>3. \A p \in S : ContentsAt(p)'
    <3>1. S \subseteq Pages
      BY PageTypes DEF RangeOf
    <3> QED
      BY <3>1, <2>1, FillAt DEF ContentsAt
  <2>4. Return(t) /\ pc[t] = "discard"
    BY <1>3, DiscardPagesInv
  <2> QED
    BY <2>2, <2>3, <2>4, <1>2
<1>4. CASE DiscardFails(t)
  <2>1. PICK S \in SUBSET RangeOf(t) :
            /\ \A p \in Pages \ S : SameAt(p)
            /\ \A p \in S : p \in holes'
            /\ UNCHANGED <<mem, expect, hold>>
    BY <1>4, DiscardFailsPages
  <2>2. \A p \in Pages \ S : KeptAt(p) /\ mem'[p] = mem[p]
    BY <2>1 DEF KeptAt
  <2>3. \A p \in S : ContentsAt(p)'
    BY <2>1 DEF ContentsAt
  <2>4. Return(t) /\ pc[t] = "discard"
    BY <1>4, DiscardFailsPages
  <2> QED
    BY <2>2, <2>3, <2>4, <1>2
<1> QED
  BY <1>1, <1>3, <1>4

LEMMA ResizeOwn ==
    ASSUME IInv, IInv', PagesInv, OwnInv, NEW t \in Threads, ResizeShrink(t) \/ ResizeGrow(t),
           Moves(t)
    PROVE  OwnStep(t)
<1>1. CASE ResizeShrink(t)
  <2>1. PICK S \in SUBSET RangeOf(t) : CutEffect(S)
    BY <1>1, ResizeShrinkPages
  <2>2. Return(t) /\ UNCHANGED mem /\ pc[t] = "resize"
    BY <1>1, ResizeShrinkPages
  <2>3. \A p \in S : hold[p] = t /\ expect'[p] = "any"
    BY <2>1, <2>2 DEF OwnInv, OwnAt, GivenAt, ReadFailed, CutEffect, GoneAt
  <2>4. \A p \in Pages \ S : KeptAt(p)
    BY <2>1 DEF CutEffect, KeptAt
  <2>5. Frame(t)
    BY <2>3, <2>4 DEF Frame, Mine
  <2>6. \A p \in Pages : ContentsAt(p)'
    BY <2>2, <2>3, <2>4 DEF OwnInv, ContentsAt, KeptAt, SameAt
  <2> QED
    BY <2>2, <2>5, <2>6, ReturnOwn DEF OwnStep
<1>2. CASE ResizeGrow(t)
  <2>1. PICK S \in SUBSET Pages, pr \in SUBSET Bits :
            MadeEffect(S, t, pr, "zero") /\ mem' = Fill(mem, S, "zero")
    BY <1>2, ResizeGrowPages
  <2>2. Return(t)
    BY <1>2, ResizeGrowPages
  <2>3. \A p \in S : ProtsOf(regions, p) = {} /\ expect'[p] = "zero" /\ mem'[p] = "zero"
    BY <2>1, FillAt DEF MadeEffect, NewAt
  <2>4. \A p \in Pages \ S : KeptAt(p) /\ mem'[p] = mem[p]
    BY <2>1, FillAt DEF MadeEffect, KeptAt
  <2>5. Frame(t)
    BY <2>3, <2>4 DEF Frame, Mine
  <2>6. \A p \in Pages : ContentsAt(p)'
    BY <2>3, <2>4 DEF OwnInv, ContentsAt, KeptAt, SameAt
  <2> QED
    BY <2>2, <2>5, <2>6, ReturnOwn DEF OwnStep
<1> QED
  BY <1>1, <1>2

LEMMA RemapOwn ==
    ASSUME IInv, IInv', PagesInv, OwnInv, NEW t \in Threads, Remap(t), Moves(t)
    PROVE  OwnStep(t)
<1>1. CASE RemapUnmapped(t) \/ ResizeSame(t)
  <2>1. Return(t) /\ Untouched /\ UNCHANGED <<mem, expect>>
    BY <1>1 DEF RemapUnmapped, ResizeSame, Untouched, table, kernel, ghosts
  <2> QED
    BY <2>1, QuietReturnOwn
<1>2. CASE RemapMapped(t)
  <2>1. /\ pc[t] = "remap" /\ Untouched /\ UNCHANGED <<mem, expect>> /\ call' = call
        /\ Goto(t, "map") \/ Goto(t, "resize")
    BY <1>2 DEF RemapMapped, Untouched, table, kernel, ghosts
  <2>2. call[t].op \in RemapCalls
    BY <2>1 DEF OwnInv, OwnAt, PlaceAt
  <2> QED
    BY <2>1, <2>2, QuietGotoOwn DEF SameArgs
<1>3. CASE ResizeRefused(t)
  <2>1. /\ pc[t] = "resize" /\ Untouched /\ UNCHANGED <<mem, expect>>
        /\ Return(t) \/ (Goto(t, "map") /\ call' = call)
    BY <1>3 DEF ResizeRefused, Untouched, table, kernel, ghosts
  <2>2. call[t].op \in RemapCalls
    BY <2>1 DEF OwnInv, OwnAt, PlaceAt
  <2> QED
    BY <2>1, <2>2, QuietGotoOwn, QuietReturnOwn DEF SameArgs
<1> QED
  BY <1>1, <1>2, <1>3, ResizeOwn, RemapCopyOwn DEF Remap

(* __mman_unmap touches no page but those it was given.                     *)
LEMMA LoopOwn ==
    ASSUME IInv, OwnInv, NEW t \in Threads, Moves(t), pc[t] \in {"unmap", "unmapping"},
           (RangeOf(t)' = RangeOf(t) /\ pc'[t] = "unmapping") \/ Return(t),
           \A p \in Pages \ RangeOf(t) : KeptAt(p),
           \A p \in Pages : ContentsAt(p)'
    PROVE  OwnStep(t)
<1>1. Frame(t)
  BY DEF Frame, Mine, Unmaps
<1>2. CASE Return(t)
  BY <1>1, <1>2, ReturnOwn DEF OwnStep
<1>3. CASE RangeOf(t)' = RangeOf(t) /\ pc'[t] = "unmapping"
  <2>1. OwnAt(t)'
    BY <1>3 DEF OwnAt, GivenAt, MadeAt, PlaceAt, FaultAt, ReadFailed
  <2>2. \A p \in Pages : Unmaps(t, p)' => Unmaps(t, p)
    BY <1>3 DEF Unmaps
  <2> QED
    BY <1>1, <2>1, <2>2 DEF OwnStep
<1> QED
  BY <1>2, <1>3

LEMMA CutOwn ==
    ASSUME IInv, OwnInv, NEW t \in Threads, Moves(t), Touched(t), CutEffect(Cut(t)), UNCHANGED mem,
           (RangeOf(t)' = RangeOf(t) /\ pc'[t] = "unmapping") \/ Return(t)
    PROVE  OwnStep(t)
<1>1. PICK S : S = Cut(t)
  OBVIOUS
<1>2. S \subseteq RangeOf(t) /\ pc[t] = "unmapping"
  BY <1>1, CutIs DEF Touched, InLoop
<1>3. \A p \in S : expect'[p] = "any"
  BY <1>1 DEF CutEffect, GoneAt
<1>4. \A p \in Pages \ S : KeptAt(p)
  BY <1>1 DEF CutEffect, KeptAt
<1>5. \A p \in Pages : ContentsAt(p)'
  BY <1>3, <1>4 DEF OwnInv, ContentsAt, KeptAt, SameAt
<1> QED
  BY <1>2, <1>4, <1>5, LoopOwn

LEMMA UnmapNoRoomOwn ==
    ASSUME IInv, PagesInv, OwnInv, NEW t \in Threads, UnmapNoRoom(t), Moves(t)
    PROVE  OwnStep(t)
<1>1. PICK S : S = Cut(t)
  OBVIOUS
<1>2. /\ Splits(t) /\ Return(t) /\ UNCHANGED <<regions, mem, expect, diverged>>
      /\ backing' = backing \/ backing' = Decommit(S)
      /\ holes' = holes \/ holes' = holes \cup S
      /\ stranded' = stranded \/ stranded' = stranded \cup S
      /\ hold' = hold \/ hold' = Fill(hold, S, t)
  BY <1>1 DEF UnmapNoRoom, DecommitCut, table
<1>3. RangeOf(t) = S /\ pc[t] = "unmapping"
  BY <1>1, <1>2, SplitRange DEF Touched, InLoop
<1>4. ASSUME NEW p \in Pages, p \notin S PROVE KeptAt(p)
  <2>1. hold'[p] = hold[p] /\ (p \in holes' <=> p \in holes) /\ (p \in stranded' <=> p \in stranded)
    BY <1>2, <1>4, FillAt
  <2>2. (p \in DOMAIN backing' <=> p \in DOMAIN backing) /\ (p \in DOMAIN backing => backing'[p] = backing[p])
    BY <1>2, <1>4 DEF Decommit
  <2> QED
    BY <1>2, <2>1, <2>2 DEF KeptAt, SameAt
<1>5. \A p \in Pages : ContentsAt(p)'
  BY <1>2 DEF OwnInv, ContentsAt
<1> QED
  BY <1>2, <1>3, <1>4, <1>5, LoopOwn

LEMMA UnmapOwn ==
    ASSUME IInv, IInv', PagesInv, OwnInv, NEW t \in Threads, Unmap(t), Moves(t)
    PROVE  OwnStep(t)
<1>1. CASE UnmapRefused(t) \/ UnmapDone(t)
  <2>1. Return(t) /\ Untouched /\ UNCHANGED <<mem, expect>>
    BY <1>1 DEF UnmapRefused, UnmapDone, Untouched, table, kernel, ghosts
  <2> QED
    BY <2>1, QuietReturnOwn
<1>2. CASE UnmapLock(t)
  <2>1. /\ Drop(RangeOf(t)) /\ pc[t] = "unmap" /\ pc'[t] = "unmapping" /\ RangeOf(t)' = RangeOf(t)
        /\ UNCHANGED <<regions, backing, holes, diverged, stranded, mem, expect>>
    BY <1>2, UnmapLockPages
  <2>2. \A p \in Pages \ RangeOf(t) : hold'[p] = hold[p]
    BY <2>1, FillAt DEF Drop
  <2>3. \A p \in Pages \ RangeOf(t) : KeptAt(p)
    BY <2>1, <2>2 DEF KeptAt, SameAt
  <2>4. \A p \in Pages : ContentsAt(p)'
    BY <2>1 DEF OwnInv, ContentsAt
  <2> QED
    BY <2>1, <2>3, <2>4, LoopOwn
<1>3. CASE UnmapSkip(t)
  <2>1. Untouched /\ UNCHANGED <<mem, expect, pc>> /\ pc[t] = "unmapping"
    BY <1>3 DEF UnmapSkip, InLoop, Untouched, table, kernel, ghosts
  <2>2. RangeOf(t)' = RangeOf(t)
    BY <1>3, CallFacts DEF UnmapSkip, RangeOf, CallType
  <2>3. \A p \in Pages : KeptAt(p) /\ ContentsAt(p)'
    BY <2>1 DEF OwnInv, ContentsAt, KeptAt, SameAt, Untouched
  <2> QED
    BY <2>1, <2>2, <2>3, LoopOwn
<1>4. CASE UnmapWhole(t)
  <2>1. Touched(t) /\ CutEffect(Cut(t)) /\ UNCHANGED <<pc, call, hold, mem>>
    BY <1>4, UnmapWholePages DEF UnmapWhole
  <2>2. RangeOf(t)' = RangeOf(t) /\ pc'[t] = "unmapping"
    BY <2>1 DEF RangeOf, Touched, InLoop
  <2> QED
    BY <2>1, <2>2, CutOwn
<1>5. CASE UnmapHead(t) \/ UnmapTail(t)
  <2>1. Touched(t) /\ CutEffect(Cut(t)) /\ UNCHANGED <<pc, hold, mem>> /\ RangeOf(t)' = RangeOf(t)
    BY <1>5, UnmapHeadPages, UnmapTailPages DEF UnmapHead, UnmapTail
  <2>2. pc'[t] = "unmapping"
    BY <2>1 DEF Touched, InLoop
  <2> QED
    BY <2>1, <2>2, CutOwn
<1>6. CASE UnmapSplit(t)
  <2>1. Touched(t) /\ CutEffect(Cut(t)) /\ UNCHANGED <<hold, mem>> /\ Return(t)
    BY <1>6, UnmapSplitPages DEF UnmapSplit, Splits
  <2> QED
    BY <2>1, CutOwn
<1> QED
  BY <1>1, <1>2, <1>3, <1>4, <1>5, <1>6, UnmapNoRoomOwn DEF Unmap

LEMMA CallOwn ==
    ASSUME IInv, IInv', PagesInv, OwnInv, NEW t \in Threads, InCall(t)
    PROVE  OwnStep(t)
<1>1. Moves(t)
  BY CallMoves
<1> QED
  BY <1>1, MapOwn, UnmapOwn, RemapOwn, MmapFillOwn, MmapReadFailsOwn, ProtectOwn, DiscardOwn,
     FaultOwn
  DEF InCall

LEMMA InitOwn == Init => OwnInv
<1> SUFFICES ASSUME Init PROVE OwnInv
  OBVIOUS
<1>1. /\ \A t \in Threads : pc[t] = "idle"
      /\ \A p \in Pages : expect[p] = "any"
  BY DEF Init
<1>2. \A p \in Pages : ContentsAt(p)
  BY <1>1 DEF ContentsAt
<1>3. \A t \in Threads : OwnAt(t)
  BY <1>1 DEF OwnAt, GivenAt, MadeAt, PlaceAt, FaultAt, ReadFailed
<1>4. Apart
  BY <1>1 DEF Apart, Unmaps
<1> QED
  BY <1>2, <1>3, <1>4 DEF OwnInv

LEMMA FiniOwn ==
    ASSUME IInv, PagesInv, Fini
    PROVE  OwnInv'
<1>1. \A t \in Threads : pc'[t] = "idle"
  BY DEF Fini
<1>2. \A p \in Pages : ContentsAt(p)'
  BY FiniPages DEF ContentsAt
<1>3. \A t \in Threads : OwnAt(t)'
  BY <1>1, IdleOwn
<1>4. Apart'
  BY <1>1 DEF Apart, Unmaps
<1> QED
  BY <1>2, <1>3, <1>4 DEF OwnInv

LEMMA SameOwn ==
    ASSUME OwnInv, UNCHANGED vars
    PROVE  OwnInv'
<1>0. UNCHANGED <<regions, mem, pc, call, hold, expect, holes, backing>>
  BY DEF vars, table, kernel, ghosts
<1>1. \A p \in Pages : ContentsAt(p)'
  BY <1>0 DEF OwnInv, ContentsAt
<1>2. Apart'
  BY <1>0 DEF OwnInv, Apart, Unmaps, RangeOf
<1>3. ASSUME NEW t \in Threads PROVE OwnAt(t)'
  <2>1. GivenAt(t)'
    BY <1>0 DEF OwnInv, OwnAt, GivenAt, ReadFailed, RangeOf
  <2>2. MadeAt(t)'
    BY <1>0 DEF OwnInv, OwnAt, MadeAt, NewRange, MapLen, Writable
  <2>3. PlaceAt(t)' /\ FaultAt(t)'
    BY <1>0 DEF OwnInv, OwnAt, PlaceAt, FaultAt, MapLen, CopyLen
  <2> QED
    BY <2>1, <2>2, <2>3 DEF OwnAt
<1> QED
  BY <1>1, <1>2, <1>3 DEF OwnInv

LEMMA StepOwn ==
    Disciplined => (IInv /\ IInv' /\ PagesInv /\ OwnInv /\ [Next]_vars => OwnInv')
<1> SUFFICES ASSUME Disciplined, IInv, IInv', PagesInv, OwnInv, [Next]_vars
             PROVE  OwnInv'
  OBVIOUS
<1>1. CASE UNCHANGED vars
  BY <1>1, SameOwn
<1>2. CASE Fini
  BY <1>2, FiniOwn
<1>3. ASSUME NEW t \in Threads, Request(t) PROVE OwnInv'
  BY <1>3, RequestMoves, RequestOwn, OwnSteps
<1>4. ASSUME NEW t \in Threads, InCall(t) PROVE OwnInv'
  BY <1>4, CallOwn, OwnSteps
<1> QED
  BY <1>1, <1>2, <1>3, <1>4 DEF Next

LEMMA OwnInvariant ==
    ASSUME Disciplined
    PROVE  Spec => []OwnInv
<1>1. Init => OwnInv
  BY InitOwn
<1>2. IInv /\ IInv' /\ PagesInv /\ OwnInv /\ [Next]_vars => OwnInv'
  BY StepOwn
<1> QED
  BY <1>1, <1>2, MmanInvariant, PagesInvariant, PTL DEF Spec

(* When each thread only names pages that it mapped, it finds in them what  *)
(* it stored, what mmap's pread put there, or zero: no mmap, mremap,        *)
(* madvise or munmap of another thread, in whatever order their critical    *)
(* sections and their unlocked memset and memcpy come, writes into them.    *)
THEOREM MmanContents ==
    ASSUME Disciplined
    PROVE  Spec => []ContentsKept
<1>1. OwnInv => ContentsKept
  BY DEF OwnInv, ContentsAt, ContentsKept
<1> QED
  BY <1>1, OwnInvariant, PTL

(* With such an application mmap never faults where it clears or fills the  *)
(* new pages, and mremap only where it reads a page that has no memory or   *)
(* that is PROT_NONE.                                                       *)
THEOREM MmanFaults ==
    ASSUME Disciplined
    PROVE  Spec => []FaultsOnlyCopying
<1>1. OwnInv => FaultsOnlyCopying
  BY DEF OwnInv, OwnAt, FaultAt, FaultsOnlyCopying
<1> QED
  BY <1>1, OwnInvariant, PTL

=============================================================================
