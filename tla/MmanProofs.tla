----------------------------- MODULE MmanProofs -----------------------------
(***************************************************************************)
(* The region table of vitamman.c, for every size of the table, the pool    *)
(* and the address space, every set of threads and every set of calls.      *)
(***************************************************************************)
EXTENDS Mman, SequenceTheorems, WellFoundedInduction, TLAPS

(* RegionsDisjoint, for any table.                                          *)
Ordered(rs) ==
    /\ \A i \in 1..Len(rs) : rs[i].len > 0
    /\ \A i, j \in 1..Len(rs) : i < j => End(rs[i]) <= rs[j].addr

LEMMA LeqTrans ==
    \A a, b, c \in Nat : a <= b /\ b <= c => a <= c
OBVIOUS

LEMMA RegionType ==
    ASSUME NEW r \in Region
    PROVE  r.addr \in Nat /\ r.len \in Nat /\ End(r) \in Nat /\ End(r) = r.addr + r.len
BY MmanAssumption DEF Region, Pages, End

LEMMA TableType ==
    ASSUME NEW rs \in Seq(Region)
    PROVE  /\ Len(rs) \in Nat
           /\ \A i \in 1..Len(rs) :
                 /\ rs[i] \in Region /\ rs[i].addr \in Nat /\ rs[i].len \in Nat
                 /\ End(rs[i]) \in Nat /\ End(rs[i]) = rs[i].addr + rs[i].len
<1>1. Len(rs) \in Nat /\ \A i \in 1..Len(rs) : rs[i] \in Region
  BY LenProperties, ElementOfSeq
<1> QED
  BY <1>1, RegionType

(* Every set of naturals that is not empty has a smallest element.          *)
LEMMA Smallest ==
    ASSUME NEW T, T \subseteq Nat, T # {}
    PROVE  \E x \in T : \A y \in T : x <= y
<1> DEFINE R == {ss \in Nat \X Nat : ss[1] < ss[2]}
<1>1. IsWellFoundedOn(R, Nat)
  BY NatLessThanWellFounded DEF OpToRel
<1> HIDE DEF R
<1>2. PICK x \in T : \A y \in T : ~ (<<y, x>> \in R)
  BY <1>1, WFMin
<1>3. ASSUME NEW y \in T PROVE x <= y
  <2>1. x \in Nat /\ y \in Nat
    OBVIOUS
  <2>2. y < x => <<y, x>> \in R
    BY <2>1 DEF R
  <2> QED
    BY <1>2, <2>1, <2>2
<1> QED
  BY <1>3

(* The loop of _region_insert finds its place.                              *)
LEMMA InsertPosType ==
    ASSUME NEW rs \in Seq(Region), NEW a \in Nat
    PROVE  /\ InsertPos(rs, a) \in 0..Len(rs)
           /\ InsertPos(rs, a) > 0 => rs[InsertPos(rs, a)].addr <= a
           /\ \A j \in (InsertPos(rs, a) + 1)..Len(rs) : rs[j].addr > a
<1> DEFINE T == {k \in 0..Len(rs) : \A j \in (k + 1)..Len(rs) : rs[j].addr > a}
<1>0. Len(rs) \in Nat /\ \A j \in 1..Len(rs) : rs[j].addr \in Nat
  BY TableType
<1>1. Len(rs) \in T /\ T \subseteq Nat
  BY <1>0
<1>2. PICK k \in T : \A y \in T : k <= y
  BY <1>1, Smallest
<1>3. k > 0 => rs[k].addr <= a
  <2> SUFFICES ASSUME k > 0, ~(rs[k].addr <= a) PROVE FALSE
    OBVIOUS
  <2>1. k - 1 \in 0..Len(rs) /\ k \in 1..Len(rs)
    BY <1>0
  <2>2. ASSUME NEW j \in k..Len(rs) PROVE rs[j].addr > a
    BY <1>0, <2>1
  <2>3. k - 1 \in T
    BY <2>1, <2>2, <1>0
  <2>4. k <= k - 1
    BY <1>2, <2>3
  <2> QED
    BY <2>1, <2>4
<1>4. \E m \in 0..Len(rs) : /\ m > 0 => rs[m].addr <= a
                            /\ \A j \in (m + 1)..Len(rs) : rs[j].addr > a
  BY <1>3
<1> QED
  BY <1>4 DEF InsertPos

(* A region that meets no other one is inserted in order.                   *)
LEMMA InsertOrdered ==
    ASSUME NEW rs \in Seq(Region), Ordered(rs), NEW r \in Region, r.len > 0,
           \A i \in 1..Len(rs) : End(rs[i]) <= r.addr \/ End(r) <= rs[i].addr
    PROVE  /\ region_insert(rs, r) \in Seq(Region)
           /\ Len(region_insert(rs, r)) = Len(rs) + 1
           /\ Ordered(region_insert(rs, r))
           /\ \A j \in 1..(Len(rs) + 1) :
                 \/ region_insert(rs, r)[j] = r
                 \/ \E i \in 1..Len(rs) : region_insert(rs, r)[j] = rs[i]
           /\ \A i \in 1..Len(rs) : \E j \in 1..(Len(rs) + 1) : region_insert(rs, r)[j] = rs[i]
           /\ \E j \in 1..(Len(rs) + 1) : region_insert(rs, r)[j] = r
<1> DEFINE k == InsertPos(rs, r.addr)
           n == Len(rs)
           e(j) == IF j <= k THEN rs[j] ELSE IF j = k + 1 THEN r ELSE rs[j - 1]
           q == [j \in 1..(n + 1) |-> e(j)]
<1>0. n \in Nat /\ \A i \in 1..n :
          /\ rs[i] \in Region /\ rs[i].addr \in Nat /\ rs[i].len \in Nat
          /\ End(rs[i]) \in Nat /\ End(rs[i]) = rs[i].addr + rs[i].len
  BY TableType
<1>00. r.addr \in Nat /\ r.len \in Nat /\ End(r) \in Nat /\ End(r) = r.addr + r.len
  BY RegionType
<1>1. /\ k \in 0..n
      /\ k > 0 => rs[k].addr <= r.addr
      /\ \A j \in (k + 1)..n : rs[j].addr > r.addr
  BY InsertPosType, <1>00
<1>2. region_insert(rs, r) = q
  BY DEF region_insert
<1> HIDE DEF k
<1>3. \A j \in 1..(n + 1) : e(j) \in Region
  BY <1>0, <1>1
<1>4. q \in Seq(Region) /\ Len(q) = n + 1 /\ \A j \in 1..(n + 1) : q[j] = e(j)
  <2>1. q \in [1..(n + 1) -> Region]
    BY <1>3
  <2>2. n + 1 \in Nat
    BY <1>0
  <2>3. q \in Seq(Region)
    BY <2>1, <2>2, SeqDef
  <2> QED
    BY <2>1, <2>2, <2>3, LenProperties
<1> HIDE DEF q
<1>5. \A i \in 1..n : i <= k => End(rs[i]) <= r.addr
  <2> SUFFICES ASSUME NEW i \in 1..n, i <= k PROVE End(rs[i]) <= r.addr
    OBVIOUS
  <2>0. k \in 1..n /\ rs[k].addr <= r.addr
    BY <1>0, <1>1
  <2>1. rs[i].addr <= r.addr
    <3>1. CASE i = k
      BY <3>1, <2>0
    <3>2. CASE i < k
      <4>1. End(rs[i]) <= rs[k].addr
        BY <3>2, <2>0 DEF Ordered
      <4>2. /\ rs[i].addr \in Nat /\ rs[i].len \in Nat /\ rs[k].addr \in Nat
            /\ End(rs[i]) = rs[i].addr + rs[i].len
        BY <2>0, <1>0
      <4> HIDE DEF e
      <4> QED
        BY <4>1, <4>2, <2>0, <1>00
    <3> QED
      BY <3>1, <3>2, <2>0
  <2> QED
    BY <2>1, <1>0, <1>00 DEF Ordered
<1>6. \A i \in 1..n : i > k => End(r) <= rs[i].addr
  BY <1>0, <1>00, <1>1 DEF Ordered
<1>7. Ordered(q)
  <2>0. /\ \A i \in 1..(n + 1) : i <= k => i \in 1..n /\ q[i] = rs[i]
        /\ \A i \in 1..(n + 1) : i = k + 1 => q[i] = r
        /\ \A i \in 1..(n + 1) : i > k + 1 => i - 1 \in 1..n /\ i - 1 > k /\ q[i] = rs[i - 1]
    BY <1>0, <1>1, <1>4
  <2>1. ASSUME NEW i \in 1..(n + 1) PROVE q[i].len > 0
    <3>1. CASE i <= k
      BY <3>1, <2>0 DEF Ordered
    <3>2. CASE i = k + 1
      BY <3>2, <2>0
    <3>3. CASE i > k + 1
      BY <3>3, <2>0 DEF Ordered
    <3> QED
      BY <3>1, <3>2, <3>3, <1>0, <1>1
  <2>2. ASSUME NEW i \in 1..(n + 1), NEW j \in 1..(n + 1), i < j
        PROVE End(q[i]) <= q[j].addr
    <3>1. CASE j <= k
      BY <3>1, <2>2, <2>0, <1>1 DEF Ordered
    <3>2. CASE j = k + 1
      <4>1. i <= k
        BY <3>2, <2>2, <1>1
      <4> QED
        BY <3>2, <4>1, <2>0, <1>5
    <3>3. CASE j > k + 1 /\ i = k + 1
      BY <3>3, <2>0, <1>6
    <3>4. CASE j > k + 1 /\ i <= k
      <4>1. i \in 1..n /\ j - 1 \in 1..n /\ i < j - 1 /\ q[i] = rs[i] /\ q[j] = rs[j - 1]
        BY <3>4, <2>0, <1>1
      <4> QED
        BY <4>1 DEF Ordered
    <3>5. CASE j > k + 1 /\ i > k + 1
      <4>1. /\ i - 1 \in 1..n /\ j - 1 \in 1..n /\ i - 1 < j - 1
            /\ q[i] = rs[i - 1] /\ q[j] = rs[j - 1]
        BY <3>5, <2>0, <2>2, <1>1
      <4> QED
        BY <4>1 DEF Ordered
    <3> QED
      BY <3>1, <3>2, <3>3, <3>4, <3>5, <1>0, <1>1
  <2> QED
    BY <2>1, <2>2, <1>4 DEF Ordered
<1>8. \A j \in 1..(n + 1) : q[j] = r \/ \E i \in 1..n : q[j] = rs[i]
  BY <1>0, <1>1, <1>4
<1>9. ASSUME NEW i \in 1..n PROVE \E j \in 1..(n + 1) : q[j] = rs[i]
  <2>1. CASE i <= k
    <3>1. i \in 1..(n + 1) /\ q[i] = rs[i]
      BY <2>1, <1>0, <1>1, <1>4
    <3> QED
      BY <3>1
  <2>2. CASE i > k
    <3>1. i + 1 \in 1..(n + 1) /\ q[i + 1] = rs[i]
      BY <2>2, <1>0, <1>1, <1>4
    <3> QED
      BY <3>1
  <2> QED
    BY <2>1, <2>2, <1>0, <1>1
<1>10. k + 1 \in 1..(n + 1) /\ q[k + 1] = r
  BY <1>0, <1>1, <1>4
<1> QED
  BY <1>2, <1>4, <1>7, <1>8, <1>9, <1>10

(* Removing a region keeps the order of the others.                         *)
LEMMA RemoveOrdered ==
    ASSUME NEW rs \in Seq(Region), Ordered(rs), NEW k \in 1..Len(rs)
    PROVE  /\ region_remove(rs, k) \in Seq(Region)
           /\ Len(region_remove(rs, k)) = Len(rs) - 1
           /\ Ordered(region_remove(rs, k))
           /\ \A j \in 1..(Len(rs) - 1) :
                 \E i \in (1..Len(rs)) \ {k} : region_remove(rs, k)[j] = rs[i]
           /\ \A i \in (1..Len(rs)) \ {k} :
                 \E j \in 1..(Len(rs) - 1) : region_remove(rs, k)[j] = rs[i]
<1> DEFINE n == Len(rs)
           e(j) == IF j < k THEN rs[j] ELSE rs[j + 1]
           q == [j \in 1..(n - 1) |-> e(j)]
<1>0. n \in Nat /\ n - 1 \in Nat /\ \A i \in 1..n : rs[i] \in Region
  BY TableType
<1>1. region_remove(rs, k) = q
  BY DEF region_remove
<1>2. q \in Seq(Region) /\ Len(q) = n - 1 /\ \A j \in 1..(n - 1) : q[j] = e(j)
  <2>1. q \in [1..(n - 1) -> Region]
    BY <1>0
  <2>2. q \in Seq(Region)
    BY <2>1, <1>0, SeqDef
  <2> QED
    BY <2>1, <2>2, <1>0, LenProperties
<1> HIDE DEF q
<1>3. Ordered(q)
  <2>0. /\ \A i \in 1..(n - 1) : i < k => i \in 1..n /\ q[i] = rs[i]
        /\ \A i \in 1..(n - 1) : i >= k => i + 1 \in 1..n /\ q[i] = rs[i + 1]
    BY <1>0, <1>2
  <2>1. ASSUME NEW i \in 1..(n - 1) PROVE q[i].len > 0
    <3>1. CASE i < k
      BY <3>1, <2>0 DEF Ordered
    <3>2. CASE i >= k
      BY <3>2, <2>0 DEF Ordered
    <3> QED
      BY <3>1, <3>2
  <2>2. ASSUME NEW i \in 1..(n - 1), NEW j \in 1..(n - 1), i < j
        PROVE End(q[i]) <= q[j].addr
    <3>1. CASE j < k
      BY <3>1, <2>2, <2>0 DEF Ordered
    <3>2. CASE i < k /\ j >= k
      <4>1. i \in 1..n /\ j + 1 \in 1..n /\ i < j + 1 /\ q[i] = rs[i] /\ q[j] = rs[j + 1]
        BY <3>2, <2>2, <2>0
      <4> QED
        BY <4>1 DEF Ordered
    <3>3. CASE i >= k
      <4>1. /\ i + 1 \in 1..n /\ j + 1 \in 1..n /\ i + 1 < j + 1
            /\ q[i] = rs[i + 1] /\ q[j] = rs[j + 1]
        BY <3>3, <2>2, <2>0
      <4> QED
        BY <4>1 DEF Ordered
    <3> QED
      BY <3>1, <3>2, <3>3
  <2> QED
    BY <2>1, <2>2, <1>2 DEF Ordered
<1>4. \A j \in 1..(n - 1) : \E i \in (1..n) \ {k} : q[j] = rs[i]
  <2> SUFFICES ASSUME NEW j \in 1..(n - 1) PROVE \E i \in (1..n) \ {k} : q[j] = rs[i]
    OBVIOUS
  <2>1. CASE j < k
    BY <2>1, <1>0, <1>2
  <2>2. CASE j >= k
    <3>1. j + 1 \in (1..n) \ {k} /\ q[j] = rs[j + 1]
      BY <2>2, <1>0, <1>2
    <3> QED
      BY <3>1
  <2> QED
    BY <2>1, <2>2
<1>5. ASSUME NEW i \in (1..n) \ {k} PROVE \E j \in 1..(n - 1) : q[j] = rs[i]
  <2>1. CASE i < k
    BY <2>1, <1>0, <1>2
  <2>2. CASE i > k
    <3>1. i - 1 \in 1..(n - 1) /\ q[i - 1] = rs[i]
      BY <2>2, <1>0, <1>2
    <3> QED
      BY <3>1
  <2> QED
    BY <2>1, <2>2
<1> QED
  BY <1>1, <1>2, <1>3, <1>4, <1>5

(* So does giving a region other bounds between those of its neighbours.    *)
Replaced(rs, k, r) == [rs EXCEPT ![k] = r]

LEMMA ReplaceOrdered ==
    ASSUME NEW rs \in Seq(Region), Ordered(rs), NEW k \in 1..Len(rs),
           NEW r \in Region, r.len > 0,
           \A i \in 1..Len(rs) : i < k => End(rs[i]) <= r.addr,
           \A i \in 1..Len(rs) : i > k => End(r) <= rs[i].addr
    PROVE  /\ Replaced(rs, k, r) \in Seq(Region) /\ Len(Replaced(rs, k, r)) = Len(rs)
           /\ Ordered(Replaced(rs, k, r))
           /\ \A i \in 1..Len(rs) : Replaced(rs, k, r)[i] = IF i = k THEN r ELSE rs[i]
<1> DEFINE q == Replaced(rs, k, r)
<1>1. /\ q \in Seq(Region) /\ Len(q) = Len(rs)
      /\ \A i \in 1..Len(rs) : q[i] = IF i = k THEN r ELSE rs[i]
  BY ExceptSeq DEF Replaced
<1> HIDE DEF q
<1>2. \A i \in 1..Len(rs) : q[i].len > 0
  BY <1>1 DEF Ordered
<1>3. ASSUME NEW i \in 1..Len(rs), NEW j \in 1..Len(rs), i < j
      PROVE End(q[i]) <= q[j].addr
  <2>1. CASE i = k
    BY <2>1, <1>1, <1>3
  <2>2. CASE j = k
    BY <2>2, <1>1, <1>3
  <2>3. CASE i # k /\ j # k
    BY <2>3, <1>1, <1>3 DEF Ordered
  <2> QED
    BY <2>1, <2>2, <2>3
<1>4. Ordered(q)
  BY <1>1, <1>2, <1>3 DEF Ordered
<1> QED
  BY <1>1, <1>4 DEF q

-----------------------------------------------------------------------------
(* The inductive invariant.                                                 *)

Loops == {"alloc", "unmapping"}

(* The threads inside a loop hold the mutex.                                *)
OneHolder == \A t \in Threads : pc[t] \in Loops => mutex = t

(* The regions are all of one kind, and no reservation is left without one. *)
OneBackend == \A i \in 1..Len(regions) : regions[i].uid = PoolUid <=> ~HaveKubridge
NoLeakedBlock == \A b \in blocks : \E i \in 1..Len(regions) : regions[i].uid = b.uid
TableInv == RegionsDisjoint /\ RegionsInside /\ OneBackend /\ NoLeakedBlock

(* What the arguments and locals of a call satisfy where they are used.  In *)
(* the loop of _vm_pool_alloc the regions already passed end before cand.   *)
LocalsAt(t) ==
    /\ pc[t] # "discard" => NoWrap(call[t].addr, call[t].len)
    /\ pc[t] = "alloc" =>
          /\ ~HaveKubridge /\ vm_open /\ MapLen(t) # 0
          /\ call[t].i >= 1
          /\ VmBase <= call[t].base /\ call[t].base <= PoolEnd
          /\ \A j \in 1..Len(regions) : j < call[t].i => End(regions[j]) <= call[t].base
    /\ pc[t] = "fill" => MapLen(t) # 0 /\ NoWrap(call[t].base, MapLen(t))
    /\ pc[t] \in {"remap", "resize"} => call[t].new # 0
    /\ pc[t] = "unmapping" => call[t].i >= 1

IInv == TypeOK /\ TableInv /\ OneHolder /\ \A t \in Threads : LocalsAt(t)

(* Only t moves.                                                            *)
Alone(t) ==
    /\ \A u \in Threads : u # t => pc'[u] = pc[u] /\ call'[u] = call[u]
    /\ pc'[t] \in Loops => mutex' = t

(* A step that leaves the table alone keeps the invariant, if it keeps the  *)
(* types and the locals of its thread.                                      *)
LEMMA QuietStep ==
    ASSUME IInv, NEW t \in Threads, TypeOK', Alone(t), LocalsAt(t)',
           UNCHANGED <<regions, blocks>>, vm_open => vm_open',
           mutex' = mutex \/ mutex \in {t, NoThread}
    PROVE  IInv'
<1>1. TableInv'
  BY DEF IInv, TypeOK, TableInv, RegionsDisjoint, RegionsInside, OneBackend, NoLeakedBlock
<1>2. OneHolder'
  BY MmanAssumption DEF IInv, Alone, OneHolder, Loops
<1>3. ASSUME NEW u \in Threads PROVE LocalsAt(u)'
  <2>1. CASE u = t
    BY <2>1
  <2>2. CASE u # t
    BY <2>2 DEF IInv, TypeOK, Alone, LocalsAt, NoWrap, MapLen
  <2> QED
    BY <2>1, <2>2
<1> QED
  BY <1>1, <1>2, <1>3 DEF IInv

(* A step on the table is taken with the mutex, when no other thread is in  *)
(* a loop.                                                                  *)
LEMMA TableStep ==
    ASSUME IInv, NEW t \in Threads, TypeOK', TableInv', Alone(t), LocalsAt(t)',
           mutex \in {t, NoThread}
    PROVE  IInv'
<1>1. \A u \in Threads : u # t => pc[u] \notin Loops
  BY MmanAssumption DEF IInv, OneHolder
<1>2. OneHolder'
  BY <1>1 DEF Alone, OneHolder
<1>3. ASSUME NEW u \in Threads PROVE LocalsAt(u)'
  <2>1. CASE u = t
    BY <2>1
  <2>2. CASE u # t
    BY <1>1, <2>2 DEF IInv, Alone, LocalsAt, NoWrap, MapLen, Loops
  <2> QED
    BY <2>1, <2>2
<1> QED
  BY <1>2, <1>3 DEF IInv

-----------------------------------------------------------------------------
(* The types that the steps have in common.                                 *)
LEMMA PageTypes ==
    /\ Pages \subseteq Nat /\ Pages = 0..(AddrSpace - 1) /\ AddrSpace \in Nat \ {0}
    /\ VmBase \in Pages /\ PoolEnd \in Pages
    /\ \A a \in Pages, l \in 0..AddrSpace : Plus(a, l) \in Pages
    /\ \A l \in 0..AddrSpace : MMAN_PAGE_ALIGN(l) \in Pages
    /\ \A a, l : PagesOf(a, l) \subseteq Pages
BY MmanAssumption DEF Pages, PoolEnd, Plus, MMAN_PAGE_ALIGN, PagesOf

LEMMA FillType ==
    ASSUME NEW f, NEW S, NEW T, NEW v \in T, f \in [Pages -> T]
    PROVE  Fill(f, S, v) \in [Pages -> T]
BY DEF Fill

LEMMA ArgsType ==
    ASSUME NEW op \in AllCalls \cup {"none"}, NEW a \in Pages, NEW l \in 0..AddrSpace,
           NEW n \in 0..AddrSpace, NEW h \in Pages, NEW pr \in SUBSET Bits
    PROVE  /\ Args(op, a, l, n, h, pr) \in CallType
           /\ Args(op, a, l, n, h, pr).addr = a /\ Args(op, a, l, n, h, pr).len = l
           /\ Args(op, a, l, n, h, pr).new = n
<1>1. 0 \in Pages /\ 0 \in Nat
  BY MmanAssumption DEF Pages
<1> QED
  BY <1>1 DEF Args, CallType

LEMMA NoCallType ==
    NoCall \in CallType /\ NoCall.addr = 0 /\ NoCall.len = 0
<1>1. /\ "none" \in AllCalls \cup {"none"} /\ 0 \in Pages /\ 0 \in 0..AddrSpace
      /\ {} \in SUBSET Bits
  BY MmanAssumption DEF Pages
<1> QED
  BY <1>1, ArgsType DEF NoCall

LEMMA BeginTypes ==
    ASSUME IInv, NEW t \in Threads, NEW c \in CallType, NEW l \in Labels, Begin(t, l, c)
    PROVE  /\ pc' \in [Threads -> Labels] /\ call' \in [Threads -> CallType]
           /\ pc'[t] = l /\ call'[t] = c
           /\ \A u \in Threads : u # t => pc'[u] = pc[u] /\ call'[u] = call[u]
BY DEF IInv, TypeOK, Begin, Goto

LEMMA ReturnTypes ==
    ASSUME IInv, NEW t \in Threads, Return(t)
    PROVE  /\ pc' \in [Threads -> Labels] /\ call' \in [Threads -> CallType]
           /\ Alone(t) /\ LocalsAt(t)' /\ pc'[t] = "idle" /\ call'[t] = NoCall
<1>1. /\ pc' \in [Threads -> Labels] /\ call' \in [Threads -> CallType]
      /\ pc'[t] = "idle" /\ call'[t] = NoCall
      /\ \A u \in Threads : u # t => pc'[u] = pc[u] /\ call'[u] = call[u]
  BY NoCallType DEF IInv, TypeOK, Return, Goto, Labels
<1>2. Alone(t)
  BY <1>1 DEF Alone, Loops
<1>3. LocalsAt(t)'
  BY <1>1, NoCallType, MmanAssumption DEF LocalsAt, NoWrap
<1> QED
  BY <1>1, <1>2, <1>3

LEMMA GotoTypes ==
    ASSUME IInv, NEW t \in Threads, NEW l \in Labels, Goto(t, l)
    PROVE  /\ pc' \in [Threads -> Labels] /\ pc'[t] = l
           /\ \A u \in Threads : u # t => pc'[u] = pc[u]
BY DEF IInv, TypeOK, Goto

(* The beginning of a call.                                                 *)
LEMMA BeginStep ==
    ASSUME IInv, NEW t \in Threads, NEW l \in Labels \ (Loops \cup {"fill", "resize"}),
           NEW c \in CallType, Begin(t, l, c),
           l # "discard" => NoWrap(c.addr, c.len), l = "remap" => c.new # 0,
           UNCHANGED <<table, mutex, kernel, mem, ghosts>>
    PROVE  IInv'
<1>1. /\ pc' \in [Threads -> Labels] /\ call' \in [Threads -> CallType]
      /\ pc'[t] = l /\ call'[t] = c
      /\ \A u \in Threads : u # t => pc'[u] = pc[u] /\ call'[u] = call[u]
  BY BeginTypes
<1>2. TypeOK'
  BY <1>1 DEF IInv, TypeOK, table, kernel, ghosts
<1>3. Alone(t) /\ LocalsAt(t)'
  BY <1>1 DEF Alone, Loops, LocalsAt
<1> QED
  BY <1>2, <1>3, QuietStep DEF table, kernel

LEMMA MmapStep ==
    ASSUME IInv, NEW t \in Threads, Mmap(t)
    PROVE  IInv'
<1>1. PICK op \in MapCalls \cap Calls, l \in Lens \ {0}, h \in Hints, pr \in Prots :
          Begin(t, "map", Args(op, 0, 0, l, h, pr))
  BY DEF Mmap
<1>2. /\ op \in AllCalls \cup {"none"} /\ l \in 0..AddrSpace /\ h \in Pages
      /\ pr \in SUBSET Bits /\ 0 \in Pages /\ 0 \in 0..AddrSpace
  BY MmanAssumption DEF Pages
<1> DEFINE c == Args(op, 0, 0, l, h, pr)
<1>3. c \in CallType /\ c.addr = 0 /\ c.len = 0
  BY <1>2, ArgsType
<1>4. NoWrap(c.addr, c.len)
  BY <1>3, MmanAssumption DEF NoWrap
<1>5. UNCHANGED <<table, mutex, kernel, mem, ghosts>>
  BY DEF Mmap
<1> HIDE DEF c
<1> QED
  BY <1>1, <1>3, <1>4, <1>5, BeginStep DEF Labels, Loops, c

LEMMA MadviseStep ==
    ASSUME IInv, NEW t \in Threads, Madvise(t)
    PROVE  IInv'
<1>1. PICK a \in Pages, l \in Lens \ {0} : Begin(t, "discard", Args("madvise", a, l, 0, 0, {}))
  BY DEF Madvise
<1>2. /\ "madvise" \in AllCalls \cup {"none"} /\ l \in 0..AddrSpace /\ 0 \in Pages
      /\ 0 \in 0..AddrSpace /\ {} \in SUBSET Bits
  BY MmanAssumption DEF Pages, AllCalls
<1>3. Args("madvise", a, l, 0, 0, {}) \in CallType
  BY <1>2, ArgsType
<1>4. UNCHANGED <<table, mutex, kernel, mem, ghosts>>
  BY DEF Madvise
<1> QED
  BY <1>1, <1>3, <1>4, BeginStep DEF Labels, Loops

LEMMA MunmapStep ==
    ASSUME IInv, NEW t \in Threads, Munmap(t)
    PROVE  IInv'
<1>1. PICK a \in Pages, l \in Lens \ {0} :
          NoWrap(a, l) /\ Begin(t, "unmap", Args("munmap", a, l, 0, 0, {}))
  BY DEF Munmap
<1>2. /\ "munmap" \in AllCalls \cup {"none"} /\ l \in 0..AddrSpace /\ 0 \in Pages
      /\ 0 \in 0..AddrSpace /\ {} \in SUBSET Bits
  BY MmanAssumption DEF Pages, AllCalls
<1> DEFINE c == Args("munmap", a, l, 0, 0, {})
<1>3. c \in CallType /\ c.addr = a /\ c.len = l
  BY <1>2, ArgsType
<1>4. UNCHANGED <<table, mutex, kernel, mem, ghosts>>
  BY DEF Munmap
<1> HIDE DEF c
<1> QED
  BY <1>1, <1>3, <1>4, BeginStep DEF Labels, Loops, c

LEMMA MremapStep ==
    ASSUME IInv, NEW t \in Threads, Mremap(t)
    PROVE  IInv'
<1>1. PICK op \in RemapCalls \cap Calls, a \in Pages, l \in Lens, n \in GrowLens, h \in Hints,
           i \in 1..Len(regions) :
          NoWrap(a, l) /\ Begin(t, "remap", Args(op, a, l, n, h, regions[i].prot))
  BY DEF Mremap
<1>2. regions[i] \in Region
  BY TableType DEF IInv, TypeOK
<1>3. /\ op \in AllCalls \cup {"none"} /\ l \in 0..AddrSpace /\ n \in 0..AddrSpace
      /\ n # 0 /\ h \in Pages /\ regions[i].prot \in SUBSET Bits
  <2>1. op \in AllCalls \cup {"none"} /\ l \in 0..AddrSpace /\ h \in Pages
    BY MmanAssumption DEF Pages
  <2>2. n \in Nat \ {0} /\ VmBase + MMAN_VM_POOL_SIZE + n < AddrSpace
    BY GrowAssumption
  <2>3. n \in 0..AddrSpace /\ n # 0
    BY <2>2, MmanAssumption
  <2>4. regions[i].prot \in SUBSET Bits
    BY <1>2 DEF Region
  <2> QED
    BY <2>1, <2>3, <2>4
<1>35. PICK pr \in SUBSET Bits : pr = regions[i].prot
  BY <1>3
<1> DEFINE c == Args(op, a, l, n, h, pr)
<1>4. c \in CallType /\ c.addr = a /\ c.len = l /\ c.new # 0
  <2>1. c \in CallType /\ c.addr = a /\ c.len = l /\ c.new = n
    BY <1>3, ArgsType
  <2> QED
    BY <2>1, <1>3
<1>5. UNCHANGED <<table, mutex, kernel, mem, ghosts>>
  BY DEF Mremap
<1> HIDE DEF c
<1> QED
  BY <1>1, <1>35, <1>4, <1>5, BeginStep DEF Labels, Loops, c

-----------------------------------------------------------------------------
(* Steps inside a call that leave the table alone.                          *)

(* The types of what is not the table.                                      *)
RestTypes ==
    /\ DOMAIN backing \subseteq Pages
    /\ \A p \in DOMAIN backing : backing[p] \in SUBSET Bits
    /\ mem \in [Pages -> {"zero", "data"}]
    /\ hold \in [Pages -> Threads \cup {NoThread}]
    /\ expect \in [Pages -> {"zero", "data", "any"}]
    /\ holes \subseteq Pages /\ diverged \subseteq Pages /\ stranded \subseteq Pages

LEMMA RestSame ==
    ASSUME IInv, UNCHANGED <<backing, mem, ghosts>>
    PROVE  RestTypes'
BY DEF IInv, TypeOK, RestTypes, ghosts

LEMMA CommitType ==
    ASSUME IInv, NEW S \in SUBSET Pages, NEW prot \in SUBSET Bits
    PROVE  /\ DOMAIN Commit(S, prot) \subseteq Pages
           /\ \A p \in DOMAIN Commit(S, prot) : Commit(S, prot)[p] \in SUBSET Bits
           /\ DOMAIN Decommit(S) \subseteq Pages
           /\ \A p \in DOMAIN Decommit(S) : Decommit(S)[p] \in SUBSET Bits
BY DEF IInv, TypeOK, Commit, Decommit

(* The call returns.                                                        *)
LEMMA ReturnStep ==
    ASSUME IInv, NEW t \in Threads, Return(t), RestTypes', UNCHANGED <<table, blocks>>,
           mutex' = mutex \/ (mutex \in {t, NoThread} /\ mutex' = NoThread)
    PROVE  IInv'
<1>1. /\ pc' \in [Threads -> Labels] /\ call' \in [Threads -> CallType]
      /\ Alone(t) /\ LocalsAt(t)'
  BY ReturnTypes
<1>2. TypeOK'
  BY <1>1 DEF IInv, TypeOK, RestTypes, table
<1> QED
  BY <1>1, <1>2, QuietStep DEF table

(* The call goes on.                                                        *)
LEMMA GotoStep ==
    ASSUME IInv, NEW t \in Threads, NEW l \in Labels \ Loops, Goto(t, l), call' = call,
           RestTypes', UNCHANGED <<table, blocks, mutex>>, LocalsAt(t)'
    PROVE  IInv'
<1>1. /\ pc' \in [Threads -> Labels] /\ pc'[t] = l
      /\ \A u \in Threads : u # t => pc'[u] = pc[u]
  BY GotoTypes
<1>2. TypeOK'
  BY <1>1 DEF IInv, TypeOK, RestTypes, table
<1>3. Alone(t)
  BY <1>1 DEF Alone
<1> QED
  BY <1>2, <1>3, QuietStep DEF table

(* A thread outside the loops and outside the places where more is known    *)
(* of its locals.                                                           *)
LEMMA PlainLocals ==
    ASSUME IInv, NEW t \in Threads, pc[t] # "discard", call'[t] = call[t],
           pc'[t] \notin Loops \cup {"fill", "remap", "resize", "discard"}
    PROVE  LocalsAt(t)'
BY DEF IInv, LocalsAt, Loops, NoWrap

LEMMA RefusalSteps ==
    ASSUME IInv, NEW t \in Threads,
           \/ MapRefused(t) \/ MapReserveFails(t) \/ MapPoolFails(t) \/ DiscardRefused(t)
           \/ RemapUnmapped(t) \/ ResizeSame(t) \/ UnmapRefused(t)
    PROVE  IInv'
<1>1. Return(t) /\ UNCHANGED <<table, mutex, kernel, mem, ghosts>>
  BY DEF MapRefused, MapReserveFails, MapPoolFails, DiscardRefused, RemapUnmapped, ResizeSame,
         UnmapRefused
<1> QED
  BY <1>1, RestSame, ReturnStep DEF kernel

LEMMA LoopEndSteps ==
    ASSUME IInv, NEW t \in Threads, AllocFails(t) \/ UnmapDone(t)
    PROVE  IInv'
<1>1. Return(t) /\ mutex' = NoThread /\ UNCHANGED <<table, kernel, mem, ghosts>>
  BY DEF AllocFails, UnmapDone
<1>2. mutex = t
  BY DEF IInv, OneHolder, Loops, AllocFails, UnmapDone
<1> QED
  BY <1>1, <1>2, RestSame, ReturnStep DEF kernel

LEMMA RemapMappedStep ==
    ASSUME IInv, NEW t \in Threads, RemapMapped(t)
    PROVE  IInv'
<1> DEFINE l == IF call[t].op = "mremap_fixed" THEN "map" ELSE "resize"
<1>1. /\ pc[t] = "remap" /\ Goto(t, l) /\ l \in {"map", "resize"}
      /\ UNCHANGED <<table, mutex, kernel, mem, call, ghosts>>
  BY DEF RemapMapped
<1> HIDE DEF l
<1>2. l \in Labels \ Loops
  BY <1>1 DEF Labels, Loops
<1>3. pc'[t] = l
  BY <1>1, <1>2, GotoTypes
<1>4. LocalsAt(t)'
  BY <1>1, <1>3 DEF IInv, LocalsAt, NoWrap
<1> QED
  BY <1>1, <1>2, <1>4, RestSame, GotoStep DEF kernel

LEMMA ResizeRefusedStep ==
    ASSUME IInv, NEW t \in Threads, ResizeRefused(t)
    PROVE  IInv'
<1>1. pc[t] = "resize" /\ UNCHANGED <<table, mutex, kernel, mem, ghosts>>
  BY DEF ResizeRefused
<1>2. CASE Return(t)
  BY <1>1, <1>2, RestSame, ReturnStep DEF kernel
<1>3. CASE Goto(t, "map") /\ UNCHANGED call
  <2>1. "map" \in Labels \ Loops
    BY DEF Labels, Loops
  <2>2. pc'[t] = "map"
    BY <1>3, <2>1, GotoTypes
  <2>3. LocalsAt(t)'
    BY <1>1, <1>3, <2>2, PlainLocals DEF Loops
  <2> QED
    BY <1>1, <1>3, <2>1, <2>3, RestSame, GotoStep DEF kernel
<1> QED
  BY <1>2, <1>3 DEF ResizeRefused

LEMMA KeepWritableStep ==
    ASSUME IInv, NEW t \in Threads, KeepWritable(t)
    PROVE  IInv'
<1>1. pc[t] = "protect" /\ UNCHANGED <<table, mutex, kernel, mem, ghosts>>
  BY DEF KeepWritable
<1>2. CASE Return(t)
  BY <1>1, <1>2, RestSame, ReturnStep DEF kernel
<1>3. CASE Goto(t, "unmap") /\ UNCHANGED call
  <2>1. "unmap" \in Labels \ Loops
    BY DEF Labels, Loops
  <2>2. pc'[t] = "unmap"
    BY <1>3, <2>1, GotoTypes
  <2>3. LocalsAt(t)'
    BY <1>1, <1>3, <2>2, PlainLocals DEF Loops
  <2> QED
    BY <1>1, <1>3, <2>1, <2>3, RestSame, GotoStep DEF kernel
<1> QED
  BY <1>2, <1>3 DEF KeepWritable, AfterProtect

LEMMA FaultStep ==
    ASSUME IInv, NEW t \in Threads, Fault(t)
    PROVE  IInv'
<1>1. pc[t] \in {"fill", "copy"} /\ Goto(t, "fault")
      /\ UNCHANGED <<table, mutex, kernel, mem, call, ghosts>>
  BY DEF Fault
<1>2. "fault" \in Labels \ Loops
  BY DEF Labels, Loops
<1>3. pc'[t] = "fault"
  BY <1>1, <1>2, GotoTypes
<1>4. LocalsAt(t)'
  BY <1>1, <1>3, PlainLocals DEF Loops
<1> QED
  BY <1>1, <1>2, <1>4, RestSame, GotoStep DEF kernel

LEMMA MmapFillStep ==
    ASSUME IInv, NEW t \in Threads, MmapFill(t)
    PROVE  IInv'
<1>1. /\ pc[t] = "fill" /\ Goto(t, "protect")
      /\ UNCHANGED <<table, mutex, kernel, call, hold, holes, diverged, stranded>>
  BY DEF MmapFill
<1>2. "protect" \in Labels \ Loops
  BY DEF Labels, Loops
<1>3. pc'[t] = "protect"
  BY <1>1, <1>2, GotoTypes
<1>4. LocalsAt(t)'
  BY <1>1, <1>3, PlainLocals DEF Loops
<1>5. mem' \in [Pages -> {"zero", "data"}] /\ expect' \in [Pages -> {"zero", "data", "any"}]
  BY DEF MmapFill, Filled, IInv, TypeOK
<1>6. RestTypes'
  BY <1>1, <1>5 DEF RestTypes, IInv, TypeOK, kernel
<1> QED
  BY <1>1, <1>2, <1>4, <1>6, GotoStep DEF kernel

LEMMA RemapCopyStep ==
    ASSUME IInv, NEW t \in Threads, RemapCopy(t)
    PROVE  IInv'
<1>1. /\ pc[t] = "copy" /\ Goto(t, "protect")
      /\ UNCHANGED <<table, mutex, kernel, call, hold, holes, diverged, stranded>>
  BY DEF RemapCopy
<1>2. "protect" \in Labels \ Loops
  BY DEF Labels, Loops
<1>3. pc'[t] = "protect"
  BY <1>1, <1>2, GotoTypes
<1>4. LocalsAt(t)'
  BY <1>1, <1>3, PlainLocals DEF Loops
<1>5. \A p \in PagesOf(call[t].base, CopyLen(t)) : p - call[t].base + call[t].addr \in Pages
  <2>1. call[t] \in CallType
    BY DEF IInv, TypeOK
  <2>2. call[t].base \in Nat /\ call[t].addr \in Nat /\ CopyLen(t) \in Nat
    BY <2>1, MmanAssumption DEF CallType, Pages, CopyLen
  <2>3. call[t].addr + CopyLen(t) <= AddrSpace
    BY DEF RemapCopy, CopyLegal
  <2> QED
    BY <2>2, <2>3, MmanAssumption DEF PagesOf, Pages
<1>6. mem' \in [Pages -> {"zero", "data"}] /\ expect' \in [Pages -> {"zero", "data", "any"}]
  BY <1>5 DEF RemapCopy, Copied, IInv, TypeOK
<1>7. RestTypes'
  BY <1>1, <1>6 DEF RestTypes, IInv, TypeOK, kernel
<1> QED
  BY <1>1, <1>2, <1>4, <1>7, GotoStep DEF kernel

LEMMA StoreStep ==
    ASSUME IInv, NEW t \in Threads, Store(t)
    PROVE  IInv'
<1>1. UNCHANGED <<table, mutex, kernel, pc, call, hold, holes, diverged, stranded>>
  BY DEF Store
<1>2. mem' \in [Pages -> {"zero", "data"}] /\ expect' \in [Pages -> {"zero", "data", "any"}]
  BY DEF Store, IInv, TypeOK
<1>3. TypeOK'
  BY <1>1, <1>2 DEF IInv, TypeOK, table, kernel
<1>4. Alone(t) /\ LocalsAt(t)'
  BY <1>1 DEF IInv, Alone, OneHolder, LocalsAt, NoWrap, MapLen, table
<1> QED
  BY <1>1, <1>3, <1>4, QuietStep DEF table, kernel

LEMMA DiscardStep ==
    ASSUME IInv, NEW t \in Threads, Discard(t)
    PROVE  IInv'
<1>1. PICK i \in 1..Len(regions) :
          LET S == DiscardPages(t, i)
              prot == regions[i].prot
          IN /\ mem' = Fill(mem, S, "zero") /\ expect' = Fill(expect, S, "zero")
             /\ IF regions[i].uid = PoolUid THEN UNCHANGED <<backing, holes, diverged>>
                ELSE \E pr \in {prot, prot \cup {"W"}} :
                        /\ backing' = Commit(S, pr)
                        /\ holes' = holes \ S
                        /\ diverged' = IF pr = prot THEN diverged \ S ELSE diverged \cup S
  BY DEF Discard
<1>2. Return(t) /\ UNCHANGED <<table, mutex, blocks, hold, stranded>>
  BY DEF Discard
<1> DEFINE S == DiscardPages(t, i)
<1>3. S \in SUBSET Pages
  BY DEF DiscardPages
<1>4. mem' \in [Pages -> {"zero", "data"}] /\ expect' \in [Pages -> {"zero", "data", "any"}]
  BY <1>1, FillType DEF IInv, TypeOK
<1>5. regions[i].prot \in SUBSET Bits /\ "W" \in Bits
  BY TableType DEF IInv, TypeOK, Region, Bits
<1> HIDE DEF S
<1>6. /\ DOMAIN backing' \subseteq Pages /\ \A p \in DOMAIN backing' : backing'[p] \in SUBSET Bits
      /\ holes' \subseteq Pages /\ diverged' \subseteq Pages
  <2>1. CASE regions[i].uid = PoolUid
    BY <1>1, <2>1 DEF IInv, TypeOK
  <2>2. CASE regions[i].uid # PoolUid
    <3>1. PICK pr \in {regions[i].prot, regions[i].prot \cup {"W"}} :
              /\ backing' = Commit(S, pr)
              /\ holes' = holes \ S
              /\ diverged' = IF pr = regions[i].prot THEN diverged \ S ELSE diverged \cup S
      BY <1>1, <2>2 DEF S
    <3>2. pr \in SUBSET Bits
      BY <1>5
    <3> QED
      BY <3>1, <3>2, <1>3, CommitType DEF IInv, TypeOK
  <2> QED
    BY <2>1, <2>2
<1>7. RestTypes'
  BY <1>2, <1>4, <1>6 DEF RestTypes, IInv, TypeOK
<1> QED
  BY <1>2, <1>7, ReturnStep

LEMMA DiscardFailsStep ==
    ASSUME IInv, NEW t \in Threads, DiscardFails(t)
    PROVE  IInv'
<1>1. PICK i \in 1..Len(regions) : /\ backing' = Decommit(DiscardPages(t, i))
                                   /\ holes' = holes \cup DiscardPages(t, i)
  BY DEF DiscardFails
<1>2. Return(t) /\ UNCHANGED <<table, mutex, blocks, mem, hold, expect, diverged, stranded>>
  BY DEF DiscardFails
<1>3. DiscardPages(t, i) \in SUBSET Pages
  BY DEF DiscardPages
<1>4. /\ DOMAIN backing' \subseteq Pages
      /\ \A p \in DOMAIN backing' : backing'[p] \in SUBSET Bits
  <2>1. {} \in SUBSET Bits
    OBVIOUS
  <2> QED
    BY <1>1, <1>3, <2>1, CommitType
<1>5. holes' \subseteq Pages
  BY <1>1, <1>3 DEF IInv, TypeOK
<1>6. RestTypes'
  BY <1>2, <1>4, <1>5 DEF RestTypes, IInv, TypeOK
<1> QED
  BY <1>2, <1>6, ReturnStep

LEMMA UnmapNoRoomStep ==
    ASSUME IInv, NEW t \in Threads, UnmapNoRoom(t)
    PROVE  IInv'
<1>1. /\ Return(t) /\ mutex' = NoThread
      /\ UNCHANGED <<table, blocks, mem, expect, diverged>>
      /\ pc[t] = "unmapping"
  BY DEF UnmapNoRoom, Splits, Touched, InLoop
<1>2. mutex = t
  BY <1>1 DEF IInv, OneHolder, Loops
<1>3. Cut(t) \in SUBSET Pages
  BY PageTypes DEF Cut
<1>4. DOMAIN backing' \subseteq Pages /\ \A p \in DOMAIN backing' : backing'[p] \in SUBSET Bits
  BY <1>3, CommitType DEF UnmapNoRoom, DecommitCut, IInv, TypeOK
<1>5. holes' \subseteq Pages /\ stranded' \subseteq Pages
  BY <1>3 DEF UnmapNoRoom, IInv, TypeOK
<1>6. hold' \in [Pages -> Threads \cup {NoThread}]
  <2>1. hold \in [Pages -> Threads \cup {NoThread}] /\ t \in Threads \cup {NoThread}
    BY DEF IInv, TypeOK
  <2>2. hold' = hold \/ hold' = Fill(hold, Cut(t), t)
    BY DEF UnmapNoRoom
  <2>3. Fill(hold, Cut(t), t) \in [Pages -> Threads \cup {NoThread}]
    BY <2>1, FillType
  <2> QED
    BY <2>1, <2>2, <2>3
<1>7. RestTypes'
  BY <1>1, <1>4, <1>5, <1>6 DEF RestTypes, IInv, TypeOK
<1> QED
  BY <1>1, <1>2, <1>7, ReturnStep

LEMMA MmapReadFailsStep ==
    ASSUME IInv, NEW t \in Threads, MmapReadFails(t)
    PROVE  IInv'
<1>1. /\ pc[t] = "fill" /\ Goto(t, "unmap")
      /\ call' = [call EXCEPT ![t].addr = call[t].base, ![t].len = call[t].new]
      /\ UNCHANGED <<table, mutex, kernel, expect, holes, diverged, stranded>>
  BY DEF MmapReadFails
<1>2. /\ pc' \in [Threads -> Labels] /\ pc'[t] = "unmap"
      /\ \A u \in Threads : u # t => pc'[u] = pc[u]
  BY <1>1, GotoTypes DEF Labels
<1>3. call[t] \in CallType /\ call \in [Threads -> CallType]
  BY DEF IInv, TypeOK
<1>4. /\ call' \in [Threads -> CallType]
      /\ call'[t].addr = call[t].base /\ call'[t].len = call[t].new
      /\ \A u \in Threads : u # t => call'[u] = call[u]
  BY <1>1, <1>3 DEF CallType
<1>5. mem' \in [Pages -> {"zero", "data"}]
  <2>1. PICK k \in 0..(MapLen(t) - 1) : mem' = Fill(mem, PagesOf(call[t].base, k), "data")
    BY DEF MmapReadFails
  <2>2. mem \in [Pages -> {"zero", "data"}] /\ "data" \in {"zero", "data"}
    BY DEF IInv, TypeOK
  <2> QED
    BY <2>1, <2>2, FillType
<1>6. TypeOK'
  <2>1. hold \in [Pages -> Threads \cup {NoThread}] /\ NoThread \in Threads \cup {NoThread}
    BY DEF IInv, TypeOK
  <2>2. hold' \in [Pages -> Threads \cup {NoThread}]
    BY <2>1, FillType DEF MmapReadFails, Drop
  <2> QED
    BY <1>1, <1>2, <1>4, <1>5, <2>2 DEF IInv, TypeOK, table, kernel
<1>7. NoWrap(call[t].base, call[t].new)
  <2>1. MapLen(t) # 0 /\ NoWrap(call[t].base, MapLen(t))
    BY <1>1 DEF IInv, LocalsAt
  <2> QED
    BY <2>1 DEF MapLen, MMAN_PAGE_ALIGN
<1>8. Alone(t) /\ LocalsAt(t)'
  BY <1>2, <1>4, <1>7 DEF Alone, LocalsAt, Loops, NoWrap
<1> QED
  BY <1>1, <1>6, <1>8, QuietStep DEF table, kernel

LEMMA UnmapLockStep ==
    ASSUME IInv, NEW t \in Threads, UnmapLock(t)
    PROVE  IInv'
<1>1. /\ pc[t] = "unmap" /\ Goto(t, "unmapping") /\ mutex' = t /\ mutex = NoThread
      /\ call' = [call EXCEPT ![t].i = 1]
      /\ UNCHANGED <<table, kernel, mem, expect, holes, diverged, stranded>>
  BY DEF UnmapLock, Free
<1>2. /\ pc' \in [Threads -> Labels] /\ pc'[t] = "unmapping"
      /\ \A u \in Threads : u # t => pc'[u] = pc[u]
  BY <1>1, GotoTypes DEF Labels
<1>3. call[t] \in CallType /\ call \in [Threads -> CallType]
  BY DEF IInv, TypeOK
<1>4. /\ call' \in [Threads -> CallType] /\ call'[t].i = 1
      /\ call'[t].addr = call[t].addr /\ call'[t].len = call[t].len
      /\ \A u \in Threads : u # t => call'[u] = call[u]
  BY <1>1, <1>3 DEF CallType
<1>5. hold' \in [Pages -> Threads \cup {NoThread}]
  BY FillType DEF UnmapLock, Drop, IInv, TypeOK
<1>6. TypeOK'
  BY <1>1, <1>2, <1>4, <1>5 DEF IInv, TypeOK, table, kernel
<1>7. Alone(t) /\ LocalsAt(t)'
  BY <1>1, <1>2, <1>4 DEF IInv, Alone, LocalsAt, Loops, NoWrap
<1> QED
  BY <1>1, <1>6, <1>7, QuietStep DEF table, kernel

LEMMA UnmapSkipStep ==
    ASSUME IInv, NEW t \in Threads, UnmapSkip(t)
    PROVE  IInv'
<1>1. /\ pc[t] = "unmapping" /\ call' = [call EXCEPT ![t].i = @ + 1]
      /\ UNCHANGED <<table, mutex, kernel, mem, pc, ghosts>>
  BY DEF UnmapSkip, InLoop
<1>2. call[t] \in CallType /\ call \in [Threads -> CallType]
  BY DEF IInv, TypeOK
<1>3. /\ call' \in [Threads -> CallType] /\ call'[t].i = call[t].i + 1 /\ call[t].i \in Nat
      /\ call'[t].addr = call[t].addr /\ call'[t].len = call[t].len
      /\ \A u \in Threads : u # t => call'[u] = call[u]
  BY <1>1, <1>2 DEF CallType
<1>4. TypeOK'
  BY <1>1, <1>3 DEF IInv, TypeOK, table, kernel, ghosts
<1>5. Alone(t) /\ LocalsAt(t)'
  BY <1>1, <1>3 DEF IInv, OneHolder, Alone, LocalsAt, Loops, NoWrap
<1> QED
  BY <1>1, <1>4, <1>5, QuietStep DEF table, kernel

(* _vm_pool_init and the loop of _vm_pool_alloc.                            *)
LEMMA MapPoolStep ==
    ASSUME IInv, NEW t \in Threads, MapPool(t)
    PROVE  IInv'
<1>1. /\ pc[t] = "map" /\ MapLen(t) # 0 /\ ~HaveKubridge /\ mutex = NoThread
      /\ vm_open' = TRUE /\ mutex' = t /\ Goto(t, "alloc")
      /\ call' = [call EXCEPT ![t].base = VmBase, ![t].i = 1]
      /\ UNCHANGED <<regions, mman_ready, kernel, mem, ghosts>>
  BY DEF MapPool, Mapping, MapOk, Free
<1>2. /\ pc' \in [Threads -> Labels] /\ pc'[t] = "alloc"
      /\ \A u \in Threads : u # t => pc'[u] = pc[u]
  BY <1>1, GotoTypes DEF Labels
<1>3. call[t] \in CallType /\ call \in [Threads -> CallType]
  BY DEF IInv, TypeOK
<1>4. /\ call' \in [Threads -> CallType] /\ call'[t].i = 1 /\ call'[t].base = VmBase
      /\ call'[t].addr = call[t].addr /\ call'[t].len = call[t].len
      /\ call'[t].new = call[t].new
      /\ \A u \in Threads : u # t => call'[u] = call[u]
  BY <1>1, <1>3, PageTypes DEF CallType
<1>5. TypeOK'
  BY <1>1, <1>2, <1>4 DEF IInv, TypeOK, kernel, ghosts
<1>6. VmBase <= PoolEnd /\ \A j \in 1..Len(regions) : ~(j < 1)
  BY MmanAssumption DEF PoolEnd
<1>7. LocalsAt(t)'
  BY <1>1, <1>2, <1>4, <1>6, MmanAssumption DEF IInv, LocalsAt, NoWrap, MapLen
<1>8. Alone(t)
  BY <1>1, <1>2, <1>4 DEF Alone
<1> QED
  BY <1>1, <1>5, <1>7, <1>8, QuietStep DEF kernel

LEMMA AllocNextStep ==
    ASSUME IInv, NEW t \in Threads, AllocNext(t)
    PROVE  IInv'
<1> DEFINE r == regions[call[t].i]
           b == IF r.uid = PoolUid /\ End(r) > call[t].base THEN End(r) ELSE call[t].base
<1>1. /\ pc[t] = "alloc" /\ call[t].i <= Len(regions)
      /\ call' = [call EXCEPT ![t].i = @ + 1, ![t].base = b]
      /\ UNCHANGED <<table, mutex, kernel, mem, pc, ghosts>>
  BY DEF AllocNext, Allocating
<1>2. call[t] \in CallType /\ call \in [Threads -> CallType]
  BY DEF IInv, TypeOK
<1>3. call[t].i \in 1..Len(regions) /\ call[t].base \in Pages
  BY <1>1, <1>2, TableType DEF IInv, TypeOK, CallType, LocalsAt
<1>4. /\ r.uid = PoolUid /\ End(r) \in Nat /\ End(r) <= PoolEnd
  BY <1>1, <1>3, TableType DEF IInv, TypeOK, TableInv, RegionsInside, OneBackend, LocalsAt
<1>5. /\ b \in Pages /\ VmBase <= b /\ b <= PoolEnd /\ End(r) <= b /\ call[t].base <= b
  <2>1. VmBase <= call[t].base /\ call[t].base <= PoolEnd
    BY <1>1 DEF IInv, LocalsAt
  <2>2. /\ Pages = 0..(AddrSpace - 1) /\ AddrSpace \in Nat /\ VmBase \in Nat
        /\ PoolEnd \in Pages /\ call[t].base \in Nat
    BY <1>3, PageTypes
  <2> HIDE DEF r
  <2> QED
    BY <2>1, <2>2, <1>3, <1>4
<1> HIDE DEF b
<1>6. /\ call' \in [Threads -> CallType] /\ call'[t].i = call[t].i + 1 /\ call'[t].base = b
      /\ call'[t].addr = call[t].addr /\ call'[t].len = call[t].len
      /\ call'[t].new = call[t].new
      /\ \A u \in Threads : u # t => call'[u] = call[u]
  <2> DEFINE c == [call[t] EXCEPT !.i = call[t].i + 1, !.base = b]
  <2>1. call' = [call EXCEPT ![t] = c]
    BY <1>1, <1>2 DEF CallType
  <2>2. /\ c \in CallType /\ c.i = call[t].i + 1 /\ c.base = b
        /\ c.addr = call[t].addr /\ c.len = call[t].len /\ c.new = call[t].new
    <3>1. call[t].i + 1 \in Nat /\ b \in Pages
      BY <1>2, <1>5 DEF CallType
    <3> QED
      BY <1>2, <3>1 DEF CallType
  <2> HIDE DEF c
  <2> QED
    BY <2>1, <2>2, <1>2
<1>7. TypeOK'
  BY <1>1, <1>6 DEF IInv, TypeOK, table, kernel, ghosts
<1>8. ASSUME NEW j \in 1..Len(regions), j < call[t].i + 1 PROVE End(regions[j]) <= b
  <2>1. CASE j = call[t].i
    BY <2>1, <1>5
  <2>2. CASE j < call[t].i
    <3>1. End(regions[j]) <= call[t].base /\ End(regions[j]) \in Nat
      BY <2>2, <1>1, TableType DEF IInv, TypeOK, LocalsAt
    <3>2. call[t].base \in Nat /\ b \in Nat /\ call[t].base <= b
      BY <1>3, <1>5, PageTypes
    <3> QED
      BY <3>1, <3>2
  <2> QED
    BY <1>3, <1>8, <2>1, <2>2
<1>9. LocalsAt(t)'
  BY <1>1, <1>3, <1>5, <1>6, <1>8 DEF IInv, LocalsAt, NoWrap, MapLen, table
<1>10. Alone(t)
  BY <1>1, <1>6 DEF IInv, Alone, OneHolder, Loops
<1> QED
  BY <1>1, <1>7, <1>9, <1>10, QuietStep DEF table, kernel

-----------------------------------------------------------------------------
(* Steps on the table.                                                      *)

(* Regions made of old ones keep to the pool or to their reservations.      *)
LEMMA SmallerRegions ==
    ASSUME IInv, regions' \in Seq(Region), Ordered(regions'), vm_open' = vm_open,
           \A j \in 1..Len(regions') : \E i \in 1..Len(regions) :
               /\ regions'[j].uid = regions[i].uid
               /\ regions[i].addr <= regions'[j].addr /\ End(regions'[j]) <= End(regions[i]),
           \A b \in blocks : \A j \in 1..Len(regions') : regions'[j].uid = b.uid => b \in blocks',
           blocks' \subseteq blocks,
           NoLeakedBlock'
    PROVE  TableInv'
<1>1. RegionsDisjoint'
  BY DEF Ordered, RegionsDisjoint, End
<1>2. OneBackend'
  BY DEF IInv, TableInv, OneBackend
<1>3. ASSUME NEW j \in 1..Len(regions')
      PROVE  IF regions'[j].uid = PoolUid
             THEN vm_open' /\ VmBase <= regions'[j].addr /\ End(regions'[j]) <= PoolEnd
             ELSE \E b \in blocks' : /\ b.uid = regions'[j].uid /\ b.addr <= regions'[j].addr
                                     /\ End(regions'[j]) <= b.addr + b.len
  <2>1. PICK i \in 1..Len(regions) :
            /\ regions'[j].uid = regions[i].uid
            /\ regions[i].addr <= regions'[j].addr /\ End(regions'[j]) <= End(regions[i])
    OBVIOUS
  <2>2. /\ regions[i].addr \in Nat /\ End(regions[i]) \in Nat
        /\ regions'[j].addr \in Nat /\ End(regions'[j]) \in Nat
    BY TableType DEF IInv, TypeOK
  <2>3. CASE regions[i].uid = PoolUid
    <3>1. vm_open /\ VmBase <= regions[i].addr /\ End(regions[i]) <= PoolEnd
      BY <2>3 DEF IInv, TableInv, RegionsInside
    <3>2. VmBase \in Nat /\ PoolEnd \in Nat
      BY PageTypes
    <3>3. VmBase <= regions'[j].addr /\ End(regions'[j]) <= PoolEnd
      BY <2>1, <2>2, <3>1, <3>2, LeqTrans, Zenon
    <3> QED
      BY <2>1, <2>3, <3>1, <3>3
  <2>4. CASE regions[i].uid # PoolUid
    <3>1. PICK b \in blocks : /\ b.uid = regions[i].uid /\ b.addr <= regions[i].addr
                              /\ End(regions[i]) <= b.addr + b.len
      BY <2>4 DEF IInv, TableInv, RegionsInside
    <3>2. b.addr \in Nat /\ b.addr + b.len \in Nat
      <4>1. b \in [uid : Uids, addr : Pages, len : Pages]
        BY DEF IInv, TypeOK
      <4>2. b.addr \in Nat /\ b.len \in Nat
        BY <4>1, PageTypes
      <4> QED
        BY <4>2
    <3>3. b \in blocks'
      BY <2>1, <3>1
    <3>4. b.addr <= regions'[j].addr
      BY <2>1, <2>2, <3>1, <3>2, LeqTrans, Zenon
    <3>5. End(regions'[j]) <= b.addr + b.len
      BY <2>1, <2>2, <3>1, <3>2, LeqTrans, Zenon
    <3> QED
      BY <2>1, <2>4, <3>1, <3>3, <3>4, <3>5
  <2> QED
    BY <2>3, <2>4
<1>4. RegionsInside'
  BY <1>3 DEF RegionsInside, End
<1> QED
  BY <1>1, <1>2, <1>4 DEF TableInv

(* Where __mman_map continues.                                              *)
LEMMA AfterMapType ==
    ASSUME NEW t \in Threads
    PROVE  AfterMap(t) \in Labels \ Loops /\ AfterMap(t) \in {"fill", "copy"}
BY DEF AfterMap, Labels, Loops

LEMMA MapTypes ==
    ASSUME IInv, NEW t \in Threads
    PROVE  /\ call[t] \in CallType /\ call \in [Threads -> CallType]
           /\ MapLen(t) \in Pages /\ MapLen(t) \in Nat /\ MapProt(t) \in SUBSET Bits
<1>1. call[t] \in CallType /\ call \in [Threads -> CallType]
  BY DEF IInv, TypeOK
<1>2. call[t].new \in 0..AddrSpace /\ call[t].prot \in SUBSET Bits
  BY <1>1 DEF CallType
<1> QED
  BY <1>1, <1>2, PageTypes DEF MapLen, MapProt, Bits

LEMMA TakeType ==
    ASSUME IInv, NEW t \in Threads, NEW S, Take(t, S)
    PROVE  /\ hold' \in [Pages -> Threads \cup {NoThread}]
           /\ expect' \in [Pages -> {"zero", "data", "any"}]
           /\ UNCHANGED <<holes, diverged, stranded>>
<1>1. /\ hold \in [Pages -> Threads \cup {NoThread}] /\ t \in Threads \cup {NoThread}
      /\ expect \in [Pages -> {"zero", "data", "any"}] /\ "any" \in {"zero", "data", "any"}
  BY DEF IInv, TypeOK
<1> QED
  BY <1>1, FillType DEF Take

LEMMA MapReserveStep ==
    ASSUME IInv, NEW t \in Threads, MapReserve(t)
    PROVE  IInv'
<1>1. /\ pc[t] = "map" /\ MapLen(t) # 0 /\ mutex = NoThread /\ HaveKubridge
      /\ Len(regions) < MMAN_MAX_REGIONS /\ Goto(t, AfterMap(t))
      /\ UNCHANGED <<mman_ready, vm_open, mutex, mem>>
  BY DEF MapReserve, Mapping, MapOk, Free, HasRoom
<1>2. PICK b \in Pages, u \in Uids :
          /\ Reservable(t, b)
          /\ blocks' = blocks \cup {[uid |-> u, addr |-> b, len |-> MapLen(t)]}
          /\ backing' = Commit(PagesOf(b, MapLen(t)), MapProt(t))
          /\ regions' = region_insert(regions,
                [addr |-> b, len |-> MapLen(t), uid |-> u, prot |-> MapProt(t)])
          /\ call' = [call EXCEPT ![t].base = b]
          /\ Take(t, PagesOf(b, MapLen(t)))
  BY DEF MapReserve
<1> DEFINE r == [addr |-> b, len |-> MapLen(t), uid |-> u, prot |-> MapProt(t)]
           k == [uid |-> u, addr |-> b, len |-> MapLen(t)]
<1>3. /\ call[t] \in CallType /\ call \in [Threads -> CallType]
      /\ MapLen(t) \in Pages /\ MapLen(t) \in Nat /\ MapProt(t) \in SUBSET Bits
  BY MapTypes
<1>4. /\ r \in Region /\ r.addr = b /\ r.len = MapLen(t) /\ r.uid = u /\ End(r) = b + MapLen(t)
      /\ r.len > 0 /\ b \in Nat /\ b + MapLen(t) < AddrSpace
  BY <1>1, <1>2, <1>3, PageTypes DEF Region, End, Reservable
<1>5. k \in [uid : Uids, addr : Pages, len : Pages] /\ k.uid = u /\ k.addr = b /\ k.len = MapLen(t)
  BY <1>3
<1> HIDE DEF r, k
<1>6. \A i \in 1..Len(regions) : End(regions[i]) <= r.addr \/ End(r) <= regions[i].addr
  <2> SUFFICES ASSUME NEW i \in 1..Len(regions)
               PROVE  End(regions[i]) <= r.addr \/ End(r) <= regions[i].addr
    OBVIOUS
  <2>1. regions[i].uid # PoolUid
    BY <1>1 DEF IInv, TableInv, OneBackend
  <2>2. PICK m \in blocks : /\ m.uid = regions[i].uid /\ m.addr <= regions[i].addr
                            /\ End(regions[i]) <= m.addr + m.len
    BY <2>1 DEF IInv, TableInv, RegionsInside
  <2>3. m.addr + m.len <= b \/ b + MapLen(t) <= m.addr
    BY <1>2 DEF Reservable
  <2>4. m.addr \in Nat /\ m.len \in Nat /\ regions[i].addr \in Nat /\ End(regions[i]) \in Nat
    BY TableType, PageTypes DEF IInv, TypeOK
  <2> QED
    BY <1>3, <1>4, <2>2, <2>3, <2>4
<1>7. regions \in Seq(Region) /\ Ordered(regions)
  BY DEF IInv, TypeOK, TableInv, RegionsDisjoint, Ordered
<1>8. /\ regions' \in Seq(Region) /\ Len(regions') = Len(regions) + 1 /\ Ordered(regions')
      /\ \A j \in 1..(Len(regions) + 1) :
            regions'[j] = r \/ \E i \in 1..Len(regions) : regions'[j] = regions[i]
      /\ \A i \in 1..Len(regions) : \E j \in 1..(Len(regions) + 1) : regions'[j] = regions[i]
      /\ \E j \in 1..(Len(regions) + 1) : regions'[j] = r
  <2>1. regions' = region_insert(regions, r)
    BY <1>2 DEF r
  <2> QED
    BY <2>1, <1>4, <1>6, <1>7, InsertOrdered, ZenonT(30)
<1>9. TableInv'
  <2>1. RegionsDisjoint'
    BY <1>8 DEF Ordered, RegionsDisjoint, End
  <2>2. ASSUME NEW j \in 1..Len(regions')
        PROVE  /\ regions'[j].uid # PoolUid
               /\ \E m \in blocks' : /\ m.uid = regions'[j].uid /\ m.addr <= regions'[j].addr
                                     /\ End(regions'[j]) <= m.addr + m.len
    <3>1. CASE regions'[j] = r
      <4>1. k \in blocks' /\ k.addr <= r.addr /\ End(r) <= k.addr + k.len
        BY <1>2, <1>3, <1>4, <1>5 DEF k
      <4> QED
        BY <3>1, <4>1, <1>4, <1>5, MmanAssumption
    <3>2. CASE \E i \in 1..Len(regions) : regions'[j] = regions[i]
      BY <1>1, <1>2, <3>2 DEF IInv, TableInv, OneBackend, RegionsInside
    <3> QED
      BY <3>1, <3>2, <1>8
  <2>3. RegionsInside' /\ OneBackend'
    BY <2>2, <1>1 DEF RegionsInside, OneBackend, End
  <2>4. NoLeakedBlock'
    <3> SUFFICES ASSUME NEW m \in blocks' PROVE \E j \in 1..Len(regions') : regions'[j].uid = m.uid
      BY DEF NoLeakedBlock
    <3>1. CASE m = k
      BY <3>1, <1>4, <1>5, <1>8
    <3>2. CASE m \in blocks
      <4>1. PICK i \in 1..Len(regions) : regions[i].uid = m.uid
        BY <3>2 DEF IInv, TableInv, NoLeakedBlock
      <4>2. PICK j \in 1..(Len(regions) + 1) : regions'[j] = regions[i]
        BY <1>8
      <4> QED
        BY <4>1, <4>2, <1>8
    <3> QED
      BY <3>1, <3>2, <1>2 DEF k
  <2> QED
    BY <2>1, <2>3, <2>4 DEF TableInv
<1>10. /\ call' \in [Threads -> CallType] /\ call'[t].base = b
       /\ call'[t].addr = call[t].addr /\ call'[t].len = call[t].len
       /\ call'[t].new = call[t].new
       /\ \A v \in Threads : v # t => call'[v] = call[v]
  BY <1>2, <1>3 DEF CallType
<1>11. /\ pc' \in [Threads -> Labels] /\ pc'[t] \in {"fill", "copy"}
       /\ \A v \in Threads : v # t => pc'[v] = pc[v]
  BY <1>1, AfterMapType, GotoTypes
<1>12. TypeOK'
  <2>1. DOMAIN backing' \subseteq Pages /\ \A p \in DOMAIN backing' : backing'[p] \in SUBSET Bits
    BY <1>2, <1>3, CommitType, PageTypes
  <2>2. blocks' \subseteq [uid : Uids, addr : Pages, len : Pages]
    BY <1>2, <1>5 DEF IInv, TypeOK, k
  <2>3. Len(regions') <= MMAN_MAX_REGIONS
    BY <1>1, <1>8, TableType, MmanAssumption DEF IInv, TypeOK
  <2>4. /\ hold' \in [Pages -> Threads \cup {NoThread}]
        /\ expect' \in [Pages -> {"zero", "data", "any"}]
        /\ UNCHANGED <<holes, diverged, stranded>>
    BY <1>2, TakeType
  <2> QED
    BY <1>1, <1>8, <1>10, <1>11, <2>1, <2>2, <2>3, <2>4 DEF IInv, TypeOK
<1>13. Alone(t)
  BY <1>10, <1>11 DEF Alone, Loops
<1>14. LocalsAt(t)'
  BY <1>1, <1>4, <1>10, <1>11 DEF IInv, LocalsAt, NoWrap, MapLen
<1> QED
  BY <1>1, <1>9, <1>12, <1>13, <1>14, TableStep

LEMMA AllocDoneStep ==
    ASSUME IInv, NEW t \in Threads, AllocDone(t)
    PROVE  IInv'
<1> DEFINE b == call[t].base
           r == [addr |-> b, len |-> MapLen(t), uid |-> PoolUid, prot |-> MapProt(t)]
<1>1. /\ pc[t] = "alloc" /\ Len(regions) < MMAN_MAX_REGIONS /\ Goto(t, AfterMap(t))
      /\ regions' = region_insert(regions, r)
      /\ Take(t, PagesOf(b, MapLen(t)))
      /\ mutex' = NoThread /\ UNCHANGED <<mman_ready, vm_open, kernel, mem, call>>
      /\ b <= PoolEnd /\ PoolEnd - b >= MapLen(t)
      /\ ~(call[t].i <= Len(regions) /\ ~GapFound(t))
  BY DEF AllocDone, Allocating, Fits, HasRoom
<1>2. /\ ~HaveKubridge /\ vm_open /\ MapLen(t) # 0 /\ call[t].i >= 1 /\ VmBase <= b
      /\ \A j \in 1..Len(regions) : j < call[t].i => End(regions[j]) <= b
      /\ mutex = t
  BY <1>1 DEF IInv, LocalsAt, OneHolder, Loops
<1>3. /\ call[t] \in CallType /\ MapLen(t) \in Pages /\ MapLen(t) \in Nat
      /\ MapProt(t) \in SUBSET Bits
  BY MapTypes
<1>4. b \in Pages /\ b \in Nat /\ call[t].i \in Nat /\ PoolEnd \in Nat
  BY <1>3, PageTypes DEF CallType
<1>5. b + MapLen(t) <= PoolEnd /\ b + MapLen(t) < AddrSpace
  BY <1>1, <1>3, <1>4, MmanAssumption DEF PoolEnd
<1>6. /\ r \in Region /\ r.addr = b /\ r.len = MapLen(t) /\ r.uid = PoolUid
      /\ End(r) = b + MapLen(t) /\ r.len > 0
  BY <1>2, <1>3, <1>4 DEF Region, End
<1> HIDE DEF r, b
<1>7. regions \in Seq(Region) /\ Ordered(regions)
  BY DEF IInv, TypeOK, TableInv, RegionsDisjoint, Ordered
<1>8. \A i \in 1..Len(regions) : End(regions[i]) <= r.addr \/ End(r) <= regions[i].addr
  <2> SUFFICES ASSUME NEW i \in 1..Len(regions)
               PROVE  End(regions[i]) <= r.addr \/ End(r) <= regions[i].addr
    OBVIOUS
  <2>1. CASE i < call[t].i
    BY <2>1, <1>2, <1>6
  <2>2. CASE i >= call[t].i
    <3>1. call[t].i \in 1..Len(regions) /\ GapFound(t)
      BY <2>2, <1>1, <1>2, <1>4, <1>7, TableType
    <3>2. regions[call[t].i].addr >= b + MapLen(t)
      BY <3>1, <1>5 DEF GapFound, Plus, b
    <3>3. CASE i = call[t].i
      BY <3>3, <3>2, <1>6
    <3>4. CASE i > call[t].i
      <4>1. End(regions[call[t].i]) <= regions[i].addr
        BY <3>1, <3>4, <1>7 DEF Ordered
      <4>2. /\ regions[call[t].i].addr \in Nat /\ regions[call[t].i].len \in Nat
            /\ regions[i].addr \in Nat
            /\ End(regions[call[t].i]) = regions[call[t].i].addr + regions[call[t].i].len
        BY <3>1, <1>7, TableType
      <4>3. b + MapLen(t) \in Nat
        BY <1>3, <1>4
      <4>4. b + MapLen(t) <= regions[i].addr
        BY <3>2, <4>1, <4>2, <4>3
      <4> QED
        BY <4>4, <1>6
    <3> QED
      BY <2>2, <3>1, <3>3, <3>4
  <2> QED
    BY <2>1, <2>2, <1>4
<1>9. /\ regions' \in Seq(Region) /\ Len(regions') = Len(regions) + 1 /\ Ordered(regions')
      /\ \A j \in 1..(Len(regions) + 1) :
            regions'[j] = r \/ \E i \in 1..Len(regions) : regions'[j] = regions[i]
      /\ \A i \in 1..Len(regions) : \E j \in 1..(Len(regions) + 1) : regions'[j] = regions[i]
  BY <1>1, <1>6, <1>7, <1>8, InsertOrdered
<1>10. TableInv'
  <2>1. RegionsDisjoint'
    BY <1>9 DEF Ordered, RegionsDisjoint, End
  <2>2. ASSUME NEW j \in 1..Len(regions')
        PROVE  /\ regions'[j].uid = PoolUid
               /\ VmBase <= regions'[j].addr /\ End(regions'[j]) <= PoolEnd
    <3>1. CASE regions'[j] = r
      BY <3>1, <1>2, <1>5, <1>6
    <3>2. CASE \E i \in 1..Len(regions) : regions'[j] = regions[i]
      BY <1>2, <3>2 DEF IInv, TableInv, OneBackend, RegionsInside
    <3> QED
      BY <3>1, <3>2, <1>9
  <2>3. RegionsInside' /\ OneBackend'
    BY <2>2, <1>1, <1>2 DEF RegionsInside, OneBackend, End
  <2>4. NoLeakedBlock'
    BY <1>1, <1>9 DEF IInv, TableInv, NoLeakedBlock, kernel
  <2> QED
    BY <2>1, <2>3, <2>4 DEF TableInv
<1>11. /\ pc' \in [Threads -> Labels] /\ pc'[t] \in {"fill", "copy"}
       /\ \A v \in Threads : v # t => pc'[v] = pc[v]
  BY <1>1, AfterMapType, GotoTypes
<1>12. TypeOK'
  <2>1. Len(regions') <= MMAN_MAX_REGIONS
    BY <1>1, <1>7, <1>9, TableType, MmanAssumption
  <2>2. /\ hold' \in [Pages -> Threads \cup {NoThread}]
        /\ expect' \in [Pages -> {"zero", "data", "any"}]
        /\ UNCHANGED <<holes, diverged, stranded>>
    BY <1>1, TakeType
  <2> QED
    BY <1>1, <1>9, <1>11, <2>1, <2>2 DEF IInv, TypeOK, kernel
<1>13. Alone(t)
  BY <1>1, <1>11 DEF Alone, Loops
<1>14. LocalsAt(t)'
  BY <1>1, <1>2, <1>5, <1>11 DEF IInv, LocalsAt, NoWrap, MapLen, b
<1> QED
  BY <1>2, <1>10, <1>12, <1>13, <1>14, TableStep

(* __mman_protect moves no region.                                          *)
LEMMA ProtectTable ==
    ASSUME IInv, NEW a, NEW l, NEW prot \in SUBSET Bits, mman_protect(a, l, prot),
           UNCHANGED <<vm_open, blocks>>
    PROVE  /\ regions' \in Seq(Region) /\ Len(regions') = Len(regions) /\ TableInv'
           /\ DOMAIN backing' \subseteq Pages
           /\ \A p \in DOMAIN backing' : backing'[p] \in SUBSET Bits
           /\ diverged' \subseteq Pages
<1> DEFINE n == Len(regions)
           e(j) == IF Covers(a, l, regions[j]) THEN [regions[j] EXCEPT !.prot = prot]
                   ELSE regions[j]
<1>1. regions' = [j \in 1..n |-> e(j)]
  BY DEF mman_protect
<1>2. n \in Nat /\ \A j \in 1..n : regions[j] \in Region
  BY TableType DEF IInv, TypeOK
<1>3. \A j \in 1..n : /\ e(j) \in Region /\ e(j).addr = regions[j].addr
                      /\ e(j).len = regions[j].len /\ e(j).uid = regions[j].uid
  BY <1>2 DEF Region
<1> HIDE DEF e
<1>4. regions' \in Seq(Region) /\ Len(regions') = n /\ \A j \in 1..n : regions'[j] = e(j)
  <2>1. regions' \in [1..n -> Region]
    BY <1>1, <1>3
  <2>2. regions' \in Seq(Region)
    BY <2>1, <1>2, SeqDef
  <2> QED
    BY <2>1, <2>2, <1>1, <1>2, LenProperties
<1>5. \A j \in 1..n : /\ regions'[j].addr = regions[j].addr /\ regions'[j].len = regions[j].len
                      /\ regions'[j].uid = regions[j].uid
                      /\ End(regions'[j]) = End(regions[j])
  BY <1>3, <1>4 DEF End
<1>6. Ordered(regions')
  BY <1>4, <1>5 DEF IInv, TableInv, RegionsDisjoint, Ordered
<1>7. NoLeakedBlock'
  BY <1>4, <1>5 DEF IInv, TableInv, NoLeakedBlock
<1>8. \A j \in 1..Len(regions') : \E i \in 1..n :
          /\ regions'[j].uid = regions[i].uid
          /\ regions[i].addr <= regions'[j].addr /\ End(regions'[j]) <= End(regions[i])
  <2> SUFFICES ASSUME NEW j \in 1..n
               PROVE /\ regions'[j].uid = regions[j].uid
                     /\ regions[j].addr <= regions'[j].addr
                     /\ End(regions'[j]) <= End(regions[j])
    BY <1>4
  <2>1. regions[j].addr \in Nat /\ End(regions[j]) \in Nat
    BY <1>2, RegionType
  <2> QED
    BY <2>1, <1>5
<1>9. TableInv'
  BY <1>4, <1>6, <1>7, <1>8, SmallerRegions
<1>10. PagesOf(a, l) \in SUBSET Pages /\ Covered(a, l) \in SUBSET Pages
  <2>1. \A x, y : PagesOf(x, y) \subseteq Pages
    BY PageTypes
  <2>2. \A i \in 1..n : PagesIn(regions[i]) \subseteq Pages
    BY <2>1 DEF PagesIn
  <2>3. ASSUME NEW p \in Covered(a, l) PROVE p \in Pages
    <3>1. PICK i \in 1..n : p \in PagesIn(regions[i])
      BY <2>3 DEF Covered
    <3> QED
      BY <2>2, <3>1
  <2> QED
    BY <2>1, <2>3
<1>11. /\ DOMAIN backing' \subseteq Pages
       /\ \A p \in DOMAIN backing' : backing'[p] \in SUBSET Bits
  <2>1. backing' = backing \/ backing' = Commit(PagesOf(a, l), prot)
    BY DEF mman_protect
  <2> QED
    BY <2>1, <1>10, CommitType DEF IInv, TypeOK
<1>12. diverged' \subseteq Pages
  BY <1>10 DEF mman_protect, IInv, TypeOK
<1> QED
  BY <1>4, <1>9, <1>11, <1>12

LEMMA ProtectStep ==
    ASSUME IInv, NEW t \in Threads, Protect(t)
    PROVE  IInv'
<1>1. /\ pc[t] = "protect" /\ mutex = NoThread
      /\ mman_protect(call[t].base, MapLen(t), call[t].prot)
      /\ UNCHANGED <<mman_ready, vm_open, mutex, blocks, mem, hold, expect, holes, stranded>>
  BY DEF Protect, Free
<1>2. call[t].prot \in SUBSET Bits
  BY MapTypes DEF CallType
<1>3. /\ regions' \in Seq(Region) /\ Len(regions') = Len(regions) /\ TableInv'
      /\ DOMAIN backing' \subseteq Pages
      /\ \A p \in DOMAIN backing' : backing'[p] \in SUBSET Bits
      /\ diverged' \subseteq Pages
  BY <1>1, <1>2, ProtectTable
<1>4. /\ pc' \in [Threads -> Labels] /\ call' \in [Threads -> CallType]
      /\ Alone(t) /\ LocalsAt(t)'
  <2>1. CASE Return(t)
    BY <2>1, ReturnTypes
  <2>2. CASE Goto(t, "unmap") /\ UNCHANGED call
    <3>1. /\ pc' \in [Threads -> Labels] /\ pc'[t] = "unmap"
          /\ \A u \in Threads : u # t => pc'[u] = pc[u]
      BY <2>2, GotoTypes DEF Labels
    <3>2. LocalsAt(t)'
      BY <1>1, <2>2, <3>1, PlainLocals DEF Loops
    <3> QED
      BY <2>2, <3>1, <3>2 DEF Alone, Loops, IInv, TypeOK
  <2> QED
    BY <2>1, <2>2 DEF Protect, AfterProtect
<1>5. TypeOK'
  BY <1>1, <1>3, <1>4 DEF IInv, TypeOK
<1> QED
  BY <1>1, <1>3, <1>4, <1>5, TableStep

LEMMA mprotectStep ==
    ASSUME IInv, NEW t \in Threads, mprotect(t)
    PROVE  IInv'
<1>1. /\ pc[t] = "idle" /\ mutex = NoThread
      /\ UNCHANGED <<mman_ready, vm_open, mutex, blocks, mem, pc, call,
                     hold, expect, holes, stranded>>
  BY DEF mprotect, Free
<1>2. PICK a \in Pages, l \in Lens \ {0}, pr \in Prots : mman_protect(a, MMAN_PAGE_ALIGN(l), pr)
  BY DEF mprotect
<1>3. pr \in SUBSET Bits
  BY MmanAssumption
<1>4. /\ regions' \in Seq(Region) /\ Len(regions') = Len(regions) /\ TableInv'
      /\ DOMAIN backing' \subseteq Pages
      /\ \A p \in DOMAIN backing' : backing'[p] \in SUBSET Bits
      /\ diverged' \subseteq Pages
  BY <1>1, <1>2, <1>3, ProtectTable
<1>5. TypeOK'
  BY <1>1, <1>4 DEF IInv, TypeOK
<1>6. Alone(t) /\ LocalsAt(t)'
  BY <1>1 DEF IInv, Alone, Loops, LocalsAt, NoWrap
<1> QED
  BY <1>1, <1>4, <1>5, <1>6, TableStep

(* A region of the table and its neighbours.                                *)
LEMMA Neighbours ==
    ASSUME IInv, NEW k \in 1..Len(regions)
    PROVE  /\ regions[k] \in Region /\ regions[k].len > 0
           /\ regions[k].addr \in Nat /\ regions[k].len \in Nat
           /\ End(regions[k]) = regions[k].addr + regions[k].len
           /\ \A i \in 1..Len(regions) : i < k => End(regions[i]) <= regions[k].addr
           /\ \A i \in 1..Len(regions) : i > k => End(regions[k]) <= regions[i].addr
           /\ \A i \in 1..Len(regions) : regions[i].addr \in Nat /\ End(regions[i]) \in Nat
           /\ regions \in Seq(Region) /\ Ordered(regions) /\ Len(regions) \in Nat
<1>1. /\ regions \in Seq(Region) /\ Ordered(regions)
  BY DEF IInv, TypeOK, TableInv, RegionsDisjoint, Ordered
<1>2. Len(regions) \in Nat /\ \A i \in 1..Len(regions) :
          /\ regions[i] \in Region /\ regions[i].addr \in Nat /\ regions[i].len \in Nat
          /\ End(regions[i]) \in Nat /\ End(regions[i]) = regions[i].addr + regions[i].len
  BY <1>1, TableType
<1> QED
  BY <1>1, <1>2 DEF Ordered

LEMMA ForgetType ==
    ASSUME IInv, NEW S, Forget(S)
    PROVE  /\ expect' \in [Pages -> {"zero", "data", "any"}]
           /\ holes' \subseteq Pages /\ diverged' \subseteq Pages /\ stranded' \subseteq Pages
<1>1. expect \in [Pages -> {"zero", "data", "any"}] /\ "any" \in {"zero", "data", "any"}
  BY DEF IInv, TypeOK
<1>2. expect' \in [Pages -> {"zero", "data", "any"}]
  BY <1>1, FillType DEF Forget
<1> QED
  BY <1>2 DEF Forget, IInv, TypeOK

LEMMA DropType ==
    ASSUME IInv, NEW S, Drop(S)
    PROVE  hold' \in [Pages -> Threads \cup {NoThread}]
<1>1. hold \in [Pages -> Threads \cup {NoThread}] /\ NoThread \in Threads \cup {NoThread}
  BY DEF IInv, TypeOK
<1> QED
  BY <1>1, FillType DEF Drop

(* A region that is cut at one end.                                         *)
LEMMA CutRegion ==
    ASSUME IInv, NEW k \in 1..Len(regions), NEW r \in Region, r.len > 0,
           r.uid = regions[k].uid, regions[k].addr <= r.addr, End(r) <= End(regions[k]),
           regions' = Replaced(regions, k, r), UNCHANGED <<vm_open, blocks>>
    PROVE  regions' \in Seq(Region) /\ Len(regions') = Len(regions) /\ TableInv'
<1>1. /\ regions[k].addr \in Nat /\ End(regions[k]) \in Nat
      /\ \A i \in 1..Len(regions) : i < k => End(regions[i]) <= regions[k].addr
      /\ \A i \in 1..Len(regions) : i > k => End(regions[k]) <= regions[i].addr
      /\ \A i \in 1..Len(regions) : regions[i].addr \in Nat /\ End(regions[i]) \in Nat
      /\ regions \in Seq(Region) /\ Ordered(regions)
  BY Neighbours
<1>2. r.addr \in Nat /\ End(r) \in Nat
  BY RegionType
<1>3. /\ \A i \in 1..Len(regions) : i < k => End(regions[i]) <= r.addr
      /\ \A i \in 1..Len(regions) : i > k => End(r) <= regions[i].addr
  BY <1>1, <1>2
<1>4. /\ regions' \in Seq(Region) /\ Len(regions') = Len(regions) /\ Ordered(regions')
      /\ \A i \in 1..Len(regions) : regions'[i] = IF i = k THEN r ELSE regions[i]
  BY <1>1, <1>3, ReplaceOrdered
<1>5. \A j \in 1..Len(regions') : \E i \in 1..Len(regions) :
          /\ regions'[j].uid = regions[i].uid
          /\ regions[i].addr <= regions'[j].addr /\ End(regions'[j]) <= End(regions[i])
  <2> SUFFICES ASSUME NEW j \in 1..Len(regions)
               PROVE  /\ regions'[j].uid = regions[j].uid
                      /\ regions[j].addr <= regions'[j].addr
                      /\ End(regions'[j]) <= End(regions[j])
    BY <1>4
  <2>1. CASE j = k
    BY <2>1, <1>4
  <2>2. CASE j # k
    BY <2>2, <1>1, <1>4
  <2> QED
    BY <2>1, <2>2
<1>6. NoLeakedBlock'
  BY <1>4 DEF IInv, TableInv, NoLeakedBlock
<1> QED
  BY <1>4, <1>5, <1>6, SmallerRegions

(* A record of the table with another length.                               *)
LEMMA NewLen ==
    ASSUME NEW r \in Region, NEW l \in Pages
    PROVE  /\ [r EXCEPT !.len = l] \in Region
           /\ [r EXCEPT !.len = l].addr = r.addr /\ [r EXCEPT !.len = l].uid = r.uid
           /\ [r EXCEPT !.len = l].len = l /\ End([r EXCEPT !.len = l]) = r.addr + l
BY DEF Region, End

LEMMA ResizeShrinkStep ==
    ASSUME IInv, NEW t \in Threads, ResizeShrink(t)
    PROVE  IInv'
<1>1. Return(t) /\ UNCHANGED <<mman_ready, vm_open, mutex, blocks, mem>>
  BY DEF ResizeShrink
<1>2. PICK i \in 1..Len(regions) :
          LET S == PagesOf(GrownEnd(t), regions[i].len - call[t].new)
          IN /\ Resizing(t, i) /\ call[t].new < regions[i].len
             /\ backing' = IF regions[i].uid = PoolUid THEN backing ELSE Decommit(S)
             /\ regions' = [regions EXCEPT ![i].len = call[t].new]
             /\ Drop(S) /\ Forget(S)
  BY DEF ResizeShrink
<1> DEFINE S == PagesOf(GrownEnd(t), regions[i].len - call[t].new)
           r == [regions[i] EXCEPT !.len = call[t].new]
<1>3. mutex = NoThread /\ call[t].new # 0
  BY <1>2 DEF Resizing, Free, IInv, LocalsAt
<1>4. call[t].new \in Nat
  BY MapTypes, MmanAssumption DEF CallType
<1>5. /\ regions[i] \in Region /\ regions[i].addr \in Nat /\ regions[i].len \in Pages
      /\ regions[i].len \in Nat /\ End(regions[i]) = regions[i].addr + regions[i].len
  BY Neighbours DEF Region
<1>6. call[t].new \in Pages
  <2>1. call[t].new < regions[i].len
    BY <1>2
  <2> QED
    BY <2>1, <1>4, <1>5, MmanAssumption DEF Pages
<1>7. /\ r \in Region /\ r.len > 0 /\ r.uid = regions[i].uid
      /\ regions[i].addr <= r.addr /\ End(r) <= End(regions[i])
  BY <1>2, <1>3, <1>4, <1>5, <1>6, NewLen
<1>8. regions' = Replaced(regions, i, r)
  BY <1>2 DEF Replaced
<1> HIDE DEF r
<1>9. regions' \in Seq(Region) /\ Len(regions') = Len(regions) /\ TableInv'
  BY <1>1, <1>7, <1>8, CutRegion
<1>10. /\ pc' \in [Threads -> Labels] /\ call' \in [Threads -> CallType]
       /\ Alone(t) /\ LocalsAt(t)'
  BY <1>1, ReturnTypes
<1>11. DOMAIN backing' \subseteq Pages /\ \A p \in DOMAIN backing' : backing'[p] \in SUBSET Bits
  <2>1. backing' = backing \/ backing' = Decommit(S)
    BY <1>2
  <2>2. S \in SUBSET Pages /\ {} \in SUBSET Bits
    BY PageTypes
  <2> HIDE DEF S
  <2> QED
    BY <2>1, <2>2, CommitType DEF IInv, TypeOK
<1>12. /\ hold' \in [Pages -> Threads \cup {NoThread}]
       /\ expect' \in [Pages -> {"zero", "data", "any"}]
       /\ holes' \subseteq Pages /\ diverged' \subseteq Pages /\ stranded' \subseteq Pages
  BY <1>2, DropType, ForgetType
<1>13. TypeOK'
  BY <1>1, <1>9, <1>10, <1>11, <1>12 DEF IInv, TypeOK
<1> QED
  BY <1>3, <1>9, <1>10, <1>13, TableStep

LEMMA ResizeGrowStep ==
    ASSUME IInv, NEW t \in Threads, ResizeGrow(t)
    PROVE  IInv'
<1>1. Return(t) /\ UNCHANGED <<mman_ready, vm_open, mutex, kernel, holes, diverged, stranded>>
  BY DEF ResizeGrow
<1>2. PICK i \in 1..Len(regions) :
          LET S == PagesOf(End(regions[i]), call[t].new - regions[i].len)
          IN /\ Resizing(t, i) /\ call[t].new > regions[i].len /\ CanGrow(t, i)
             /\ mem' = Fill(mem, S, "zero")
             /\ regions' = [regions EXCEPT ![i].len = call[t].new]
             /\ hold' = Fill(hold, S, t) /\ expect' = Fill(expect, S, "zero")
  BY DEF ResizeGrow
<1> DEFINE S == PagesOf(End(regions[i]), call[t].new - regions[i].len)
           r == [regions[i] EXCEPT !.len = call[t].new]
<1>3. /\ mutex = NoThread /\ regions[i].addr = call[t].addr /\ regions[i].uid = PoolUid
      /\ regions[i].addr + call[t].new <= PoolEnd
      /\ \A j \in (1..Len(regions)) \ {i} :
            ~(regions[j].addr < regions[i].addr + call[t].new /\ End(regions[j]) > End(regions[i]))
  BY <1>2 DEF Resizing, Free, CanGrow, GrownEnd
<1>4. call[t].new \in Nat
  BY MapTypes, MmanAssumption DEF CallType
<1>5. /\ regions[i] \in Region /\ regions[i].addr \in Nat /\ regions[i].len \in Nat
      /\ End(regions[i]) = regions[i].addr + regions[i].len
      /\ \A j \in 1..Len(regions) : j < i => End(regions[j]) <= regions[i].addr
      /\ \A j \in 1..Len(regions) : j > i => End(regions[i]) <= regions[j].addr
      /\ regions \in Seq(Region) /\ Ordered(regions)
  BY Neighbours
<1>6. call[t].new \in Pages
  <2>1. PoolEnd \in 0..(AddrSpace - 1) /\ AddrSpace \in Nat
    BY PageTypes
  <2> QED
    BY <2>1, <1>3, <1>4, <1>5 DEF Pages
<1>7. /\ r \in Region /\ r.len > 0 /\ r.uid = PoolUid
      /\ r.addr = regions[i].addr /\ End(r) = regions[i].addr + call[t].new
  BY <1>2, <1>3, <1>4, <1>5, <1>6, NewLen
<1>8. regions' = Replaced(regions, i, r)
  BY <1>2 DEF Replaced
<1> HIDE DEF r
<1>9. ASSUME NEW j \in 1..Len(regions), j > i PROVE End(r) <= regions[j].addr
  <2>1. End(regions[i]) <= regions[j].addr /\ j # i
    BY <1>5, <1>9
  <2>2. /\ regions[j].addr \in Nat /\ regions[j].len \in Nat /\ regions[j].len > 0
        /\ End(regions[j]) = regions[j].addr + regions[j].len
    BY Neighbours
  <2>3. End(regions[j]) > End(regions[i])
    BY <2>1, <2>2, <1>5
  <2>4. ~(regions[j].addr < regions[i].addr + call[t].new)
    BY <1>3, <2>1, <2>3
  <2> QED
    BY <2>2, <2>4, <1>4, <1>5, <1>7
<1>10. /\ regions' \in Seq(Region) /\ Len(regions') = Len(regions) /\ Ordered(regions')
       /\ \A j \in 1..Len(regions) : regions'[j] = IF j = i THEN r ELSE regions[j]
  BY <1>5, <1>7, <1>8, <1>9, ReplaceOrdered
<1>11. TableInv'
  <2>1. RegionsDisjoint'
    BY <1>10 DEF Ordered, RegionsDisjoint, End
  <2>2. ~HaveKubridge
    BY <1>3 DEF IInv, TableInv, OneBackend
  <2>3. ASSUME NEW j \in 1..Len(regions)
        PROVE  /\ regions'[j].uid = PoolUid /\ vm_open
               /\ VmBase <= regions'[j].addr /\ End(regions'[j]) <= PoolEnd
    <3>1. CASE j = i
      <4>1. vm_open /\ VmBase <= regions[i].addr
        BY <1>3 DEF IInv, TableInv, RegionsInside
      <4> QED
        BY <3>1, <4>1, <1>3, <1>7, <1>10
    <3>2. CASE j # i
      BY <3>2, <2>2, <1>10 DEF IInv, TableInv, OneBackend, RegionsInside
    <3> QED
      BY <3>1, <3>2
  <2>4. RegionsInside' /\ OneBackend'
    BY <2>2, <2>3, <1>1, <1>10 DEF RegionsInside, OneBackend, End
  <2>5. NoLeakedBlock'
    BY <1>1, <1>3, <1>7, <1>10 DEF IInv, TableInv, NoLeakedBlock, kernel
  <2> QED
    BY <2>1, <2>4, <2>5 DEF TableInv
<1>12. /\ pc' \in [Threads -> Labels] /\ call' \in [Threads -> CallType]
       /\ Alone(t) /\ LocalsAt(t)'
  BY <1>1, ReturnTypes
<1>13. /\ hold' \in [Pages -> Threads \cup {NoThread}]
       /\ expect' \in [Pages -> {"zero", "data", "any"}] /\ mem' \in [Pages -> {"zero", "data"}]
  <2>1. /\ hold \in [Pages -> Threads \cup {NoThread}] /\ t \in Threads \cup {NoThread}
        /\ expect \in [Pages -> {"zero", "data", "any"}] /\ "zero" \in {"zero", "data", "any"}
        /\ mem \in [Pages -> {"zero", "data"}] /\ "zero" \in {"zero", "data"}
    BY DEF IInv, TypeOK
  <2> QED
    BY <2>1, <1>2, FillType
<1>14. TypeOK'
  BY <1>1, <1>10, <1>12, <1>13 DEF IInv, TypeOK, kernel
<1> QED
  BY <1>3, <1>11, <1>12, <1>14, TableStep

LEMMA SmallerPage ==
    ASSUME NEW l \in Pages, NEW x \in Int, 0 <= x, x <= l
    PROVE  x \in Pages
BY MmanAssumption DEF Pages

(* The region under the cursor of __mman_unmap, and the part that is cut.   *)
LEMMA CutFacts ==
    ASSUME IInv, NEW t \in Threads, Touched(t)
    PROVE  /\ call[t].i \in 1..Len(regions) /\ mutex = t /\ pc[t] = "unmapping"
           /\ Rgn(t) = regions[call[t].i] /\ Rgn(t) \in Region
           /\ Rgn(t).addr \in Nat /\ Rgn(t).len \in Pages /\ Rgn(t).len \in Nat
           /\ End(Rgn(t)) = Rgn(t).addr + Rgn(t).len
           /\ us(t) \in Nat /\ ue(t) \in Nat
           /\ Rgn(t).addr <= us(t) /\ us(t) <= ue(t) /\ ue(t) <= End(Rgn(t))
           /\ Rgn(t).addr < ue(t) /\ us(t) < End(Rgn(t))
           /\ ue(t) # End(Rgn(t)) => ue(t) \in Pages
<1>1. /\ pc[t] = "unmapping" /\ call[t].i <= Len(regions)
      /\ End(Rgn(t)) > call[t].addr /\ Rgn(t).addr < UnmapEnd(t)
  BY DEF Touched, InLoop
<1>2. call[t].i >= 1 /\ NoWrap(call[t].addr, call[t].len) /\ mutex = t
  BY <1>1 DEF IInv, LocalsAt, OneHolder, Loops
<1>3. call[t] \in CallType
  BY DEF IInv, TypeOK
<1>4. call[t].i \in Nat /\ call[t].addr \in Nat /\ call[t].len \in 0..AddrSpace
      /\ call[t].addr \in Pages
  BY <1>3, PageTypes DEF CallType
<1>5. Len(regions) \in Nat
  BY TableType DEF IInv, TypeOK
<1>6. call[t].i \in 1..Len(regions)
  BY <1>1, <1>2, <1>4, <1>5
<1>7. /\ Rgn(t) \in Region /\ Rgn(t).len > 0 /\ Rgn(t).addr \in Nat /\ Rgn(t).len \in Nat
      /\ End(Rgn(t)) = Rgn(t).addr + Rgn(t).len
  BY <1>6, Neighbours DEF Rgn
<1>8. UnmapEnd(t) \in Pages /\ UnmapEnd(t) \in Nat /\ call[t].addr <= UnmapEnd(t)
  <2>1. UnmapLen(t) = call[t].len \/ UnmapLen(t) = 0
    BY DEF UnmapLen, MMAN_PAGE_ALIGN
  <2>2. UnmapEnd(t) = call[t].addr + UnmapLen(t) /\ UnmapLen(t) \in Nat
        /\ call[t].addr + UnmapLen(t) < AddrSpace
    BY <2>1, <1>2, <1>4, MmanAssumption DEF NoWrap, UnmapEnd, Plus
  <2> QED
    BY <2>2, <1>4, MmanAssumption DEF Pages
<1>9. Rgn(t).len \in Pages
  BY <1>7 DEF Region
<1>10. /\ us(t) \in Nat /\ us(t) < End(Rgn(t)) /\ Rgn(t).addr <= us(t)
       /\ us(t) <= UnmapEnd(t)
  <2>1. us(t) = call[t].addr \/ us(t) = Rgn(t).addr
    BY DEF us
  <2>2. Rgn(t).addr <= us(t)
    BY <1>4, <1>7 DEF us
  <2> QED
    BY <2>1, <2>2, <1>1, <1>4, <1>7, <1>8
<1>11. /\ ue(t) \in Nat /\ us(t) <= ue(t) /\ ue(t) <= End(Rgn(t)) /\ Rgn(t).addr < ue(t)
       /\ ue(t) # End(Rgn(t)) => ue(t) \in Pages
  <2>1. ue(t) = UnmapEnd(t) \/ ue(t) = End(Rgn(t))
    BY DEF ue
  <2>2. ue(t) <= End(Rgn(t))
    BY <1>7, <1>8 DEF ue
  <2> QED
    BY <2>1, <2>2, <1>1, <1>7, <1>8, <1>10
<1> QED
  BY <1>1, <1>2, <1>6, <1>7, <1>9, <1>10, <1>11 DEF Rgn

LEMMA CutTypes ==
    ASSUME IInv, NEW t \in Threads, DecommitCut(t), Forget(Cut(t))
    PROVE  /\ DOMAIN backing' \subseteq Pages
           /\ \A p \in DOMAIN backing' : backing'[p] \in SUBSET Bits
           /\ expect' \in [Pages -> {"zero", "data", "any"}]
           /\ holes' \subseteq Pages /\ diverged' \subseteq Pages /\ stranded' \subseteq Pages
<1>1. Cut(t) \in SUBSET Pages /\ {} \in SUBSET Bits
  BY PageTypes DEF Cut
<1>2. backing' = backing \/ backing' = Decommit(Cut(t))
  BY DEF DecommitCut
<1>3. DOMAIN backing' \subseteq Pages /\ \A p \in DOMAIN backing' : backing'[p] \in SUBSET Bits
  BY <1>1, <1>2, CommitType DEF IInv, TypeOK
<1> QED
  BY <1>3, ForgetType

(* The cursor moves on to the next region.                                  *)
LEMMA NextRegion ==
    ASSUME IInv, NEW t \in Threads, pc[t] = "unmapping", mutex' = t, pc' = pc,
           call' = [call EXCEPT ![t].i = @ + 1]
    PROVE  call' \in [Threads -> CallType] /\ Alone(t) /\ LocalsAt(t)'
<1>1. call[t] \in CallType /\ call \in [Threads -> CallType]
  BY DEF IInv, TypeOK
<1>2. /\ call' \in [Threads -> CallType] /\ call'[t].i = call[t].i + 1 /\ call[t].i \in Nat
      /\ call'[t].addr = call[t].addr /\ call'[t].len = call[t].len
      /\ \A u \in Threads : u # t => call'[u] = call[u]
  BY <1>1 DEF CallType
<1> QED
  BY <1>2 DEF IInv, Alone, LocalsAt, NoWrap

LEMMA UnmapHeadStep ==
    ASSUME IInv, NEW t \in Threads, UnmapHead(t)
    PROVE  IInv'
<1> DEFINE k == call[t].i
           r == [Rgn(t) EXCEPT !.addr = ue(t), !.len = End(Rgn(t)) - ue(t)]
<1>1. /\ Touched(t) /\ ue(t) # End(Rgn(t)) /\ DecommitCut(t) /\ Forget(Cut(t)) /\ UNCHANGED hold
      /\ UNCHANGED <<mman_ready, vm_open, mutex, blocks, mem, pc>>
      /\ call' = [call EXCEPT ![t].i = @ + 1]
      /\ regions' = [regions EXCEPT ![k].addr = ue(t), ![k].len = End(Rgn(t)) - ue(t)]
  BY DEF UnmapHead
<1>2. /\ k \in 1..Len(regions) /\ mutex = t /\ pc[t] = "unmapping"
      /\ Rgn(t) = regions[k] /\ Rgn(t) \in Region
      /\ Rgn(t).addr \in Nat /\ Rgn(t).len \in Pages /\ Rgn(t).len \in Nat
      /\ End(Rgn(t)) = Rgn(t).addr + Rgn(t).len
      /\ ue(t) \in Nat /\ ue(t) <= End(Rgn(t)) /\ Rgn(t).addr < ue(t)
      /\ ue(t) \in Pages
  BY <1>1, CutFacts
<1>3. End(Rgn(t)) - ue(t) \in Pages /\ End(Rgn(t)) - ue(t) > 0
  <2>0. ue(t) # End(Rgn(t))
    BY <1>1
  <2>1. /\ End(Rgn(t)) - ue(t) \in Int /\ End(Rgn(t)) - ue(t) > 0
        /\ End(Rgn(t)) - ue(t) <= Rgn(t).len
    <3>1. \A u, e, a, l \in Nat : e = a + l /\ a < u /\ u <= e /\ u # e =>
                                     e - u \in Int /\ e - u > 0 /\ e - u <= l
      OBVIOUS
    <3>2. End(Rgn(t)) \in Nat
      BY <1>2
    <3> QED
      BY <3>1, <3>2, <2>0, <1>2, Zenon
  <2> QED
    BY <2>1, <1>2, SmallerPage
<1>4. /\ r \in Region /\ r.len > 0 /\ r.uid = regions[k].uid
      /\ r.addr = ue(t) /\ r.len = End(Rgn(t)) - ue(t)
  BY <1>2, <1>3 DEF Region
<1>5. regions' = Replaced(regions, k, r)
  BY <1>1, <1>2 DEF Replaced, IInv, TypeOK
<1> HIDE DEF r, k
<1>6. regions[k].addr <= r.addr /\ End(r) <= End(regions[k])
  <2>1. End(r) = r.addr + r.len
    BY DEF End
  <2> QED
    BY <2>1, <1>2, <1>4
<1>7. regions' \in Seq(Region) /\ Len(regions') = Len(regions) /\ TableInv'
  BY <1>1, <1>2, <1>4, <1>5, <1>6, CutRegion
<1>8. call' \in [Threads -> CallType] /\ Alone(t) /\ LocalsAt(t)'
  BY <1>1, <1>2, NextRegion
<1>9. TypeOK'
  BY <1>1, <1>7, <1>8, CutTypes DEF IInv, TypeOK
<1> QED
  BY <1>2, <1>7, <1>8, <1>9, TableStep

LEMMA UnmapTailStep ==
    ASSUME IInv, NEW t \in Threads, UnmapTail(t)
    PROVE  IInv'
<1> DEFINE k == call[t].i
           r == [Rgn(t) EXCEPT !.len = us(t) - Rgn(t).addr]
<1>1. /\ Touched(t) /\ us(t) # Rgn(t).addr /\ DecommitCut(t) /\ Forget(Cut(t)) /\ UNCHANGED hold
      /\ UNCHANGED <<mman_ready, vm_open, mutex, blocks, mem, pc>>
      /\ call' = [call EXCEPT ![t].i = @ + 1]
      /\ regions' = [regions EXCEPT ![k].len = us(t) - Rgn(t).addr]
  BY DEF UnmapTail
<1>2. /\ k \in 1..Len(regions) /\ mutex = t /\ pc[t] = "unmapping"
      /\ Rgn(t) = regions[k] /\ Rgn(t) \in Region
      /\ Rgn(t).addr \in Nat /\ Rgn(t).len \in Pages /\ Rgn(t).len \in Nat
      /\ End(Rgn(t)) = Rgn(t).addr + Rgn(t).len
      /\ us(t) \in Nat /\ Rgn(t).addr <= us(t) /\ us(t) < End(Rgn(t))
  BY <1>1, CutFacts
<1>3. us(t) - Rgn(t).addr \in Pages /\ us(t) - Rgn(t).addr > 0
  <2>0. us(t) # Rgn(t).addr
    BY <1>1
  <2>1. /\ us(t) - Rgn(t).addr \in Int /\ us(t) - Rgn(t).addr > 0
        /\ us(t) - Rgn(t).addr <= Rgn(t).len
    <3>1. \A u, a, l \in Nat : a <= u /\ u # a /\ u < a + l =>
                                  u - a \in Int /\ u - a > 0 /\ u - a <= l
      OBVIOUS
    <3>2. us(t) < Rgn(t).addr + Rgn(t).len
      BY <1>2, Zenon
    <3> QED
      BY <3>1, <3>2, <2>0, <1>2, Zenon
  <2> QED
    BY <2>1, <1>2, SmallerPage
<1>4. /\ r \in Region /\ r.len > 0 /\ r.uid = regions[k].uid
      /\ r.addr = Rgn(t).addr /\ End(r) = us(t)
  <2>1. /\ r \in Region /\ r.addr = Rgn(t).addr /\ r.uid = Rgn(t).uid
        /\ r.len = us(t) - Rgn(t).addr /\ End(r) = Rgn(t).addr + (us(t) - Rgn(t).addr)
    BY <1>2, <1>3, NewLen
  <2> HIDE DEF r
  <2> QED
    BY <2>1, <1>2, <1>3
<1>5. regions' = Replaced(regions, k, r)
  BY <1>1, <1>2 DEF Replaced
<1> HIDE DEF r, k
<1>6. regions[k].addr <= r.addr /\ End(r) <= End(regions[k])
  BY <1>2, <1>4
<1>7. regions' \in Seq(Region) /\ Len(regions') = Len(regions) /\ TableInv'
  BY <1>1, <1>2, <1>4, <1>5, <1>6, CutRegion
<1>8. call' \in [Threads -> CallType] /\ Alone(t) /\ LocalsAt(t)'
  BY <1>1, <1>2, NextRegion
<1>9. TypeOK'
  BY <1>1, <1>7, <1>8, CutTypes DEF IInv, TypeOK
<1> QED
  BY <1>2, <1>7, <1>8, <1>9, TableStep

LEMMA UnmapWholeStep ==
    ASSUME IInv, NEW t \in Threads, UnmapWhole(t)
    PROVE  IInv'
<1> DEFINE k == call[t].i
           u == Rgn(t).uid
<1>1. /\ Touched(t) /\ DecommitCut(t) /\ Forget(Cut(t)) /\ UNCHANGED hold
      /\ UNCHANGED <<mman_ready, vm_open, mutex, mem, pc, call>>
      /\ regions' = region_remove(regions, k)
      /\ blocks' = IF \E i \in 1..Len(regions') : regions'[i].uid = u THEN blocks
                   ELSE {b \in blocks : b.uid # u}
  BY DEF UnmapWhole, release_reservation
<1>2. k \in 1..Len(regions) /\ mutex = t /\ pc[t] = "unmapping" /\ u = regions[k].uid
  BY <1>1, CutFacts
<1> HIDE DEF k, u
<1>3. /\ regions \in Seq(Region) /\ Ordered(regions) /\ Len(regions) \in Nat
      /\ \A i \in 1..Len(regions) : regions[i].addr \in Nat /\ End(regions[i]) \in Nat
  BY <1>2, Neighbours
<1>4. /\ regions' \in Seq(Region) /\ Len(regions') = Len(regions) - 1 /\ Ordered(regions')
      /\ \A j \in 1..(Len(regions) - 1) :
            \E i \in (1..Len(regions)) \ {k} : regions'[j] = regions[i]
      /\ \A i \in (1..Len(regions)) \ {k} :
            \E j \in 1..(Len(regions) - 1) : regions'[j] = regions[i]
  <2>1. regions' = region_remove(regions, k)
    BY <1>1
  <2> DEFINE q == region_remove(regions, k)
  <2>2. /\ q \in Seq(Region) /\ Len(q) = Len(regions) - 1 /\ Ordered(q)
        /\ \A j \in 1..(Len(regions) - 1) : \E i \in (1..Len(regions)) \ {k} : q[j] = regions[i]
        /\ \A i \in (1..Len(regions)) \ {k} : \E j \in 1..(Len(regions) - 1) : q[j] = regions[i]
    BY <1>2, <1>3, RemoveOrdered
  <2> HIDE DEF q
  <2> QED
    BY <2>1, <2>2 DEF q
<1>5. \A j \in 1..Len(regions') : \E i \in 1..Len(regions) :
          /\ regions'[j].uid = regions[i].uid
          /\ regions[i].addr <= regions'[j].addr /\ End(regions'[j]) <= End(regions[i])
  <2> SUFFICES ASSUME NEW j \in 1..Len(regions')
               PROVE  \E i \in 1..Len(regions) :
                         /\ regions'[j].uid = regions[i].uid
                         /\ regions[i].addr <= regions'[j].addr
                         /\ End(regions'[j]) <= End(regions[i])
    OBVIOUS
  <2>1. PICK i \in 1..Len(regions) : regions'[j] = regions[i]
    BY <1>4
  <2> QED
    BY <2>1, <1>3
<1>6. blocks' \subseteq blocks
  BY <1>1
<1>7. \A b \in blocks : \A j \in 1..Len(regions') : regions'[j].uid = b.uid => b \in blocks'
  BY <1>1
<1>8. NoLeakedBlock'
  <2> SUFFICES ASSUME NEW b \in blocks'
               PROVE  \E j \in 1..Len(regions') : regions'[j].uid = b.uid
    BY DEF NoLeakedBlock
  <2>1. PICK i \in 1..Len(regions) : regions[i].uid = b.uid
    BY <1>6 DEF IInv, TableInv, NoLeakedBlock
  <2>2. CASE i # k
    <3>1. PICK j \in 1..(Len(regions) - 1) : regions'[j] = regions[i]
      BY <2>2, <1>4
    <3> QED
      BY <2>1, <3>1, <1>4
  <2>3. CASE i = k
    BY <2>1, <2>3, <1>1, <1>2
  <2> QED
    BY <2>2, <2>3
<1>9. TableInv'
  BY <1>1, <1>4, <1>5, <1>6, <1>7, <1>8, SmallerRegions
<1>10. TypeOK'
  <2>1. Len(regions') <= MMAN_MAX_REGIONS
    BY <1>3, <1>4, MmanAssumption DEF IInv, TypeOK
  <2> QED
    BY <1>1, <1>4, <1>6, <2>1, CutTypes DEF IInv, TypeOK
<1>11. Alone(t) /\ LocalsAt(t)'
  BY <1>1, <1>2 DEF IInv, Alone, LocalsAt, NoWrap
<1> QED
  BY <1>2, <1>9, <1>10, <1>11, TableStep

(* The two halves of a region that is cut in its middle.                    *)
LEMMA SplitTable ==
    ASSUME IInv, NEW k \in 1..Len(regions), NEW r1 \in Region, NEW r2 \in Region,
           r1.len > 0, r2.len > 0, r1.uid = regions[k].uid, r2.uid = regions[k].uid,
           r1.addr = regions[k].addr, End(r1) <= r2.addr, End(r2) = End(regions[k]),
           regions' = region_insert(Replaced(regions, k, r1), r2),
           UNCHANGED <<vm_open, blocks>>
    PROVE  regions' \in Seq(Region) /\ Len(regions') = Len(regions) + 1 /\ TableInv'
<1> DEFINE n == Len(regions)
           q == Replaced(regions, k, r1)
<1>1. /\ n \in Nat /\ regions \in Seq(Region) /\ Ordered(regions)
      /\ \A i \in 1..n : i < k => End(regions[i]) <= regions[k].addr
      /\ \A i \in 1..n : i > k => End(regions[k]) <= regions[i].addr
      /\ \A i \in 1..n : regions[i].addr \in Nat /\ End(regions[i]) \in Nat
  BY Neighbours
<1>2. /\ r1.addr \in Nat /\ r2.addr \in Nat /\ End(r1) \in Nat /\ End(r2) \in Nat
      /\ End(r1) = r1.addr + r1.len /\ End(r2) = r2.addr + r2.len
      /\ r1.len \in Nat /\ r2.len \in Nat
  BY RegionType
<1>3. regions[k].addr <= r2.addr /\ End(r1) <= End(regions[k])
  BY <1>1, <1>2
<1>4. /\ q \in Seq(Region) /\ Len(q) = n /\ Ordered(q)
      /\ \A i \in 1..n : q[i] = IF i = k THEN r1 ELSE regions[i]
  <2>1. \A i \in 1..n : i < k => End(regions[i]) <= r1.addr
    BY <1>1
  <2>2. ASSUME NEW i \in 1..n, i > k PROVE End(r1) <= regions[i].addr
    <3>1. End(regions[k]) <= regions[i].addr /\ regions[i].addr \in Nat /\ End(regions[k]) \in Nat
      BY <1>1, <2>2
    <3> QED
      BY <3>1, <1>2, <1>3
  <2> QED
    BY <2>1, <2>2, <1>1, ReplaceOrdered
<1> HIDE DEF q
<1>5. ASSUME NEW i \in 1..n PROVE End(q[i]) <= r2.addr \/ End(r2) <= q[i].addr
  <2>1. CASE i = k
    BY <2>1, <1>4
  <2>2. CASE i < k
    <3>1. q[i] = regions[i] /\ End(regions[i]) <= regions[k].addr
      BY <2>2, <1>1, <1>4
    <3>2. End(regions[i]) \in Nat /\ regions[k].addr \in Nat
      BY <1>1
    <3> QED
      BY <3>1, <3>2, <1>2, <1>3
  <2>3. CASE i > k
    <3>1. q[i] = regions[i] /\ End(regions[k]) <= regions[i].addr
      BY <2>3, <1>1, <1>4
    <3> QED
      BY <3>1
  <2> QED
    BY <2>1, <2>2, <2>3
<1>6. /\ regions' \in Seq(Region) /\ Len(regions') = n + 1 /\ Ordered(regions')
      /\ \A j \in 1..(n + 1) : regions'[j] = r2 \/ \E i \in 1..n : regions'[j] = q[i]
      /\ \A i \in 1..n : \E j \in 1..(n + 1) : regions'[j] = q[i]
  <2>1. regions' = region_insert(q, r2)
    BY DEF q
  <2> DEFINE z == region_insert(q, r2)
  <2>2. /\ z \in Seq(Region) /\ Len(z) = n + 1 /\ Ordered(z)
        /\ \A j \in 1..(n + 1) : z[j] = r2 \/ \E i \in 1..n : z[j] = q[i]
        /\ \A i \in 1..n : \E j \in 1..(n + 1) : z[j] = q[i]
    <3>1. \A i \in 1..Len(q) : End(q[i]) <= r2.addr \/ End(r2) <= q[i].addr
      BY <1>4, <1>5
    <3>2. /\ z \in Seq(Region) /\ Len(z) = Len(q) + 1 /\ Ordered(z)
          /\ \A j \in 1..(Len(q) + 1) : z[j] = r2 \/ \E i \in 1..Len(q) : z[j] = q[i]
          /\ \A i \in 1..Len(q) : \E j \in 1..(Len(q) + 1) : z[j] = q[i]
      <4>1. q \in Seq(Region) /\ Ordered(q)
        BY <1>4
      <4> QED
        BY <3>1, <4>1, InsertOrdered
    <3> HIDE DEF z
    <3> QED
      BY <3>2, <1>4
  <2> HIDE DEF z
  <2> QED
    BY <2>1, <2>2 DEF z
<1>7. ASSUME NEW j \in 1..(n + 1)
      PROVE  \E i \in 1..n :
                /\ regions'[j].uid = regions[i].uid
                /\ regions[i].addr <= regions'[j].addr /\ End(regions'[j]) <= End(regions[i])
  <2>0. \A i \in 1..n : regions[i].addr <= regions[i].addr /\ End(regions[i]) <= End(regions[i])
    BY <1>1
  <2>1. CASE regions'[j] = r2
    <3>1. /\ regions'[j].uid = regions[k].uid
          /\ regions[k].addr <= regions'[j].addr /\ End(regions'[j]) <= End(regions[k])
      BY <2>0, <2>1, <1>3
    <3> QED
      BY <3>1
  <2>2. CASE \E i \in 1..n : regions'[j] = q[i]
    <3>1. PICK i \in 1..n : regions'[j] = q[i]
      BY <2>2
    <3>2. CASE i = k
      <4>1. regions'[j] = r1
        BY <3>1, <3>2, <1>4
      <4>2. /\ regions'[j].uid = regions[k].uid
            /\ regions[k].addr <= regions'[j].addr /\ End(regions'[j]) <= End(regions[k])
        BY <4>1, <2>0, <1>3
      <4> QED
        BY <4>2
    <3>3. CASE i # k
      <4>1. regions'[j] = regions[i]
        BY <3>1, <3>3, <1>4
      <4> QED
        BY <4>1, <2>0
    <3> QED
      BY <3>2, <3>3
  <2> QED
    BY <2>1, <2>2, <1>6
<1>8. NoLeakedBlock'
  <2> SUFFICES ASSUME NEW b \in blocks
               PROVE  \E j \in 1..Len(regions') : regions'[j].uid = b.uid
    BY DEF NoLeakedBlock
  <2>1. PICK i \in 1..n : regions[i].uid = b.uid
    BY DEF IInv, TableInv, NoLeakedBlock
  <2>2. q[i].uid = b.uid
    BY <2>1, <1>4
  <2>3. PICK j \in 1..(n + 1) : regions'[j] = q[i]
    BY <1>6
  <2> QED
    BY <2>2, <2>3, <1>6
<1>9. TableInv'
  BY <1>6, <1>7, <1>8, SmallerRegions
<1> QED
  BY <1>6, <1>9

LEMMA UnmapSplitStep ==
    ASSUME IInv, NEW t \in Threads, UnmapSplit(t)
    PROVE  IInv'
<1> DEFINE k == call[t].i
           r1 == [Rgn(t) EXCEPT !.len = us(t) - Rgn(t).addr]
           r2 == [addr |-> ue(t), len |-> End(Rgn(t)) - ue(t),
                  uid |-> Rgn(t).uid, prot |-> Rgn(t).prot]
<1>1. /\ Touched(t) /\ us(t) # Rgn(t).addr /\ ue(t) # End(Rgn(t))
      /\ Len(regions) < MMAN_MAX_REGIONS /\ DecommitCut(t) /\ Forget(Cut(t)) /\ UNCHANGED hold
      /\ mutex' = NoThread /\ Return(t)
      /\ UNCHANGED <<mman_ready, vm_open, blocks, mem>>
  BY DEF UnmapSplit, Splits, HasRoom
<1>2. regions' = region_insert(Replaced(regions, k, r1), r2)
  BY DEF UnmapSplit, Replaced, Rgn
<1>3. /\ k \in 1..Len(regions) /\ Rgn(t) = regions[k] /\ Rgn(t) \in Region /\ mutex = t
      /\ Rgn(t).addr \in Nat /\ Rgn(t).len \in Pages /\ Rgn(t).len \in Nat
      /\ End(Rgn(t)) = Rgn(t).addr + Rgn(t).len
      /\ us(t) \in Nat /\ ue(t) \in Nat /\ us(t) <= ue(t)
      /\ Rgn(t).addr <= us(t) /\ ue(t) <= End(Rgn(t)) /\ us(t) < End(Rgn(t))
      /\ Rgn(t).addr < ue(t) /\ ue(t) \in Pages
  BY <1>1, CutFacts
<1>4. us(t) - Rgn(t).addr \in Pages /\ us(t) - Rgn(t).addr > 0
  <2>0. us(t) # Rgn(t).addr
    BY <1>1
  <2>1. /\ us(t) - Rgn(t).addr \in Int /\ us(t) - Rgn(t).addr > 0
        /\ us(t) - Rgn(t).addr <= Rgn(t).len
    BY <2>0, <1>3
  <2> QED
    BY <2>1, <1>3, SmallerPage
<1>5. End(Rgn(t)) - ue(t) \in Pages /\ End(Rgn(t)) - ue(t) > 0
  <2>0. ue(t) # End(Rgn(t))
    BY <1>1
  <2>1. /\ End(Rgn(t)) - ue(t) \in Int /\ End(Rgn(t)) - ue(t) > 0
        /\ End(Rgn(t)) - ue(t) <= Rgn(t).len
    <3>1. /\ End(Rgn(t)) = Rgn(t).addr + Rgn(t).len /\ Rgn(t).addr \in Nat
          /\ Rgn(t).len \in Nat /\ ue(t) \in Nat /\ ue(t) <= End(Rgn(t)) /\ Rgn(t).addr < ue(t)
      BY <1>3
    <3> QED
      BY <2>0, <3>1
  <2> QED
    BY <2>1, <1>3, SmallerPage
<1>6. /\ r1 \in Region /\ r1.len > 0 /\ r1.addr = regions[k].addr /\ r1.uid = regions[k].uid
      /\ End(r1) = us(t)
  <2>1. /\ r1 \in Region /\ r1.addr = Rgn(t).addr /\ r1.uid = Rgn(t).uid
        /\ r1.len = us(t) - Rgn(t).addr /\ End(r1) = Rgn(t).addr + (us(t) - Rgn(t).addr)
    BY <1>3, <1>4, NewLen
  <2> HIDE DEF r1
  <2> QED
    BY <2>1, <1>3, <1>4
<1>7. /\ r2 \in Region /\ r2.len > 0 /\ r2.addr = ue(t) /\ r2.uid = regions[k].uid
      /\ End(r2) = End(regions[k])
  <2>1. /\ r2 \in Region /\ r2.addr = ue(t) /\ r2.uid = Rgn(t).uid
        /\ r2.len = End(Rgn(t)) - ue(t)
    BY <1>3, <1>5 DEF Region
  <2> HIDE DEF r2
  <2>2. End(r2) = ue(t) + (End(Rgn(t)) - ue(t))
    BY <2>1 DEF End
  <2>3. End(r2) = End(Rgn(t))
    BY <2>2, <1>3
  <2> QED
    BY <2>1, <2>3, <1>3, <1>5
<1> HIDE DEF k, r1, r2
<1>8. regions' \in Seq(Region) /\ Len(regions') = Len(regions) + 1 /\ TableInv'
  <2>1. End(r1) <= r2.addr
    BY <1>3, <1>6, <1>7
  <2>2. UNCHANGED <<vm_open, blocks>>
    BY <1>1
  <2> QED
    BY <2>1, <2>2, <1>2, <1>3, <1>6, <1>7, SplitTable
<1>9. /\ pc' \in [Threads -> Labels] /\ call' \in [Threads -> CallType]
      /\ Alone(t) /\ LocalsAt(t)'
  BY <1>1, ReturnTypes
<1>10. TypeOK'
  <2>1. Len(regions') <= MMAN_MAX_REGIONS
    BY <1>1, <1>8, TableType, MmanAssumption DEF IInv, TypeOK
  <2>2. /\ DOMAIN backing' \subseteq Pages
        /\ \A p \in DOMAIN backing' : backing'[p] \in SUBSET Bits
        /\ expect' \in [Pages -> {"zero", "data", "any"}]
        /\ holes' \subseteq Pages /\ diverged' \subseteq Pages /\ stranded' \subseteq Pages
    BY <1>1, CutTypes
  <2> QED
    BY <1>1, <1>8, <1>9, <2>1, <2>2 DEF IInv, TypeOK
<1> QED
  BY <1>3, <1>8, <1>9, <1>10, TableStep

-----------------------------------------------------------------------------
(* __fini_mman empties the table and leaves no reservation.                 *)
LEMMA FiniStep ==
    ASSUME IInv, Fini
    PROVE  IInv'
<1> DEFINE S == UNION {PagesIn(regions[i]) :
                   i \in {j \in 1..Len(regions) : regions[j].uid # PoolUid}}
<1>1. /\ \A t \in Threads : pc[t] = "idle"
      /\ backing' = Decommit(S)
      /\ blocks' = {b \in blocks : \A i \in 1..Len(regions) : regions[i].uid # b.uid}
      /\ regions' = <<>> /\ vm_open' = FALSE /\ mman_ready' = FALSE
      /\ Drop(Pages) /\ Forget(Pages)
      /\ UNCHANGED <<mutex, mem, pc, call>>
  BY DEF Fini
<1>2. blocks' = {}
  BY <1>1 DEF IInv, TableInv, NoLeakedBlock
<1>3. regions' \in Seq(Region) /\ Len(regions') = 0
  BY <1>1, EmptySeq
<1>4. DOMAIN backing' \subseteq Pages /\ \A p \in DOMAIN backing' : backing'[p] \in SUBSET Bits
  BY <1>1 DEF IInv, TypeOK, Decommit
<1>5. /\ hold' \in [Pages -> Threads \cup {NoThread}]
      /\ expect' \in [Pages -> {"zero", "data", "any"}]
      /\ holes' \subseteq Pages /\ diverged' \subseteq Pages /\ stranded' \subseteq Pages
  BY <1>1, DropType, ForgetType
<1>6. TypeOK'
  <2>1. Len(regions') <= MMAN_MAX_REGIONS
    BY <1>3, MmanAssumption
  <2>2. mman_ready' \in BOOLEAN /\ vm_open' \in BOOLEAN
    BY <1>1
  <2>3. mutex' \in Threads \cup {NoThread} /\ mem' \in [Pages -> {"zero", "data"}]
    BY <1>1 DEF IInv, TypeOK
  <2>4. pc' \in [Threads -> Labels] /\ call' \in [Threads -> CallType]
    BY <1>1 DEF IInv, TypeOK
  <2>5. blocks' \subseteq [uid : Uids, addr : Pages, len : Pages]
    BY <1>2
  <2> QED
    BY <1>3, <1>4, <1>5, <2>1, <2>2, <2>3, <2>4, <2>5 DEF TypeOK
<1>7. TableInv'
  BY <1>2, <1>3 DEF TableInv, RegionsDisjoint, RegionsInside, OneBackend, NoLeakedBlock
<1>8. OneHolder'
  BY <1>1 DEF IInv, OneHolder
<1>9. \A t \in Threads : LocalsAt(t)'
  BY <1>1 DEF IInv, LocalsAt, NoWrap
<1> QED
  BY <1>6, <1>7, <1>8, <1>9 DEF IInv

LEMMA InitInv == Init => IInv
<1> SUFFICES ASSUME Init PROVE IInv
  OBVIOUS
<1>1. regions \in Seq(Region) /\ Len(regions) = 0
  BY EmptySeq DEF Init
<1>2. call \in [Threads -> CallType]
  BY NoCallType DEF Init
<1>3. TypeOK
  <2>1. Len(regions) <= MMAN_MAX_REGIONS
    BY <1>1, MmanAssumption
  <2>2. mman_ready \in BOOLEAN /\ vm_open \in BOOLEAN /\ mutex \in Threads \cup {NoThread}
    BY DEF Init
  <2>3. /\ blocks \subseteq [uid : Uids, addr : Pages, len : Pages]
        /\ DOMAIN backing \subseteq Pages /\ \A p \in DOMAIN backing : backing[p] \in SUBSET Bits
    BY DEF Init
  <2>4. /\ mem \in [Pages -> {"zero", "data"}] /\ pc \in [Threads -> Labels]
        /\ hold \in [Pages -> Threads \cup {NoThread}]
        /\ expect \in [Pages -> {"zero", "data", "any"}]
    BY DEF Init, Labels
  <2>5. holes \subseteq Pages /\ diverged \subseteq Pages /\ stranded \subseteq Pages
    BY DEF Init
  <2> QED
    BY <1>1, <1>2, <2>1, <2>2, <2>3, <2>4, <2>5 DEF TypeOK
<1>4. TableInv
  BY <1>1 DEF Init, TableInv, RegionsDisjoint, RegionsInside, OneBackend, NoLeakedBlock
<1>5. OneHolder
  BY DEF Init, OneHolder, Loops
<1>6. ASSUME NEW t \in Threads PROVE LocalsAt(t)
  <2>1. pc[t] = "idle" /\ call[t] = NoCall
    BY DEF Init
  <2> QED
    BY <2>1, NoCallType, MmanAssumption DEF LocalsAt, NoWrap
<1> QED
  BY <1>3, <1>4, <1>5, <1>6 DEF IInv

(* The invariant is inductive: one lemma per action.                        *)
LEMMA StepInv == IInv /\ [Next]_vars => IInv'
<1> SUFFICES ASSUME IInv, [Next]_vars PROVE IInv'
  OBVIOUS
<1>1. CASE UNCHANGED vars
  BY <1>1 DEF vars, table, kernel, ghosts, IInv, TypeOK, TableInv, RegionsDisjoint, RegionsInside,
              OneBackend, NoLeakedBlock, OneHolder, LocalsAt, MapLen, NoWrap
<1>2. CASE Fini
  BY <1>2, FiniStep
<1>3. ASSUME NEW t \in Threads, Request(t) PROVE IInv'
  BY <1>3, MmapStep, MunmapStep, mprotectStep, MadviseStep, MremapStep, StoreStep DEF Request
<1>4. ASSUME NEW t \in Threads, Map(t) PROVE IInv'
  BY <1>4, RefusalSteps, MapReserveStep, MapPoolStep, AllocNextStep, AllocDoneStep, LoopEndSteps
  DEF Map
<1>5. ASSUME NEW t \in Threads, Unmap(t) PROVE IInv'
  BY <1>5, RefusalSteps, UnmapLockStep, UnmapSkipStep, UnmapWholeStep, UnmapHeadStep,
     UnmapTailStep, UnmapSplitStep, UnmapNoRoomStep, LoopEndSteps
  DEF Unmap
<1>6. ASSUME NEW t \in Threads, Remap(t) PROVE IInv'
  BY <1>6, RefusalSteps, RemapMappedStep, ResizeShrinkStep, ResizeGrowStep, ResizeRefusedStep,
     RemapCopyStep
  DEF Remap
<1>7. ASSUME NEW t \in Threads, InCall(t) PROVE IInv'
  BY <1>7, <1>4, <1>5, <1>6, RefusalSteps, MmapFillStep, MmapReadFailsStep, KeepWritableStep,
     ProtectStep, DiscardStep, DiscardFailsStep, FaultStep
  DEF InCall
<1> QED
  BY <1>1, <1>2, <1>3, <1>7 DEF Next

LEMMA MmanInvariant == Spec => []IInv
<1>1. Init => IInv
  BY InitInv
<1>2. IInv /\ [Next]_vars => IInv'
  BY StepInv
<1> QED
  BY <1>1, <1>2, PTL DEF Spec

(* Whatever the calls and their interleaving, the variables of vitamman.c   *)
(* keep their types, and _region_insert never runs over the end of          *)
(* _regions.                                                                *)
THEOREM MmanTypeCorrect == Spec => []TypeOK
<1>1. IInv => TypeOK
  BY DEF IInv
<1> QED
  BY <1>1, MmanInvariant, PTL

(* _regions stays sorted and no two regions ever share a page: insertions,  *)
(* cuts, splits and growth keep the order on which _vm_pool_alloc relies.   *)
THEOREM MmanDisjoint == Spec => []RegionsDisjoint
<1>1. IInv => RegionsDisjoint
  BY DEF IInv, TableInv
<1> QED
  BY <1>1, MmanInvariant, PTL

(* No region of _regions ever leaves the pool or the reservation it was     *)
(* made from, however it is cut, split or grown.                            *)
THEOREM MmanInside == Spec => []RegionsInside
<1>1. IInv => RegionsInside
  BY DEF IInv, TableInv
<1> QED
  BY <1>1, MmanInvariant, PTL

(* _release_reservation gives a reservation back with the last region that  *)
(* names it, neither earlier nor never.                                     *)
THEOREM MmanReservations == Spec => []ReservationsExact
<1>1. IInv => ReservationsExact
  <2> SUFFICES ASSUME IInv PROVE ReservationsExact
    OBVIOUS
  <2>1. ASSUME NEW b \in blocks
        PROVE  b.uid \in {regions[i].uid : i \in 1..Len(regions)} \ {PoolUid}
    <3>1. \E i \in 1..Len(regions) : regions[i].uid = b.uid
      BY DEF IInv, TableInv, NoLeakedBlock
    <3>2. b.uid \in Uids
      BY DEF IInv, TypeOK
    <3> QED
      BY <3>1, <3>2, MmanAssumption
  <2>2. ASSUME NEW i \in 1..Len(regions), regions[i].uid # PoolUid
        PROVE  \E b \in blocks : b.uid = regions[i].uid
    BY <2>2 DEF IInv, TableInv, RegionsInside
  <2> QED
    BY <2>1, <2>2 DEF ReservationsExact
<1> QED
  BY <1>1, MmanInvariant, PTL
=============================================================================
