-------------------------------- MODULE Mman --------------------------------
(***************************************************************************)
(* The memory mappings of internal/vitamman.c and mman/*.c.  Addresses and  *)
(* lengths are counted in pages; page 0 is the one NULL points into.        *)
(*                                                                          *)
(* A call is a thread walking through pc.  A critical section of            *)
(* _mman_mutex is one step, but for the two loops of _vm_pool_alloc and     *)
(* __mman_unmap, whose iterations are steps of the thread that holds the    *)
(* mutex.  Calls that only look at the table (mincore, mlock, msync, ...)   *)
(* and calls refused for their arguments change nothing and stutter.        *)
(***************************************************************************)
EXTENDS Integers, Sequences, FiniteSets

CONSTANTS
    Threads,
    NoThread,
    Uids,               \* what kuKernelMemReserve returns
    PoolUid,            \* the uid -1 of the regions of the VM pool
    MMAN_MAX_REGIONS,
    AddrSpace,          \* addresses are counted modulo this number of pages
    VmBase,             \* external: where the VM pool lies
    MMAN_VM_POOL_SIZE,
    HaveKubridge,       \* external: does _kubridge_usable find the plugin?
    Lens,               \* the lengths the application maps, unmaps, ...
    GrowLens,           \* ... and gives to mremap
    Hints,              \* the addresses it asks for; 0 is none
    Prots,              \* the protections it asks for
    Calls,              \* the functions it calls
    Disciplined         \* does each thread only name pages that it mapped?

Bits == {"R", "W", "X"}
MapCalls == {"mmap_anon", "mmap_file"}
RemapCalls == {"mremap", "mremap_maymove", "mremap_fixed"}
AllCalls == MapCalls \cup RemapCalls
                \cup {"munmap", "mprotect", "madvise", "store", "module_stop"}

ASSUME MmanAssumption ==
    /\ MMAN_MAX_REGIONS \in Nat \ {0}
    /\ AddrSpace \in Nat /\ VmBase \in Nat \ {0} /\ MMAN_VM_POOL_SIZE \in Nat \ {0}
    /\ VmBase + MMAN_VM_POOL_SIZE < AddrSpace
    /\ HaveKubridge \in BOOLEAN /\ Disciplined \in BOOLEAN
    /\ Lens \subseteq 0..AddrSpace
    /\ Hints \subseteq 0..(AddrSpace - 1)
    /\ Prots \subseteq SUBSET Bits
    /\ Calls \subseteq AllCalls
    /\ PoolUid \notin Uids
    /\ NoThread \notin Threads

(* mremap to a length that reaches past the end of the address space, or    *)
(* that rounds up to zero, is outside the model: see the README.            *)
ASSUME GrowAssumption ==
    \A l \in GrowLens : l \in Nat \ {0} /\ VmBase + MMAN_VM_POOL_SIZE + l < AddrSpace

VARIABLES
    regions,      \* _regions, its first _region_count elements
    mman_ready,
    mutex,        \* the thread inside a loop of a critical section, or NoThread
    vm_open,      \* is _vm_uid >= 0?
    blocks,       \* external: the reservations of the kernel
    backing,      \* external: the committed pages, each with its protection
    mem,          \* the contents of the pages
    pc,
    call,         \* arguments and locals of the thread's call
    hold,         \* ghost: who mapped a page and has not unmapped it
    expect,       \* ghost: what its holder must find in a page
    holes,        \* ghost: pages that a failing call left without memory
    diverged,     \* ghost: pages whose protection was set apart from their region's
    stranded      \* ghost: pages that mremap could not unmap

table == <<regions, mman_ready, vm_open>>
kernel == <<blocks, backing>>
ghosts == <<hold, expect, holes, diverged, stranded>>
vars == <<table, mutex, kernel, mem, pc, call, ghosts>>

-----------------------------------------------------------------------------
(* Arithmetic of uintptr_t and size_t.  AddrSpace as a length stands for    *)
(* those that MMAN_PAGE_ALIGN rounds up to zero.                            *)
Plus(a, l) == IF a + l < AddrSpace THEN a + l ELSE a + l - AddrSpace
MMAN_PAGE_ALIGN(l) == IF l = AddrSpace THEN 0 ELSE l

Pages == 0..(AddrSpace - 1)
PagesOf(a, l) == {p \in Pages : a <= p /\ p < a + l}
PoolEnd == VmBase + MMAN_VM_POOL_SIZE

Region == [addr : Pages, len : Pages, uid : Uids \cup {PoolUid}, prot : SUBSET Bits]
End(r) == r.addr + r.len
PagesIn(r) == PagesOf(r.addr, r.len)
Mapped == {p \in Pages : \E i \in 1..Len(regions) :
              regions[i].addr <= p /\ p < End(regions[i])}

(* _region_find: the first region that holds the address.                   *)
FoundAt(i, p) ==
    /\ i \in 1..Len(regions)
    /\ regions[i].addr <= p /\ p < End(regions[i])
    /\ \A j \in 1..(i - 1) : ~ (regions[j].addr <= p /\ p < End(regions[j]))

(* _region_insert, once there is room: behind the last region that does not *)
(* start after the new one.                                                 *)
InsertPos(rs, a) == CHOOSE k \in 0..Len(rs) :
    /\ k > 0 => rs[k].addr <= a
    /\ \A j \in (k + 1)..Len(rs) : rs[j].addr > a

region_insert(rs, r) ==
    LET k == InsertPos(rs, r.addr)
    IN [j \in 1..(Len(rs) + 1) |-> IF j <= k THEN rs[j]
                                   ELSE IF j = k + 1 THEN r ELSE rs[j - 1]]
HasRoomForOneMore == Len(regions) <= MMAN_MAX_REGIONS      \* Mutant
HasRoom == Len(regions) < MMAN_MAX_REGIONS

(* _region_remove                                                           *)
region_remove(rs, k) ==
    [j \in 1..(Len(rs) - 1) |-> IF j < k THEN rs[j] ELSE rs[j + 1]]

(* _release_reservation, with the table left by the removal.                *)
release_reservation(rs, uid) ==
    IF \E i \in 1..Len(rs) : rs[i].uid = uid THEN blocks
    ELSE {b \in blocks : b.uid # uid}

(* __mman_mapped: every page of the range lies in a region.  A range that   *)
(* wraps around is empty.                                                   *)
mman_mapped(a, l) == \A p \in Pages : a <= p /\ p < Plus(a, l) => p \in Mapped

(* External: kuKernelMemCommit, kuKernelMemDecommit and kuKernelMemProtect. *)
Commit(S, prot) == [p \in DOMAIN backing \cup S |-> IF p \in S THEN prot ELSE backing[p]]
Decommit(S) == [p \in DOMAIN backing \ S |-> backing[p]]

(* What the library may store to without a fault.                           *)
Writable(S) == HaveKubridge => \A p \in S : p \in DOMAIN backing /\ "W" \in backing[p]
Readable(S) == HaveKubridge => \A p \in S : p \in DOMAIN backing /\ backing[p] # {}

Fill(f, S, v) == [p \in Pages |-> IF p \in S THEN v ELSE f[p]]

-----------------------------------------------------------------------------
Args(op, addr, len, new, hint, prot) ==
    [op |-> op, addr |-> addr, len |-> len, new |-> new, hint |-> hint,
     prot |-> prot, base |-> 0, i |-> 0]
NoCall == Args("none", 0, 0, 0, 0, {})

Init ==
    /\ regions = <<>> /\ mman_ready = TRUE /\ vm_open = FALSE
    /\ mutex = NoThread
    /\ blocks = {} /\ backing = [p \in {} |-> {}]
    /\ mem = [p \in Pages |-> "zero"]
    /\ pc = [t \in Threads |-> "idle"]
    /\ call = [t \in Threads |-> NoCall]
    /\ hold = [p \in Pages |-> NoThread]
    /\ expect = [p \in Pages |-> "any"]
    /\ holes = {} /\ diverged = {} /\ stranded = {}

Goto(t, l) == pc' = [pc EXCEPT ![t] = l]
Return(t) == Goto(t, "idle") /\ call' = [call EXCEPT ![t] = NoCall]
Begin(t, l, c) == pc[t] = "idle" /\ Goto(t, l) /\ call' = [call EXCEPT ![t] = c]
Free == mutex = NoThread

(* A disciplined application names pages of its own.                        *)
May(t, a, l) == Disciplined => \A p \in PagesOf(a, l) \cup {a} : hold[p] = t

(* Ranges to unmap or to move that wrap around the end of the address space *)
(* are outside the model, too.                                              *)
NoWrap(a, l) == a + l < AddrSpace

Take(t, S) == /\ hold' = Fill(hold, S, t)
              /\ expect' = Fill(expect, S, "any")
              /\ UNCHANGED <<holes, diverged, stranded>>
Forget(S) == /\ expect' = Fill(expect, S, "any")
             /\ holes' = holes \ S /\ diverged' = diverged \ S /\ stranded' = stranded \ S
Drop(S) == hold' = Fill(hold, S, NoThread)

-----------------------------------------------------------------------------
(* mmap, up to __mman_map.  The mapping is made writable first.             *)
Mmap(t) ==
    \E op \in MapCalls \cap Calls, l \in Lens \ {0}, h \in Hints, pr \in Prots :
        /\ Begin(t, "map", Args(op, 0, 0, l, h, pr))
        /\ UNCHANGED <<table, mutex, kernel, mem, ghosts>>

(* __mman_map, for mmap and mremap.                                         *)
MapProtAsked(t) == call[t].prot      \* Mutant: not writable for the filling
MapProt(t) == call[t].prot \cup {"W"}
MapLen(t) == MMAN_PAGE_ALIGN(call[t].new)
MapOk(t) == MapLen(t) # 0 /\ mman_ready /\ (call[t].hint # 0 => HaveKubridge)
Mapping(t) == pc[t] = "map" /\ MapOk(t) /\ Free
AfterMap(t) == IF call[t].op \in MapCalls THEN "fill" ELSE "copy"

MapRefused(t) ==
    /\ pc[t] = "map" /\ ~MapOk(t)
    /\ Return(t)
    /\ UNCHANGED <<table, mutex, kernel, mem, ghosts>>

(* External: where kuKernelMemReserve finds room.                           *)
Reservable(t, b) ==
    /\ b > 0 /\ b + MapLen(t) < AddrSpace
    /\ call[t].hint # 0 => b = call[t].hint
    /\ \A k \in blocks : k.addr + k.len <= b \/ b + MapLen(t) <= k.addr

MapReserve(t) ==
    /\ Mapping(t) /\ HaveKubridge /\ HasRoom
    /\ \E b \in Pages, u \in Uids :
          LET S == PagesOf(b, MapLen(t))
          IN /\ Reservable(t, b) /\ \A k \in blocks : k.uid # u
             /\ blocks' = blocks \cup {[uid |-> u, addr |-> b, len |-> MapLen(t)]}
             /\ backing' = Commit(S, MapProt(t))
             /\ regions' = region_insert(regions,
                   [addr |-> b, len |-> MapLen(t), uid |-> u, prot |-> MapProt(t)])
             /\ call' = [call EXCEPT ![t].base = b]
             /\ Take(t, S)
    /\ Goto(t, AfterMap(t))
    /\ UNCHANGED <<mman_ready, vm_open, mutex, mem>>

(* Mutant: sceKernelFreeMemBlock is missing on the last error path.         *)
MapReserveFailsLeaking(t) ==
    /\ Mapping(t) /\ HaveKubridge
    /\ \E b \in Pages, u \in Uids :
          /\ Reservable(t, b) /\ \A k \in blocks : k.uid # u
          /\ blocks' = blocks \cup {[uid |-> u, addr |-> b, len |-> MapLen(t)]}
    /\ Return(t)
    /\ UNCHANGED <<table, mutex, backing, mem, ghosts>>
(* The kernel refuses, or the table is full and everything is given back.   *)
MapReserveFails(t) ==
    /\ Mapping(t) /\ HaveKubridge
    /\ Return(t)
    /\ UNCHANGED <<table, mutex, kernel, mem, ghosts>>

(* _vm_pool_init, which may fail the first time, and the start of           *)
(* _vm_pool_alloc; cand is kept in call[t].base.                            *)
MapPool(t) ==
    /\ Mapping(t) /\ ~HaveKubridge
    /\ vm_open' = TRUE /\ mutex' = t
    /\ Goto(t, "alloc")
    /\ call' = [call EXCEPT ![t].base = VmBase, ![t].i = 1]
    /\ UNCHANGED <<regions, mman_ready, kernel, mem, ghosts>>
MapPoolFails(t) ==
    /\ Mapping(t) /\ ~HaveKubridge /\ ~vm_open
    /\ Return(t)
    /\ UNCHANGED <<table, mutex, kernel, mem, ghosts>>

(* The loop of _vm_pool_alloc ends at the first gap that is long enough.    *)
GapFoundShort(t) ==      \* Mutant: the gap may be one page short
    /\ regions[call[t].i].uid = PoolUid
    /\ regions[call[t].i].addr + 1 >= Plus(call[t].base, MapLen(t))
GapFound(t) ==
    /\ regions[call[t].i].uid = PoolUid
    /\ regions[call[t].i].addr >= Plus(call[t].base, MapLen(t))
Allocating(t) == pc[t] = "alloc" /\ call[t].i <= Len(regions) /\ ~GapFound(t)
FitsAnywhere(t) == call[t].base <= PoolEnd      \* Mutant
Fits(t) == call[t].base <= PoolEnd /\ PoolEnd - call[t].base >= MapLen(t)

AllocNext(t) ==
    /\ Allocating(t)
    /\ LET r == regions[call[t].i]
       IN call' = [call EXCEPT ![t].i = @ + 1,
                      ![t].base = IF r.uid = PoolUid /\ End(r) > @ THEN End(r) ELSE @]
    /\ UNCHANGED <<table, mutex, kernel, mem, pc, ghosts>>

AllocDone(t) ==
    /\ pc[t] = "alloc" /\ ~Allocating(t) /\ Fits(t) /\ HasRoom
    /\ regions' = region_insert(regions,
          [addr |-> call[t].base, len |-> MapLen(t), uid |-> PoolUid,
           prot |-> MapProt(t)])
    /\ Take(t, PagesOf(call[t].base, MapLen(t)))
    /\ mutex' = NoThread
    /\ Goto(t, AfterMap(t))
    /\ UNCHANGED <<mman_ready, vm_open, kernel, mem, call>>

(* Mutant: this path does not unlock.                                       *)
AllocFailsLocked(t) ==
    /\ pc[t] = "alloc" /\ ~Allocating(t) /\ ~(Fits(t) /\ HasRoom)
    /\ Return(t)
    /\ UNCHANGED <<table, mutex, kernel, mem, ghosts>>
AllocFails(t) ==
    /\ pc[t] = "alloc" /\ ~Allocating(t) /\ ~(Fits(t) /\ HasRoom)
    /\ mutex' = NoThread
    /\ Return(t)
    /\ UNCHANGED <<table, kernel, mem, ghosts>>

-----------------------------------------------------------------------------
(* mmap after __mman_map: clear the pages, or read the file into the first  *)
(* of them (external: pread) and clear the rest.                            *)
(* Mutant: only the part that was read is touched.                          *)
FilledPart(t, k) == Fill(mem, PagesOf(call[t].base, k), "data")
Filled(t, k) == [p \in Pages |-> IF p \notin PagesOf(call[t].base, MapLen(t)) THEN mem[p]
                                 ELSE IF p < call[t].base + k THEN "data" ELSE "zero"]

MmapFill(t) ==
    /\ pc[t] = "fill" /\ Writable(PagesOf(call[t].base, MapLen(t)))
    /\ \E k \in IF call[t].op = "mmap_anon" THEN {0} ELSE 0..MapLen(t) :
          /\ mem' = Filled(t, k)
          /\ expect' = [p \in Pages |->
                IF p \notin PagesOf(call[t].base, MapLen(t)) THEN expect[p]
                ELSE IF p < call[t].base + k THEN "data" ELSE "zero"]
    /\ Goto(t, "protect")
    /\ UNCHANGED <<table, mutex, kernel, call, hold, holes, diverged, stranded>>

(* Mutant: the failing read returns without __mman_unmap.                   *)
MmapReadFailsKeeps(t) ==
    /\ pc[t] = "fill" /\ call[t].op = "mmap_file"
    /\ Drop(PagesOf(call[t].base, MapLen(t)))
    /\ Return(t)
    /\ UNCHANGED <<table, mutex, kernel, mem, expect, holes, diverged, stranded>>
(* The caller gets MAP_FAILED: the pages are nobody's from here on.         *)
MmapReadFails(t) ==
    /\ pc[t] = "fill" /\ call[t].op = "mmap_file"
    /\ \E k \in 0..(MapLen(t) - 1) : mem' = Fill(mem, PagesOf(call[t].base, k), "data")
    /\ Drop(PagesOf(call[t].base, MapLen(t)))
    /\ Goto(t, "unmap")
    /\ call' = [call EXCEPT ![t].addr = call[t].base, ![t].len = call[t].new]
    /\ UNCHANGED <<table, mutex, kernel, expect, holes, diverged, stranded>>

(* __mman_protect.  The table follows only for the regions that the range   *)
(* covers; the kernel is asked afterwards, and may refuse.                  *)
(* Mutant: every region that the range touches takes the new protection.    *)
CoversTouched(a, l, r) == r.addr < Plus(a, l) /\ End(r) > a
Covers(a, l, r) == r.addr >= a /\ End(r) <= Plus(a, l)
Covered(a, l) == UNION {PagesIn(regions[i]) :
                    i \in {j \in 1..Len(regions) : Covers(a, l, regions[j])}}

mman_protect(a, l, prot) ==
    LET S == PagesOf(a, l)
    IN /\ regions' = [j \in 1..Len(regions) |->
              IF Covers(a, l, regions[j]) THEN [regions[j] EXCEPT !.prot = prot]
              ELSE regions[j]]
       /\ \/ /\ HaveKubridge /\ S \subseteq DOMAIN backing
             /\ backing' = Commit(S, prot)
             /\ diverged' = (diverged \ Covered(a, l)) \cup (S \ Covered(a, l))
          \/ /\ HaveKubridge
             /\ backing' = backing
             /\ diverged' = diverged \cup Covered(a, l)
          \/ /\ ~HaveKubridge
             /\ UNCHANGED <<backing, diverged>>

(* The end of mmap, and of mremap up to its __mman_unmap: a mapping that    *)
(* was not to be writable is protected; the result is not looked at.        *)
AfterProtect(t) ==
    IF call[t].op \in MapCalls THEN Return(t) ELSE Goto(t, "unmap") /\ UNCHANGED call
KeepWritable(t) ==
    /\ pc[t] = "protect" /\ "W" \in call[t].prot
    /\ AfterProtect(t)
    /\ UNCHANGED <<table, mutex, kernel, mem, ghosts>>
Protect(t) ==
    /\ pc[t] = "protect" /\ "W" \notin call[t].prot /\ Free /\ mman_ready
    /\ mman_protect(call[t].base, MapLen(t), call[t].prot)
    /\ AfterProtect(t)
    /\ UNCHANGED <<mman_ready, vm_open, mutex, blocks, mem, hold, expect, holes, stranded>>

mprotect(t) ==
    /\ pc[t] = "idle" /\ "mprotect" \in Calls /\ Free /\ mman_ready
    /\ \E a \in Pages, l \in Lens \ {0}, pr \in Prots :
          May(t, a, l) /\ mman_protect(a, MMAN_PAGE_ALIGN(l), pr)
    /\ UNCHANGED <<mman_ready, vm_open, mutex, blocks, mem, pc, call,
                   hold, expect, holes, stranded>>

-----------------------------------------------------------------------------
(* madvise with MADV_DONTNEED or MADV_FREE: __mman_mapped, then             *)
(* __mman_discard, which stops at the end of the first region.              *)
Madvise(t) ==
    /\ "madvise" \in Calls /\ Free /\ mman_ready
    /\ \E a \in Pages, l \in Lens \ {0} :
          /\ May(t, a, l) /\ mman_mapped(a, l)
          /\ Begin(t, "discard", Args("madvise", a, l, 0, 0, {}))
    /\ UNCHANGED <<table, mutex, kernel, mem, ghosts>>

DiscardEnd(t, r) ==
    LET de == Plus(call[t].addr, MMAN_PAGE_ALIGN(call[t].len))
    IN IF de > End(r) THEN End(r) ELSE de
Discarding(t, i) == /\ pc[t] = "discard" /\ Free /\ mman_ready
                    /\ FoundAt(i, call[t].addr)
                    /\ DiscardEnd(t, regions[i]) > call[t].addr
DiscardPages(t, i) ==
    {p \in Pages : call[t].addr <= p /\ p < DiscardEnd(t, regions[i])}

(* With kubridge the pages are given back and committed anew, writable for  *)
(* the memset; the protection is then restored if the kernel agrees.        *)
Discard(t) ==
    /\ \E i \in 1..Len(regions) :
          LET S == DiscardPages(t, i)
              prot == regions[i].prot
          IN /\ Discarding(t, i)
             /\ mem' = Fill(mem, S, "zero") /\ expect' = Fill(expect, S, "zero")
             /\ IF regions[i].uid = PoolUid THEN UNCHANGED <<backing, holes, diverged>>
                ELSE \E pr \in {prot, prot \cup {"W"}} :
                        /\ backing' = Commit(S, pr)
                        /\ holes' = holes \ S
                        /\ diverged' = IF pr = prot THEN diverged \ S ELSE diverged \cup S
    /\ Return(t)
    /\ UNCHANGED <<table, mutex, blocks, hold, stranded>>

DiscardFails(t) ==
    /\ \E i \in 1..Len(regions) :
          /\ Discarding(t, i) /\ regions[i].uid # PoolUid
          /\ backing' = Decommit(DiscardPages(t, i))
          /\ holes' = holes \cup DiscardPages(t, i)
    /\ Return(t)
    /\ UNCHANGED <<table, mutex, blocks, mem, hold, expect, diverged, stranded>>

DiscardRefused(t) ==
    /\ pc[t] = "discard" /\ Free /\ ~ \E i \in 1..Len(regions) : Discarding(t, i)
    /\ Return(t)
    /\ UNCHANGED <<table, mutex, kernel, mem, ghosts>>

-----------------------------------------------------------------------------
(* mremap: __mman_prot_of, __mman_mapped, __mman_resize, __mman_map, the    *)
(* copy, __mman_protect and __mman_unmap are separate sections.             *)
Mremap(t) ==
    /\ Free /\ mman_ready
    /\ \E op \in RemapCalls \cap Calls, a \in Pages, l \in Lens, n \in GrowLens, h \in Hints,
         i \in 1..Len(regions) :
          /\ op # "mremap_fixed" => h = 0
          /\ May(t, a, l) /\ NoWrap(a, l) /\ FoundAt(i, a)
          /\ Begin(t, "remap", Args(op, a, l, n, h, regions[i].prot))
    /\ UNCHANGED <<table, mutex, kernel, mem, ghosts>>

RemapMapped(t) ==
    /\ pc[t] = "remap" /\ Free
    /\ mman_ready /\ mman_mapped(call[t].addr, call[t].len)
    /\ Goto(t, IF call[t].op = "mremap_fixed" THEN "map" ELSE "resize")
    /\ UNCHANGED <<table, mutex, kernel, mem, call, ghosts>>
RemapUnmapped(t) ==
    /\ pc[t] = "remap" /\ Free
    /\ ~(mman_ready /\ mman_mapped(call[t].addr, call[t].len))
    /\ Return(t)
    /\ UNCHANGED <<table, mutex, kernel, mem, ghosts>>

(* __mman_resize: only a whole region changes its length, and grows only    *)
(* in the pool, into pages that no other region has.                        *)
Resizing(t, i) ==
    /\ pc[t] = "resize" /\ Free /\ mman_ready
    /\ FoundAt(i, call[t].addr)
    /\ regions[i].addr = call[t].addr
    /\ regions[i].len = MMAN_PAGE_ALIGN(call[t].len)
GrownEnd(t) == call[t].addr + call[t].new
CanGrow(t, i) ==
    /\ regions[i].uid = PoolUid /\ GrownEnd(t) <= PoolEnd
    /\ \A j \in (1..Len(regions)) \ {i} :
          ~(regions[j].addr < GrownEnd(t) /\ End(regions[j]) > End(regions[i]))

ResizeSame(t) ==
    /\ \E i \in 1..Len(regions) : Resizing(t, i) /\ call[t].new = regions[i].len
    /\ Return(t)
    /\ UNCHANGED <<table, mutex, kernel, mem, ghosts>>

ResizeShrink(t) ==
    /\ \E i \in 1..Len(regions) :
          LET S == PagesOf(GrownEnd(t), regions[i].len - call[t].new)
          IN /\ Resizing(t, i) /\ call[t].new < regions[i].len
             /\ backing' = IF regions[i].uid = PoolUid THEN backing ELSE Decommit(S)
             /\ regions' = [regions EXCEPT ![i].len = call[t].new]
             /\ Drop(S) /\ Forget(S)
    /\ Return(t)
    /\ UNCHANGED <<mman_ready, vm_open, mutex, blocks, mem>>

ResizeGrow(t) ==
    /\ \E i \in 1..Len(regions) :
          LET S == PagesOf(End(regions[i]), call[t].new - regions[i].len)
          IN /\ Resizing(t, i) /\ call[t].new > regions[i].len /\ CanGrow(t, i)
             /\ mem' = Fill(mem, S, "zero")
             /\ regions' = [regions EXCEPT ![i].len = call[t].new]
             /\ hold' = Fill(hold, S, t) /\ expect' = Fill(expect, S, "zero")
    /\ Return(t)
    /\ UNCHANGED <<mman_ready, vm_open, mutex, kernel, holes, diverged, stranded>>

ResizeRefused(t) ==
    /\ pc[t] = "resize" /\ Free
    /\ \A i \in 1..Len(regions) :
          Resizing(t, i) => call[t].new > regions[i].len /\ ~CanGrow(t, i)
    /\ IF call[t].op = "mremap_maymove" THEN Goto(t, "map") /\ UNCHANGED call
                                        ELSE Return(t)
    /\ UNCHANGED <<table, mutex, kernel, mem, ghosts>>

(* The memcpy, outside the mutex.  Pages beyond the copied ones are left as *)
(* they are.                                                                *)
CopyLen(t) == IF call[t].len < call[t].new THEN call[t].len ELSE call[t].new
Copied(t, f) == [p \in Pages |-> IF p \in PagesOf(call[t].base, CopyLen(t))
                                 THEN f[p - call[t].base + call[t].addr] ELSE f[p]]
CopyLegal(t) == /\ Readable(PagesOf(call[t].addr, CopyLen(t)))
                /\ Writable(PagesOf(call[t].base, CopyLen(t)))
                /\ call[t].addr + CopyLen(t) <= AddrSpace
RemapCopy(t) ==
    /\ pc[t] = "copy" /\ CopyLegal(t)
    /\ mem' = Copied(t, mem) /\ expect' = Copied(t, expect)
    /\ Goto(t, "protect")
    /\ UNCHANGED <<table, mutex, kernel, call, hold, holes, diverged, stranded>>

(* A store or load of the library itself hits a page without memory, or one *)
(* that is protected against it.                                            *)
Fault(t) ==
    /\ \/ pc[t] = "fill" /\ ~Writable(PagesOf(call[t].base, MapLen(t)))
       \/ pc[t] = "copy" /\ ~CopyLegal(t)
    /\ Goto(t, "fault")
    /\ UNCHANGED <<table, mutex, kernel, mem, call, ghosts>>

-----------------------------------------------------------------------------
(* munmap, and __mman_unmap for it, for mmap whose pread fails and for      *)
(* mremap after the copy.                                                   *)
Munmap(t) ==
    /\ "munmap" \in Calls
    /\ \E a \in Pages, l \in Lens \ {0} :
          /\ May(t, a, l) /\ NoWrap(a, l)
          /\ Begin(t, "unmap", Args("munmap", a, l, 0, 0, {}))
    /\ UNCHANGED <<table, mutex, kernel, mem, ghosts>>

UnmapLen(t) == MMAN_PAGE_ALIGN(call[t].len)
UnmapRefused(t) ==
    /\ pc[t] = "unmap" /\ (UnmapLen(t) = 0 \/ ~mman_ready)
    /\ Return(t)
    /\ UNCHANGED <<table, mutex, kernel, mem, ghosts>>
(* From here on the application has given up the whole range.               *)
UnmapLock(t) ==
    /\ pc[t] = "unmap" /\ UnmapLen(t) # 0 /\ mman_ready /\ Free
    /\ mutex' = t
    /\ Goto(t, "unmapping")
    /\ call' = [call EXCEPT ![t].i = 1]
    /\ Drop(PagesOf(call[t].addr, UnmapLen(t)))
    /\ UNCHANGED <<table, kernel, mem, expect, holes, diverged, stranded>>

(* The current region, and the part [us, ue) of it inside the range.        *)
Rgn(t) == regions[call[t].i]
UnmapEnd(t) == Plus(call[t].addr, UnmapLen(t))
ueRegion(t) == End(Rgn(t))      \* Mutant: the cut reaches to the end of the region
us(t) == IF call[t].addr > Rgn(t).addr THEN call[t].addr ELSE Rgn(t).addr
ue(t) == IF UnmapEnd(t) < End(Rgn(t)) THEN UnmapEnd(t) ELSE End(Rgn(t))
Cut(t) == PagesOf(us(t), ue(t) - us(t))
InLoop(t) == pc[t] = "unmapping" /\ call[t].i <= Len(regions)
Touched(t) == InLoop(t) /\ End(Rgn(t)) > call[t].addr /\ Rgn(t).addr < UnmapEnd(t)
(* Mutant: the whole region is decommitted.                                 *)
DecommitRegion(t) == backing' = IF Rgn(t).uid = PoolUid THEN backing ELSE Decommit(PagesIn(Rgn(t)))
DecommitCut(t) == backing' = IF Rgn(t).uid = PoolUid THEN backing ELSE Decommit(Cut(t))

UnmapSkip(t) ==
    /\ InLoop(t) /\ ~Touched(t)
    /\ call' = [call EXCEPT ![t].i = @ + 1]
    /\ UNCHANGED <<table, mutex, kernel, mem, pc, ghosts>>

UnmapWhole(t) ==
    /\ Touched(t) /\ us(t) = Rgn(t).addr /\ ue(t) = End(Rgn(t))
    /\ DecommitCut(t)
    /\ regions' = region_remove(regions, call[t].i)
    /\ blocks' = release_reservation(regions', Rgn(t).uid)
    /\ Forget(Cut(t)) /\ UNCHANGED hold
    /\ UNCHANGED <<mman_ready, vm_open, mutex, mem, pc, call>>

UnmapHead(t) ==
    /\ Touched(t) /\ us(t) = Rgn(t).addr /\ ue(t) # End(Rgn(t))
    /\ DecommitCut(t)
    /\ regions' = [regions EXCEPT ![call[t].i].addr = ue(t),
                                  ![call[t].i].len = End(Rgn(t)) - ue(t)]
    /\ call' = [call EXCEPT ![t].i = @ + 1]
    /\ Forget(Cut(t)) /\ UNCHANGED hold
    /\ UNCHANGED <<mman_ready, vm_open, mutex, blocks, mem, pc>>

UnmapTail(t) ==
    /\ Touched(t) /\ us(t) # Rgn(t).addr /\ ue(t) = End(Rgn(t))
    /\ DecommitCut(t)
    /\ regions' = [regions EXCEPT ![call[t].i].len = us(t) - Rgn(t).addr]
    /\ call' = [call EXCEPT ![t].i = @ + 1]
    /\ Forget(Cut(t)) /\ UNCHANGED hold
    /\ UNCHANGED <<mman_ready, vm_open, mutex, blocks, mem, pc>>

(* The range lies inside the region: its end becomes a region of its own.   *)
Splits(t) == Touched(t) /\ us(t) # Rgn(t).addr /\ ue(t) # End(Rgn(t))
UnmapSplit(t) ==
    /\ Splits(t) /\ HasRoom
    /\ DecommitCut(t)
    /\ regions' = region_insert(
          [regions EXCEPT ![call[t].i].len = us(t) - Rgn(t).addr],
          [addr |-> ue(t), len |-> End(Rgn(t)) - ue(t),
           uid |-> Rgn(t).uid, prot |-> Rgn(t).prot])
    /\ Forget(Cut(t)) /\ UNCHANGED hold
    /\ mutex' = NoThread
    /\ Return(t)
    /\ UNCHANGED <<mman_ready, vm_open, blocks, mem>>

(* Without room the table is put back, but the pages are already            *)
(* decommitted.  mremap does not look at the result.                        *)
UnmapNoRoom(t) ==
    /\ Splits(t) /\ ~HasRoom
    /\ DecommitCut(t)
    /\ holes' = IF Rgn(t).uid = PoolUid THEN holes ELSE holes \cup Cut(t)
    /\ IF call[t].op \in RemapCalls
       THEN stranded' = stranded \cup Cut(t) /\ UNCHANGED hold
       ELSE hold' = Fill(hold, Cut(t), t) /\ UNCHANGED stranded
    /\ mutex' = NoThread
    /\ Return(t)
    /\ UNCHANGED <<table, blocks, mem, expect, diverged>>

UnmapDone(t) ==
    /\ pc[t] = "unmapping" /\ ~InLoop(t)
    /\ mutex' = NoThread
    /\ Return(t)
    /\ UNCHANGED <<table, kernel, mem, ghosts>>

-----------------------------------------------------------------------------
(* External: the application stores into a page of its own.                 *)
Store(t) ==
    /\ pc[t] = "idle" /\ "store" \in Calls
    /\ \E p \in Pages : /\ hold[p] = t /\ Writable({p})
                        /\ mem' = [mem EXCEPT ![p] = "data"]
                        /\ expect' = [expect EXCEPT ![p] = "data"]
    /\ UNCHANGED <<table, mutex, kernel, pc, call, hold, holes, diverged, stranded>>

(* __fini_mman, from module_stop, with no thread in a call.                 *)
Fini ==
    /\ "module_stop" \in Calls /\ mman_ready
    /\ \A t \in Threads : pc[t] = "idle"
    /\ backing' = Decommit(UNION {PagesIn(regions[i]) :
                       i \in {j \in 1..Len(regions) : regions[j].uid # PoolUid}})
    /\ blocks' = {b \in blocks : \A i \in 1..Len(regions) : regions[i].uid # b.uid}
    /\ regions' = <<>> /\ vm_open' = FALSE /\ mman_ready' = FALSE
    /\ Drop(Pages) /\ Forget(Pages)
    /\ UNCHANGED <<mutex, mem, pc, call>>

Map(t) ==
    \/ MapRefused(t) \/ MapReserve(t) \/ MapReserveFails(t) \/ MapPool(t)
    \/ MapPoolFails(t) \/ AllocNext(t) \/ AllocDone(t) \/ AllocFails(t)
Unmap(t) ==
    \/ UnmapRefused(t) \/ UnmapLock(t) \/ UnmapSkip(t) \/ UnmapWhole(t) \/ UnmapHead(t)
    \/ UnmapTail(t) \/ UnmapSplit(t) \/ UnmapNoRoom(t) \/ UnmapDone(t)
Remap(t) ==
    \/ RemapMapped(t) \/ RemapUnmapped(t) \/ ResizeSame(t) \/ ResizeShrink(t)
    \/ ResizeGrow(t) \/ ResizeRefused(t) \/ RemapCopy(t)
InCall(t) ==
    \/ Map(t) \/ Unmap(t) \/ Remap(t)
    \/ MmapFill(t) \/ MmapReadFails(t) \/ KeepWritable(t) \/ Protect(t)
    \/ Discard(t) \/ DiscardFails(t) \/ DiscardRefused(t) \/ Fault(t)
Request(t) == Mmap(t) \/ Munmap(t) \/ mprotect(t) \/ Madvise(t) \/ Mremap(t) \/ Store(t)

Next == (\E t \in Threads : Request(t) \/ InCall(t)) \/ Fini
Spec == Init /\ [][Next]_vars

(* Every ready thread runs, and the kernel hands _mman_mutex to the threads *)
(* that wait for it in turn.                                                *)
FairSpec == Spec /\ \A t \in Threads : SF_vars(InCall(t))

-----------------------------------------------------------------------------
Labels == {"idle", "map", "alloc", "fill", "protect", "discard", "remap", "resize",
           "copy", "unmap", "unmapping", "fault"}
CallType == [op : AllCalls \cup {"none"}, addr : Pages, len : 0..AddrSpace,
             new : 0..AddrSpace, hint : Pages, prot : SUBSET Bits, base : Pages, i : Nat]

(* The variables have their types; the table is not overrun.                *)
TypeOK ==
    /\ regions \in Seq(Region) /\ Len(regions) <= MMAN_MAX_REGIONS
    /\ mman_ready \in BOOLEAN /\ vm_open \in BOOLEAN
    /\ mutex \in Threads \cup {NoThread}
    /\ blocks \subseteq [uid : Uids, addr : Pages, len : Pages]
    /\ DOMAIN backing \subseteq Pages
    /\ \A p \in DOMAIN backing : backing[p] \in SUBSET Bits
    /\ mem \in [Pages -> {"zero", "data"}]
    /\ pc \in [Threads -> Labels]
    /\ call \in [Threads -> CallType]
    /\ hold \in [Pages -> Threads \cup {NoThread}]
    /\ expect \in [Pages -> {"zero", "data", "any"}]
    /\ holes \subseteq Pages /\ diverged \subseteq Pages /\ stranded \subseteq Pages

(* The table is sorted by address and no two regions share a page, whatever *)
(* ranges the threads unmap, resize and map: _vm_pool_alloc relies on it.   *)
RegionsDisjoint ==
    /\ \A i \in 1..Len(regions) : regions[i].len > 0
    /\ \A i, j \in 1..Len(regions) : i < j => End(regions[i]) <= regions[j].addr

(* A region of the pool lies inside the pool, which is open; any other lies *)
(* inside the reservation that it names.                                    *)
RegionsInside ==
    \A i \in 1..Len(regions) :
        LET r == regions[i]
        IN IF r.uid = PoolUid
           THEN vm_open /\ VmBase <= r.addr /\ End(r) <= PoolEnd
           ELSE \E b \in blocks : b.uid = r.uid /\ b.addr <= r.addr /\ End(r) <= b.addr + b.len

(* The kernel keeps exactly the reservations that some region still names:  *)
(* splitting, trimming and failing paths neither leak one nor give one back *)
(* early, and module_stop leaves none.                                      *)
ReservationsExact ==
    {b.uid : b \in blocks} = {regions[i].uid : i \in 1..Len(regions)} \ {PoolUid}

(* What a thread mapped stays mapped until it unmaps it itself, whatever    *)
(* the others map, move and unmap meanwhile.                                *)
HeldMapped == \A p \in Pages : hold[p] # NoThread => p \in Mapped

(* A page stays in the table without an owner only if mremap had no room to *)
(* split the region it moved away from; a mapping whose file could not be   *)
(* read is taken back.                                                      *)
LeakedOnlyByFullTable ==
    \A p \in Mapped :
        \/ hold[p] # NoThread \/ p \in stranded
        \/ \E t \in Threads : /\ pc[t] \in {"unmap", "unmapping"}
                               /\ p \in PagesOf(call[t].addr, call[t].len)

(* With kubridge a held page has memory, unless a failing munmap or madvise *)
(* had already decommitted it.                                              *)
HeldBacked ==
    HaveKubridge => \A p \in Pages : hold[p] # NoThread => p \in DOMAIN backing \cup holes

(* A thread finds in its pages what it stored, what the file held, or zero: *)
(* through mremap's copy, madvise, and the mappings that others make of     *)
(* pages it gave up.                                                        *)
ContentsKept ==
    \A p \in Pages : /\ hold[p] # NoThread /\ p \notin holes
                     /\ expect[p] # "any"
                     => mem[p] = expect[p]

(* The table knows the protection of a page, unless mprotect named a part   *)
(* of its region or was refused by the kernel.                              *)
ProtectionKnown ==
    HaveKubridge =>
        \A i \in 1..Len(regions) : \A p \in PagesIn(regions[i]) \ (holes \cup diverged) :
            backing[p] = regions[i].prot

(* The library itself faults only when mremap copies from a page that has   *)
(* no memory or that is PROT_NONE; never when it fills a mapping.           *)
FaultsOnlyCopying ==
    \A t \in Threads : pc[t] = "fault" =>
        /\ call[t].op \in RemapCalls
        /\ \E p \in PagesOf(call[t].addr, CopyLen(t)) :
              p \in holes \/ (p \in DOMAIN backing /\ backing[p] = {})

(* Every call returns, or dies of such a fault: the loops under the mutex   *)
(* end and the mutex is always given back.                                  *)
CallEnds == \A t \in Threads : pc[t] # "idle" ~> pc[t] \in {"idle", "fault"}
=============================================================================
