-------------------------- MODULE VmBucketsProofs --------------------------
(***************************************************************************)
(* The bucket lists of kernel/memory/vm.c implement VmSpace, for every     *)
(* size of the address space, every set of requests and every number of    *)
(* nodes per page.                                                         *)
(*                                                                         *)
(* The invariant needs three things that none of the checked properties    *)
(* says.  WellKept names the two lists and keeps the buckets apart.        *)
(* Conserved, of VmSpace, says that a returned run overlaps no bucket;     *)
(* without it the sorted insertion would not be one.  Stealing says that   *)
(* the next slot to be cut is no node yet: the slots lie in memory below   *)
(* KERNEL_BOOT_MAPPED or in pages that were free when they were taken.     *)
(***************************************************************************)
EXTENDS VmBuckets, OperatorProofs

\* Most leaves are first-order and Zenon's; the arithmetic ones name SMT, twice
\* because tlapm may give up the first translation.
USE ZenonT(20), SMTT(20), SMTT(30)

\* What callers hold.
HeldTyped(S) == \A h \in S : h.pageno \in Nat /\ h.pages \in Requests

\* The inductive invariant.
Inv ==
  /\ Typed(vm) /\ vm.status \in Statuses
  /\ WellKept(vm)
  /\ Stealing(vm, internal)
  /\ HeldTyped(held)
  /\ internal \subseteq Nat
  /\ Space!Conserved
  /\ AppendFailsOnlyAtTheEnd

\* vm_init establishes the invariant: one bucket with all managed pages, and a
\* steal area below KERNEL_BOOT_MAPPED.
LEMMA InitInv ==
  ASSUME Counting
  PROVE  Init => Inv
<1> SUFFICES ASSUME Init PROVE Inv
  OBVIOUS
<1>1. vm = FreshLists /\ held = {} /\ internal = {}
  BY DEF Init
<1>2. DOMAIN vm = Fields /\ vm = [f \in DOMAIN vm |-> vm[f]]
  BY <1>1 DEF FreshLists, Fields
<1>3. /\ Typed(vm) /\ WellKept(vm) /\ vm.status = "running"
      /\ FreePages(vm) = Run(BootMapped, first_bucket_size)
      /\ Stealing(vm, internal)
  BY <1>1, <1>2, FreshKept
<1>4. Space!Conserved
  BY <1>1, <1>3 DEF Space!Conserved
<1>5. vm.status \in Statuses
  BY <1>3, Zenon DEF Statuses
<1>6. AppendFailsOnlyAtTheEnd
  BY <1>3 DEF AppendFailsOnlyAtTheEnd
<1> QED  BY <1>1, <1>3, <1>4, <1>5, <1>6 DEF Inv, HeldTyped

-----------------------------------------------------------------------------
\* A run is the same set of pages for both specifications.
LEMMA RunIsPages ==
  ASSUME NEW p, NEW n
  PROVE  /\ Space!PagesOf([pageno |-> p, pages |-> n]) = Run(p, n)
  BY DEF Space!PagesOf, Run

\* Taking a free run for a caller, as vm_alloc_kpages does, conserves the pages.
LEMMA AllocKeepsConserved ==
  ASSUME Space!Conserved, NEW p, NEW n, Space!Alloc(p, n)
  PROVE  Space!Conserved'
<1> DEFINE new == [pageno |-> p, pages |-> n]
<1>1. /\ held' = held \cup {new}
      /\ Space!PagesOf(new) \subseteq FreePages(vm)
      /\ FreePages(vm') = FreePages(vm) \ Space!PagesOf(new)
      /\ internal' = internal
  BY DEF Space!Alloc
<1> HIDE DEF new
<1>2. FreePages(vm') \cap internal' = {}
  BY <1>1 DEF Space!Conserved
<1>3. \A h \in held' : Space!PagesOf(h) \cap (FreePages(vm') \cup internal') = {}
  BY <1>1 DEF Space!Conserved
<1>4. \A g, h \in held' : g # h => Space!PagesOf(g) \cap Space!PagesOf(h) = {}
  BY <1>1 DEF Space!Conserved
<1>5. Run(BootMapped, first_bucket_size)
        = FreePages(vm') \cup internal' \cup UNION {Space!PagesOf(h) : h \in held'}
  BY <1>1 DEF Space!Conserved
<1> QED  BY <1>2, <1>3, <1>4, <1>5 DEF Space!Conserved

\* Returning a caller's run, as vm_free_kpages does, with or without a page
\* that vm_kernel_stealmem takes for list nodes on the way, conserves them.
LEMMA FreeKeepsConserved ==
  ASSUME Space!Conserved, NEW h \in held, Space!Free(h)
  PROVE  Space!Conserved'
<1>1. PICK K \in SUBSET FreePages(vm) :
        /\ held' = held \ {h}
        /\ internal' = internal \cup K
        /\ FreePages(vm') = (FreePages(vm) \ K) \cup Space!PagesOf(h)
  <2>1. CASE internal' = internal /\ FreePages(vm') = FreePages(vm) \cup Space!PagesOf(h)
    <3>1. WITNESS {} \in SUBSET FreePages(vm)
    <3> QED  BY <2>1 DEF Space!Free
  <2>2. CASE \E p \in FreePages(vm) :
               /\ internal' = internal \cup {p}
               /\ FreePages(vm') = (FreePages(vm) \ {p}) \cup Space!PagesOf(h)
    <3>1. PICK p \in FreePages(vm) :
            /\ internal' = internal \cup {p}
            /\ FreePages(vm') = (FreePages(vm) \ {p}) \cup Space!PagesOf(h)
      BY <2>2
    <3>2. WITNESS {p} \in SUBSET FreePages(vm)
    <3> QED  BY <3>1 DEF Space!Free
  <2> QED  BY <2>1, <2>2 DEF Space!Free
<1>2. FreePages(vm') \cap internal' = {}
  BY <1>1 DEF Space!Conserved
<1>3. \A g \in held' : Space!PagesOf(g) \cap (FreePages(vm') \cup internal') = {}
  BY <1>1 DEF Space!Conserved
<1>4. \A f, g \in held' : f # g => Space!PagesOf(f) \cap Space!PagesOf(g) = {}
  BY <1>1 DEF Space!Conserved
<1>5. Run(BootMapped, first_bucket_size)
        = FreePages(vm') \cup internal' \cup UNION {Space!PagesOf(g) : g \in held'}
  BY <1>1, SMTT(20), SMTT(30) DEF Space!Conserved
<1> QED  BY <1>2, <1>3, <1>4, <1>5 DEF Space!Conserved

\* A PANIC or a failed ASSERT keeps the invariant and is an abstract Halt.
LEMMA HaltStep ==
  ASSUME Counting, Inv, Running(vm), NEW x \in Statuses, x # "running",
         vm' = [vm EXCEPT !.status = x], held' = held, internal' = internal,
         x = "ASSERT(olditem)" => LastPage \in HeldPages \cup internal
  PROVE  Inv' /\ Space!Halt
<1>1. Typed(vm) /\ WellKept(vm)
  BY DEF Inv
<1>2. Relabelled(vm, vm')
  BY <1>1, HaltRelabels
<1>3. Typed(vm') /\ WellKept(vm') /\ FreePages(vm') = FreePages(vm)
  BY <1>2 DEF Relabelled
<1>4. /\ vm'.status = x /\ vm'.node = vm.node
      /\ vm'.steal_next = vm.steal_next /\ vm'.steal_remaining = vm.steal_remaining
  BY <1>1 DEF Typed, Fields
<1>5. Stealing(vm', internal')
  BY <1>4 DEF Inv, Stealing
<1>6. Space!Conserved'
  BY <1>3 DEF Inv, Space!Conserved
<1>7. Space!Halt
  BY <1>3, <1>4 DEF Space!Halt, Running
<1>8. AppendFailsOnlyAtTheEnd'
  BY <1>4 DEF AppendFailsOnlyAtTheEnd, HeldPages
<1> QED  BY <1>3, <1>4, <1>5, <1>6, <1>7, <1>8 DEF Inv, HeldTyped

\* vm_alloc_kpages keeps the invariant and takes a step of the abstract page
\* space: it hands out a free run, or halts.
LEMMA AllocStep ==
  ASSUME Counting, Inv, NEW n \in Requests, vm_alloc_kpages(n)
  PROVE  Inv' /\ Space!Next
<1> DEFINE v == vm_reserve_pages(vm, n)
           p == reserved_pageno(vm, n)
<1>0. /\ Running(vm) /\ Typed(vm) /\ WellKept(vm) /\ n \in Nat \ {0}
      /\ "status" \in DOMAIN vm /\ vm.status = "running"
  BY RequestsAssumption DEF Inv, vm_alloc_kpages, Typed, Fields, Running
<1>1. CASE bucket_for(vm, n) = NULL
  <2>1. v.status = "Out of virtual memory"
    BY <1>0, <1>1 DEF vm_reserve_pages, PANIC
  <2>2. ~ Running(v) /\ v.status \in Statuses /\ v.status # "running" /\ v.status # "ASSERT(olditem)"
    BY <2>1, Zenon DEF Running, Statuses
  <2>3. vm' = [vm EXCEPT !.status = v.status] /\ held' = held /\ internal' = internal
    BY <2>2 DEF vm_alloc_kpages, halt
  <2> HIDE DEF v
  <2>4. Inv' /\ Space!Halt
    BY <1>0, <2>2, <2>3, HaltStep
  <2> QED  BY <2>4 DEF Space!Next
<1>2. CASE bucket_for(vm, n) # NULL
  <2>1. Takes(vm, v, p, n)
    BY <1>0, <1>2, Reserve
  <2>2. v.status = vm.status /\ Running(v)
    BY <1>0, <2>1 DEF Takes, SameBut, Running
  <2>3. vm' = v /\ held' = held \cup {[pageno |-> p, pages |-> n]} /\ internal' = internal
    BY <2>2 DEF vm_alloc_kpages, halt
  <2> HIDE DEF v, p
  <2>4. /\ Typed(vm') /\ WellKept(vm') /\ DOMAIN vm'.node = DOMAIN vm.node
        /\ vm'.status = vm.status
        /\ vm'.steal_next = vm.steal_next /\ vm'.steal_remaining = vm.steal_remaining
    BY <2>1, <2>2, <2>3, <1>0, SMTT(20), SMTT(30) DEF Takes, SameBut, Typed, Fields
  <2>5. /\ p \in Nat /\ Run(p, n) \subseteq FreePages(vm)
        /\ FreePages(vm') = FreePages(vm) \ Run(p, n)
    BY <2>1, <2>3 DEF Takes
  <2>6. Stealing(vm', internal')
    BY <2>3, <2>4 DEF Inv, Stealing
  <2>7. Space!Alloc(p, n)
    <3>1. Space!PagesOf([pageno |-> p, pages |-> n]) = Run(p, n)
      BY RunIsPages
    <3>2. Running(vm')
      BY <2>4, <1>0 DEF Running
    <3> QED  BY <1>0, <2>3, <2>5, <3>1, <3>2 DEF Space!Alloc
  <2>8. p \in Run(BootMapped, first_bucket_size)
    <3>1. p \in Run(p, n)
      BY <2>5, <1>0, SMTT(20), SMTT(30) DEF Run
    <3>2. FreePages(vm) \subseteq Run(BootMapped, first_bucket_size)
      BY DEF Inv, Space!Conserved
    <3> QED  BY <2>5, <3>1, <3>2
  <2>9. Space!Conserved'
    BY <2>7, AllocKeepsConserved DEF Inv
  <2>10. HeldTyped(held')
    BY <2>3, <2>5, SMTT(20), SMTT(30) DEF Inv, HeldTyped
  <2>11. Inv'
    <3>1. AppendFailsOnlyAtTheEnd'
      BY <2>4, <1>0 DEF AppendFailsOnlyAtTheEnd
    <3> QED  BY <2>3, <2>4, <2>6, <2>9, <2>10, <3>1 DEF Inv
  <2>12. Space!Next
    BY <2>7, <2>8 DEF Space!Next
  <2> QED  BY <2>11, <2>12
<1> QED  BY <1>1, <1>2

\* A vm_free_kpages that returns, having kept the pages K for nodes (none or
\* one), keeps the invariant and is an abstract Free.
LEMMA FreeDone ==
  ASSUME Inv, Running(vm), NEW h \in held, NEW K \in SUBSET FreePages(vm),
         K = {} \/ \E p : K = {p},
         Typed(vm'), WellKept(vm'), vm'.status = "running",
         held' = held \ {h}, internal' = internal \cup K, Stealing(vm', internal'),
         FreePages(vm') = (FreePages(vm) \ K) \cup Run(h.pageno, h.pages)
  PROVE  Inv' /\ Space!Next
<1>1. Space!PagesOf(h) = Run(h.pageno, h.pages)
  BY DEF Space!PagesOf, Run
<1>2. Running(vm')
  BY DEF Running
<1>3. Space!Free(h)
  <2>1. CASE K = {}
    <3>1. internal' = internal /\ FreePages(vm') = FreePages(vm) \cup Space!PagesOf(h)
      BY <1>1, <2>1
    <3> QED  BY <1>2, <3>1 DEF Space!Free
  <2>2. CASE \E p : K = {p}
    <3>1. PICK p : K = {p}
      BY <2>2
    <3>2. /\ p \in FreePages(vm) /\ internal' = internal \cup {p}
          /\ FreePages(vm') = (FreePages(vm) \ {p}) \cup Space!PagesOf(h)
      BY <1>1, <3>1
    <3> QED  BY <1>2, <3>2 DEF Space!Free
  <2> QED  BY <2>1, <2>2
<1>4. Space!Conserved'
  BY <1>3, FreeKeepsConserved DEF Inv
<1>5. internal' \subseteq Nat
  <2>1. Run(BootMapped, first_bucket_size) \subseteq Nat
    BY BucketsAssumption, FirstBucketSize, SMTT(20), SMTT(30) DEF Run
  <2>2. FreePages(vm) \subseteq Run(BootMapped, first_bucket_size)
    BY DEF Inv, Space!Conserved
  <2> QED  BY <2>1, <2>2 DEF Inv
<1>6. HeldTyped(held')
  BY DEF Inv, HeldTyped
<1>7. vm'.status \in Statuses
  BY Zenon DEF Statuses
<1>8. AppendFailsOnlyAtTheEnd'
  BY DEF AppendFailsOnlyAtTheEnd
<1>9. Inv'
  BY <1>4, <1>5, <1>6, <1>7, <1>8 DEF Inv
<1> QED  BY <1>3, <1>9 DEF Space!Next

\* ASSERT(olditem) fails with no free page behind the returned run.  All pages
\* behind it, the last of the range among them, are then in use.
LEMMA AtTheEnd ==
  ASSUME Inv, NEW h \in held, NEW K, LastPage \notin K, NEW v,
         Stops(v, FreePages(vm) \ K, h.pageno), v.status = "ASSERT(olditem)"
  PROVE  LastPage \in HeldPages \cup internal
<1> SUFFICES ASSUME LastPage \notin HeldPages \cup internal PROVE FALSE
  OBVIOUS
<1>1. /\ BootMapped \in Nat /\ first_bucket_size \in Nat /\ first_bucket_size > 0
      /\ h.pageno \in Nat /\ h.pages \in Nat /\ h.pages > 0
  <2>1. h.pageno \in Nat /\ h.pages \in Nat \ {0}
    BY RequestsAssumption DEF Inv, HeldTyped
  <2>2. BootMapped \in Nat
    BY BucketsAssumption
  <2> QED  BY <2>1, <2>2, FirstBucketSize, SMTT(20), SMTT(30)
<1>2. LastPage \in Run(BootMapped, first_bucket_size) /\ h.pageno \in Run(h.pageno, h.pages)
  BY <1>1, SMTT(20), SMTT(30) DEF LastPage, Run
<1>3. /\ Run(BootMapped, first_bucket_size)
             = FreePages(vm) \cup internal \cup UNION {Run(g.pageno, g.pages) : g \in held}
      /\ Run(h.pageno, h.pages) \subseteq Run(BootMapped, first_bucket_size)
  BY DEF Inv, Space!Conserved, Space!PagesOf, Run
<1>4. LastPage \in FreePages(vm) \ K
  BY <1>2, <1>3 DEF HeldPages
<1>5. LastPage < h.pageno
  BY <1>4, Zenon DEF Stops, Running
<1>6. h.pageno \in Run(BootMapped, first_bucket_size)
  BY <1>2, <1>3
<1> QED  BY <1>1, <1>5, <1>6, SMTT(20), SMTT(30) DEF LastPage, Run

\* vm_free_kpages keeps the invariant and takes a step of the abstract page
\* space, on each of its ways: a waiting node, a slot of the steal area, a page
\* reserved for more slots, and no page left to reserve.
LEMMA FreeStep ==
  ASSUME Counting, Inv, NEW h \in held, vm_free_kpages(h)
  PROVE  Inv' /\ Space!Next
<1> DEFINE page == reserved_pageno(vm, 1)
           taken == vm_reserve_pages(vm, 1)
           r == IF ~ must_refill(vm) THEN vm
                ELSE IF Running(taken) THEN refilled(taken, page) ELSE taken
           v == vm_return_pages(vm, r, h.pages, h.pageno)
<1>0. /\ Running(vm) /\ Typed(vm) /\ WellKept(vm) /\ Stealing(vm, internal)
      /\ DOMAIN vm.node \subseteq Nat
      /\ h.pageno \in Nat /\ h.pages \in Nat /\ h.pages > 0
      /\ {"status", "steal_next", "steal_remaining"} \subseteq DOMAIN vm
      /\ vm.status = "running"
  BY RequestsAssumption, SMTT(20), SMTT(30)
     DEF Inv, HeldTyped, vm_free_kpages, Typed, Fields, Running
<1>1. Run(h.pageno, h.pages) \cap FreePages(vm) = {}
  BY DEF Inv, Space!Conserved, Space!PagesOf, Run
<1>2. \/ Running(v) /\ vm' = v /\ held' = held \ {h}
           /\ internal' = internal \cup (IF must_refill(vm) THEN {page} ELSE {})
      \/ ~ Running(v) /\ vm' = [vm EXCEPT !.status = v.status] /\ held' = held /\ internal' = internal
  BY DEF vm_free_kpages, halt
<1>3. ASSUME ~ Running(v), v.status \in Statuses,
             v.status = "ASSERT(olditem)" => LastPage \in HeldPages \cup internal
      PROVE  Inv' /\ Space!Next
  <2>1. /\ v.status # "running"
        /\ vm' = [vm EXCEPT !.status = v.status] /\ held' = held /\ internal' = internal
    BY <1>2, <1>3 DEF Running
  <2> HIDE DEF v
  <2>2. Inv' /\ Space!Halt
    BY <1>0, <1>3, <2>1, HaltStep
  <2> QED  BY <2>2 DEF Space!Next
<1>4. CASE vm.waiting # NULL
  <2>1. ~ must_refill(vm) /\ r = vm
    BY <1>4 DEF must_refill
  <2>2. v = vm_return_pages(vm, r, h.pages, h.pageno)
    OBVIOUS
  <2> HIDE DEF r, v, page, taken
  <2>3. Returned(vm, vm_return_pages(vm, r, h.pages, h.pageno), FreePages(vm), h.pageno, h.pages)
    BY <1>0, <1>1, <1>4, ReturnPopped
  <2>4. Returned(vm, v, FreePages(vm), h.pageno, h.pages)
    BY <2>2, <2>3
  <2>5. CASE ~ Running(v)
    <3>1. Stops(v, FreePages(vm) \ {}, h.pageno)
      BY <2>4 DEF Returned
    <3>2. v.status = "ASSERT(olditem)" => LastPage \in HeldPages \cup internal
      BY <3>1, AtTheEnd
    <3> QED  BY <1>3, <2>5, <3>1, <3>2 DEF Stops
  <2>6. CASE Running(v)
    <3>1. vm' = v /\ held' = held \ {h} /\ internal' = internal \cup {}
      BY <1>2, <2>1, <2>6
    <3>2. /\ Typed(vm') /\ WellKept(vm') /\ vm'.status = "running"
          /\ DOMAIN vm'.node = DOMAIN vm.node
          /\ vm'.steal_next = vm.steal_next /\ vm'.steal_remaining = vm.steal_remaining
      BY <1>0, <2>4, <2>6, <3>1 DEF Returned, SameBut, Running
    <3>3. FreePages(vm') = (FreePages(vm) \ {}) \cup Run(h.pageno, h.pages)
      BY <2>4, <2>6, <3>1 DEF Returned
    <3>4. Stealing(vm', internal')
      <4>1. internal' = internal
        BY <3>1
      <4> QED  BY <1>0, <3>2, <4>1 DEF Stealing
    <3>5. {} \in SUBSET FreePages(vm)
      OBVIOUS
    <3> QED  BY <1>0, <3>1, <3>2, <3>3, <3>4, <3>5, FreeDone
  <2> QED  BY <2>5, <2>6
<1>5. CASE vm.waiting = NULL /\ ~ must_refill(vm)
  <2>1. r = vm
    BY <1>5
  <2>2. v = vm_return_pages(vm, vm, h.pages, h.pageno)
    BY <2>1
  <2>3. vm.steal_remaining > 0
    BY <1>0, <1>5, SMTT(20), SMTT(30) DEF must_refill, Stealing
  <2>4. vm.steal_next \in Nat \ {NULL} /\ vm.steal_next \notin DOMAIN vm.node
    BY <1>0, <2>3, SMTT(20), SMTT(30) DEF Stealing, NULL
  <2> HIDE DEF r, v, page, taken
  <2>5. ReturnedNew(vm, vm_return_pages(vm, vm, h.pages, h.pageno), FreePages(vm), h.pageno, h.pages)
    BY <1>0, <1>1, <1>5, <2>4, ReturnStolen
  <2>6. ReturnedNew(vm, v, FreePages(vm), h.pageno, h.pages)
    BY <2>2, <2>5
  <2>7. CASE ~ Running(v)
    <3>1. Stops(v, FreePages(vm) \ {}, h.pageno)
      BY <2>6 DEF ReturnedNew
    <3>2. v.status = "ASSERT(olditem)" => LastPage \in HeldPages \cup internal
      BY <3>1, AtTheEnd
    <3> QED  BY <1>3, <2>7, <3>1, <3>2 DEF Stops
  <2>8. CASE Running(v)
    <3>1. vm' = v /\ held' = held \ {h} /\ internal' = internal \cup {}
      BY <1>2, <1>5, <2>8
    <3>2. /\ Typed(vm') /\ WellKept(vm') /\ vm'.status = "running"
          /\ DOMAIN vm'.node = DOMAIN vm.node \cup {vm.steal_next}
          /\ vm'.steal_next = vm.steal_next + 1 /\ vm'.steal_remaining = vm.steal_remaining - 1
      BY <1>0, <2>6, <2>8, <3>1 DEF ReturnedNew, Running
    <3>3. FreePages(vm') = (FreePages(vm) \ {}) \cup Run(h.pageno, h.pages)
      BY <2>6, <2>8, <3>1 DEF ReturnedNew
    <3>4. Stealing(vm', internal')
      <4>1. internal' = internal
        BY <3>1
      <4>2. Stealing(vm', internal)
        BY <1>0, <2>3, <3>2, StealSteals
      <4> QED  BY <4>1, <4>2
    <3>5. {} \in SUBSET FreePages(vm)
      OBVIOUS
    <3> QED  BY <1>0, <3>1, <3>2, <3>3, <3>4, <3>5, FreeDone
  <2> QED  BY <2>7, <2>8
<1>6. CASE must_refill(vm) /\ bucket_for(vm, 1) = NULL
  <2>1. taken.status = "Out of virtual memory"
    BY <1>0, <1>6 DEF vm_reserve_pages, PANIC
  <2>2. ~ Running(taken) /\ taken.status \in Statuses /\ taken.status # "ASSERT(olditem)"
    BY <2>1, Zenon DEF Running, Statuses
  <2>3. r = taken
    BY <1>6, <2>2
  <2>4. vm.waiting = NULL
    BY <1>6 DEF must_refill
  <2>5. v = taken
    BY <2>2, <2>3, <2>4 DEF vm_return_pages, vm_item
  <2> HIDE DEF v, r, taken
  <2> QED  BY <1>3, <2>2, <2>5
<1>7. CASE must_refill(vm) /\ bucket_for(vm, 1) # NULL
  <2>0. 1 \in Nat \ {0}
    BY SMTT(20), SMTT(30)
  <2>1. Takes(vm, taken, page, 1)
    BY <1>0, <1>7, <2>0, Reserve
  <2>2. Running(taken) /\ taken.status = "running" /\ Typed(taken) /\ WellKept(taken)
    BY <1>0, <2>1 DEF Takes, SameBut, Running
  <2>3. r = refilled(taken, page)
    BY <1>7, <2>2
  <2>4. v = vm_return_pages(vm, r, h.pages, h.pageno)
    OBVIOUS
  <2>5. vm.waiting = NULL
    BY <1>7 DEF must_refill
  <2> HIDE DEF r, v, page, taken
  <2>6. /\ page \in Nat /\ DOMAIN taken.node = DOMAIN vm.node
        /\ Run(page, 1) \subseteq FreePages(vm) /\ FreePages(taken) = FreePages(vm) \ Run(page, 1)
    BY <2>1 DEF Takes
  <2>7. Run(page, 1) = {page}
    BY <2>6, SMTT(20), SMTT(30) DEF Run
  <2>8. Relabelled(taken, r)
    BY <2>2, <2>3, RefillRelabels
  <2>9. /\ r.steal_next = page * ItemsPerPage /\ r.steal_remaining = ItemsPerPage
        /\ r.node = taken.node /\ r.status = taken.status
    BY <2>2, <2>3, RefillFields
  <2>10. /\ Typed(r) /\ WellKept(r) /\ Running(r) /\ FreePages(r) = FreePages(vm) \ {page}
         /\ DOMAIN r.node = DOMAIN vm.node
    BY <2>2, <2>6, <2>7, <2>8, <2>9 DEF Relabelled, Running
  <2>11. /\ page \in FreePages(vm) /\ page \notin internal /\ internal \subseteq Nat
         /\ BootMapped <= page
    <3>1. page \in FreePages(vm)
      BY <2>6, <2>7
    <3>2. FreePages(vm) \subseteq Run(BootMapped, first_bucket_size) /\ FreePages(vm) \cap internal = {}
          /\ internal \subseteq Nat
      BY DEF Inv, Space!Conserved
    <3>3. \A x \in Run(BootMapped, first_bucket_size) : BootMapped <= x
      BY BucketsAssumption, FirstBucketSize, SMTT(20), SMTT(30) DEF Run
    <3> QED  BY <3>1, <3>2, <3>3
  <2>12. Stealing(r, internal \cup {page})
    BY <1>0, <2>6, <2>9, <2>10, <2>11, RefillSteals
  <2>13. r.steal_remaining > 0 /\ DOMAIN r.node \subseteq Nat
    BY <1>0, <2>9, <2>10, BucketsAssumption, SMTT(20), SMTT(30)
  <2>14. r.steal_next \in Nat \ {NULL} /\ r.steal_next \notin DOMAIN r.node
    BY <2>12, <2>13, SMTT(20), SMTT(30) DEF Stealing, NULL
  <2>15. Run(h.pageno, h.pages) \cap FreePages(r) = {}
    BY <1>1, <2>10
  <2>16. ReturnedNew(r, vm_return_pages(vm, r, h.pages, h.pageno), FreePages(r), h.pageno, h.pages)
    BY <1>0, <2>5, <2>10, <2>14, <2>15, ReturnStolen
  <2>17. ReturnedNew(r, v, FreePages(r), h.pageno, h.pages)
    BY <2>4, <2>16
  <2>18. CASE ~ Running(v)
    <3>1. Stops(v, FreePages(vm) \ {page}, h.pageno)
      BY <2>10, <2>17 DEF ReturnedNew
    <3>2. ASSUME v.status = "ASSERT(olditem)" PROVE LastPage \notin {page}
      <4>1. PICK x \in FreePages(vm) : x # page
        BY <3>1, <3>2, Zenon DEF Stops, Running
      <4>2. page <= x
        BY <1>0, <1>7, ReserveFirst DEF page
      <4>3. FreePages(vm) \subseteq Run(BootMapped, first_bucket_size)
        BY DEF Inv, Space!Conserved
      <4>4. x \in Run(BootMapped, first_bucket_size)
        BY <4>3
      <4> QED  BY <2>6, <4>1, <4>2, <4>4, BucketsAssumption, FirstBucketSize, SMTT(20), SMTT(30)
               DEF LastPage, Run
    <3>3. v.status = "ASSERT(olditem)" => LastPage \in HeldPages \cup internal
      BY <3>1, <3>2, AtTheEnd
    <3> QED  BY <1>3, <2>18, <3>1, <3>3 DEF Stops
  <2>19. CASE Running(v)
    <3>1. vm' = v /\ held' = held \ {h} /\ internal' = internal \cup {page}
      BY <1>2, <1>7, <2>19
    <3>2. /\ Typed(vm') /\ WellKept(vm') /\ vm'.status = "running"
          /\ DOMAIN vm'.node = DOMAIN r.node \cup {r.steal_next}
          /\ vm'.steal_next = r.steal_next + 1 /\ vm'.steal_remaining = r.steal_remaining - 1
      BY <2>17, <2>19, <3>1 DEF ReturnedNew, Running
    <3>3. FreePages(vm') = (FreePages(vm) \ {page}) \cup Run(h.pageno, h.pages)
      BY <2>10, <2>17, <2>19, <3>1 DEF ReturnedNew
    <3>4. Stealing(vm', internal')
      <4>1. Stealing(vm', internal \cup {page})
        BY <2>12, <2>13, <3>2, StealSteals
      <4> QED  BY <3>1, <4>1
    <3>5. {page} \in SUBSET FreePages(vm)
      BY <2>11
    <3> QED  BY <1>0, <3>1, <3>2, <3>3, <3>4, <3>5, FreeDone
  <2> QED  BY <2>18, <2>19
<1> QED  BY <1>4, <1>5, <1>6, <1>7 DEF must_refill

-----------------------------------------------------------------------------
\* Every step keeps the invariant and is a step of VmSpace or stutters in it.
LEMMA StepInv ==
  ASSUME Counting
  PROVE  Inv /\ [Next]_vars => Inv' /\ [Space!Next]_(Space!vars)
<1> SUFFICES ASSUME Inv, [Next]_vars PROVE Inv' /\ [Space!Next]_(Space!vars)
  OBVIOUS
<1>1. ASSUME NEW n \in Requests, vm_alloc_kpages(n) PROVE Inv' /\ Space!Next
  BY <1>1, AllocStep
<1>2. ASSUME NEW h \in held, vm_free_kpages(h) PROVE Inv' /\ Space!Next
  BY <1>2, FreeStep
<1>3. CASE UNCHANGED vars
  <2>1. vm' = vm /\ held' = held /\ internal' = internal
    BY <1>3 DEF vars
  <2>2. Space!Conserved'
    BY <2>1 DEF Inv, Space!Conserved
  <2>3. Inv'
    BY <2>1, <2>2 DEF Inv, AppendFailsOnlyAtTheEnd, HeldPages
  <2>4. UNCHANGED Space!vars
    BY <2>1 DEF Space!vars
  <2> QED  BY <2>3, <2>4
<1>4. CASE hang
  BY <1>3, <1>4 DEF hang
<1> QED  BY <1>1, <1>2, <1>3, <1>4 DEF Next

\* There are as many nodes as positions in the two lists.
LEMMA NodeCount ==
  ASSUME Counting, NEW v, Typed(v), NEW n, NEW c, NEW m, NEW d, Lists(v, n, c, m, d, {})
  PROVE  Cardinality(DOMAIN v.node) = n + m
<1> DEFINE f == [i \in 1..(n + m) |-> IF i <= n THEN c[i] ELSE d[i - n]]
<1>1. /\ n \in Nat /\ m \in Nat
      /\ \A i \in 1..n : c[i] \in DOMAIN v.node
      /\ \A j \in 1..m : d[j] \in DOMAIN v.node
      /\ \A i \in 1..n, j \in 1..m : c[i] # d[j]
      /\ \A a \in DOMAIN v.node : (\E i \in 1..n : c[i] = a) \/ (\E j \in 1..m : d[j] = a)
  BY DEF Lists, Rail, Track
<1>2. /\ \A i, j \in 1..n : c[i] = c[j] => i = j
      /\ \A i, j \in 1..m : d[i] = d[j] => i = j
  BY DEF Lists, Rail, Track
<1>3. \A i \in 1..(n + m) : /\ i <= n => i \in 1..n /\ f[i] = c[i]
                            /\ ~ (i <= n) => i - n \in 1..m /\ f[i] = d[i - n]
  BY <1>1, SMTT(20), SMTT(30)
<1>4. f \in [1..(n + m) -> DOMAIN v.node]
  BY <1>1, SMTT(20), SMTT(30)
<1>5. n + m \in Nat
  BY <1>1, SMTT(20), SMTT(30)
<1> HIDE DEF f
<1>6. ASSUME NEW i \in 1..(n + m), NEW j \in 1..(n + m), f[i] = f[j] PROVE i = j
  <2>1. CASE i <= n /\ j <= n
    BY <2>1, <1>2, <1>3, <1>6
  <2>2. CASE ~ (i <= n) /\ ~ (j <= n)
    <3>1. i - n = j - n
      BY <2>2, <1>2, <1>3, <1>6
    <3> QED  BY <3>1, <1>1, SMTT(20), SMTT(30)
  <2>3. CASE (i <= n) # (j <= n)
    BY <2>3, <1>1, <1>3, <1>6, SMTT(20), SMTT(30)
  <2> QED  BY <2>1, <2>2, <2>3
<1>7. ASSUME NEW a \in DOMAIN v.node PROVE \E i \in 1..(n + m) : f[i] = a
  <2>1. CASE \E i \in 1..n : c[i] = a
    <3>1. PICK i \in 1..n : c[i] = a
      BY <2>1
    <3>2. i \in 1..(n + m) /\ i <= n
      BY <1>1, SMTT(20), SMTT(30)
    <3> QED  BY <3>1, <3>2, <1>3
  <2>2. CASE \E j \in 1..m : d[j] = a
    <3>1. PICK j \in 1..m : d[j] = a
      BY <2>2
    <3>2. n + j \in 1..(n + m) /\ ~ (n + j <= n) /\ (n + j) - n = j
      BY <1>1, SMTT(20), SMTT(30)
    <3> QED  BY <3>1, <3>2, <1>3
  <2> QED  BY <1>1, <2>1, <2>2
<1>8. Cardinality(1..(n + m)) = Cardinality(DOMAIN v.node)
  <2>1. IsFiniteSet(DOMAIN v.node)
    BY DEF Typed
  <2>2. OneToOne(f, 1..(n + m), DOMAIN v.node) /\ Onto(f, 1..(n + m), DOMAIN v.node)
    BY <1>4, <1>6, <1>7 DEF OneToOne, Onto
  <2> QED  BY <2>1, <2>2 DEF Counting
<1> QED  BY <1>5, <1>8, Positions

\* The invariant has every node in one list.
LEMMA InvNodes ==
  ASSUME Counting, Inv
  PROVE  NodesInOneList
<1>1. Typed(vm) /\ WellKept(vm)
  BY DEF Inv
<1>2. PICK n, c, m, d : Lists(vm, n, c, m, d, {})
  BY <1>1 DEF WellKept
<1>3. /\ Track(vm.node, vm.buckets, n, c) /\ Track(vm.node, vm.waiting, m, d)
      /\ n \in Nat /\ m \in Nat /\ c[0] = NULL
      /\ \A i \in 1..n : c[i] \in DOMAIN vm.node /\ vm.node[c[i]].prev = c[i - 1]
      /\ \A j \in 1..m : d[j] \in DOMAIN vm.node
      /\ \A a \in DOMAIN vm.node : (\E i \in 1..n : c[i] = a) \/ (\E j \in 1..m : d[j] = a)
  BY <1>2 DEF Lists, Rail, Track
<1>4. Lines(BucketChain, n, c) /\ Lines(WaitingChain, m, d)
  BY <1>1, <1>3, ChainIsTrack DEF BucketChain, WaitingChain
<1>5. /\ BucketChain = [i \in 1..n |-> c[i]] /\ WaitingChain = [j \in 1..m |-> d[j]]
      /\ Len(BucketChain) = n /\ Len(WaitingChain) = m
  BY <1>3, <1>4, SMTT(20), SMTT(30) DEF Lines
<1>6. Cardinality(Nodes) = n + m
  BY <1>1, <1>2, NodeCount DEF Nodes
<1>7. Elements(BucketChain) \cup Elements(WaitingChain) = Nodes
  BY <1>3, <1>5, ZenonT(30) DEF Elements, Nodes
<1>8. ASSUME NEW i \in DOMAIN BucketChain
      PROVE  vm.node[BucketChain[i]].prev = IF i = 1 THEN NULL ELSE BucketChain[i - 1]
  <2>1. i \in 1..n /\ BucketChain[i] = c[i]
    BY <1>5
  <2>2. CASE i = 1
    BY <1>3, <2>1, <2>2, SMTT(20), SMTT(30)
  <2>3. CASE i # 1
    <3>1. i - 1 \in 1..n /\ BucketChain[i - 1] = c[i - 1]
      BY <1>3, <1>5, <2>1, <2>3, SMTT(20), SMTT(30)
    <3> QED  BY <1>3, <2>1, <2>3, <3>1
  <2> QED  BY <2>2, <2>3
<1> QED  BY <1>5, <1>6, <1>7, <1>8 DEF NodesInOneList

\* The invariant has the buckets sorted and joined.
LEMMA InvBuckets ==
  ASSUME Counting, Inv
  PROVE  BucketsSortedAndJoined
<1>1. Typed(vm) /\ WellKept(vm)
  BY DEF Inv
<1>2. PICK n, c, m, d : Lists(vm, n, c, m, d, {}) /\ Apart(vm, n, c)
  BY <1>1 DEF WellKept
<1>3. Track(vm.node, vm.buckets, n, c) /\ n \in Nat
  BY <1>2 DEF Lists, Rail, Track
<1>4. Lines(BucketChain, n, c)
  BY <1>1, <1>3, ChainIsTrack DEF BucketChain
<1>5. DOMAIN BucketChain = 1..n /\ \A i \in 1..n : BucketChain[i] = c[i]
  BY <1>4 DEF Lines
<1>6. RunsTyped(vm, n, c)
  BY <1>1, <1>3, RunTypes
<1>7. \A i \in 1..n : vm.node[c[i]].size > 0
  BY <1>2, <1>6, SMTT(20), SMTT(30) DEF Apart, RunsTyped
<1>8. ASSUME NEW i \in 1..n, i # 1
      PROVE  vm.node[c[i - 1]].pageno + vm.node[c[i - 1]].size < vm.node[c[i]].pageno
  <2>1. i - 1 \in 1..n /\ i - 1 < i
    BY <1>3, <1>8, SMTT(20), SMTT(30)
  <2>2. End(vm, c[i - 1]) < Start(vm, c[i])
    BY <1>2, <2>1 DEF Apart
  <2> QED  BY <2>2 DEF Start, End
<1>9. \A i \in 1..n : i # 1 => i - 1 \in 1..n /\ BucketChain[i - 1] = c[i - 1]
  BY <1>3, <1>5, SMTT(20), SMTT(30)
<1> QED  BY <1>5, <1>7, <1>8, <1>9 DEF BucketsSortedAndJoined

-----------------------------------------------------------------------------
INSTANCE FiniteSetTheorems

\* What the lemmas on the statics take as a hypothesis is true.
LEMMA CountingHolds == Counting
<1>1. \A T : T \subseteq Nat /\ T # {} => \E x \in T : \A y \in T : x <= y
  <2> SUFFICES ASSUME NEW T, T \subseteq Nat, T # {} PROVE \E x \in T : \A y \in T : x <= y
    OBVIOUS
  <2>1. PICK x \in T : \A y \in T : ~(<<y, x>> \in OpToRel(<, Nat))
    BY NatLessThanWellFounded, WFMin, Zenon
  <2>2. ASSUME NEW y \in T PROVE x <= y
    <3>1. ~(<<y, x>> \in OpToRel(<, Nat))
      BY <2>1
    <3>2. ~(y < x)
      BY <3>1, Zenon DEF OpToRel
    <3> QED  BY <3>2, SMTT(20), SMTT(30)
  <2> QED  BY <2>2
<1>2. \A x : IsFiniteSet({x})
  BY FS_Singleton
<1>3. \A S, x : IsFiniteSet(S) => IsFiniteSet(S \cup {x})
  BY FS_AddElement
<1>4. \A S : IsFiniteSet(S) => Cardinality(S) \in Nat
  BY FS_CardinalityType
<1>5. \A n \in Nat : Cardinality(0..(n - 1)) = n /\ Cardinality(1..n) = n
  BY FS_Interval, SMTT(20), SMTT(30)
<1>6. ASSUME NEW S, NEW T, NEW f, IsFiniteSet(T), OneToOne(f, S, T)
      PROVE  Cardinality(S) <= Cardinality(T) /\ IsFiniteSet(S) /\ f \in Injection(S, T)
  <2>1. f \in Injection(S, T)
    BY <1>6 DEF OneToOne, Injection, IsInjective
  <2> QED  BY <1>6, <2>1, FS_Injection
<1>7. ASSUME NEW S, NEW T, NEW f, IsFiniteSet(T), OneToOne(f, S, T), Onto(f, S, T)
      PROVE  Cardinality(S) = Cardinality(T)
  <2>1. f \in Surjection(S, T)
    BY <1>7 DEF OneToOne, Onto, Surjection
  <2>2. ExistsBijection(S, T) /\ IsFiniteSet(S)
    BY <1>6, <1>7, <2>1 DEF ExistsBijection, Bijection
  <2> QED  BY <2>2, FS_Bijection
<1> QED  BY <1>1, <1>2, <1>3, <1>4, <1>5, <1>6, <1>7 DEF Counting

(***************************************************************************)
(* The inductive invariant Inv holds of every behaviour: between two calls *)
(* of vm.c the lists are well kept, their pages, the held runs and the     *)
(* pages kept for nodes partition the managed range, and the steal area is *)
(* unused memory.                                                          *)
(***************************************************************************)
THEOREM Invariance == Spec => []Inv
<1>1. Init => Inv
  BY InitInv, CountingHolds
<1>2. Inv /\ [Next]_vars => Inv'
  BY StepInv, CountingHolds
<1> QED  BY <1>1, <1>2, PTL DEF Spec

(***************************************************************************)
(* TypeOK holds for all sizes of the address space and all requests.  Its  *)
(* first conjunct says that the ASSERT of ll_push_item never fails.        *)
(***************************************************************************)
THEOREM TypeCorrect == Spec => []TypeOK
<1>1. Inv => TypeOK
  BY DEF Inv, TypeOK, Typed, NodeType, Nodes, Stealing, HeldTyped
<1> QED  BY Invariance, <1>1, PTL

(***************************************************************************)
(* No sequence of vm_alloc_kpages and vm_free_kpages loses a list node or  *)
(* puts one in two places, whatever the requests and however many nodes    *)
(* are stolen; the prev links of the bucket list are always right.         *)
(***************************************************************************)
THEOREM NodesKept == Spec => []NodesInOneList
<1>1. Inv => NodesInOneList
  BY InvNodes, CountingHolds
<1> QED  BY Invariance, <1>1, PTL

(***************************************************************************)
(* The bucket list is always sorted, without empty buckets, and with       *)
(* nothing left for vm_optimize to join.                                   *)
(***************************************************************************)
THEOREM BucketsKeptJoined == Spec => []BucketsSortedAndJoined
<1>1. Inv => BucketsSortedAndJoined
  BY InvBuckets, CountingHolds
<1> QED  BY Invariance, <1>1, PTL

(***************************************************************************)
(* The ASSERT(olditem) of ll_append_notempty fails only once the last page *)
(* of the range is in use, for every size of the range.                    *)
(***************************************************************************)
THEOREM AppendsFailOnlyAtTheEnd == Spec => []AppendFailsOnlyAtTheEnd
<1>1. Inv => AppendFailsOnlyAtTheEnd
  BY DEF Inv
<1> QED  BY Invariance, <1>1, PTL

(***************************************************************************)
(* Every managed virtual page is in exactly one place: free, in one held   *)
(* run, or kept for list nodes.  vm.c never hands out a page twice or      *)
(* loses one.                                                              *)
(***************************************************************************)
THEOREM VirtualPagesConserved == Spec => []Space!Conserved
<1>1. Inv => Space!Conserved
  BY DEF Inv
<1> QED  BY Invariance, <1>1, PTL

(***************************************************************************)
(* The linked lists of vm.c implement the abstract page space VmSpace:     *)
(* each call is an Alloc, a Free that keeps at most one page, or a Halt.   *)
(***************************************************************************)
THEOREM BucketsImplementVmSpace == Spec => ImplementsVmSpace
<1>1. Init => Space!Init
  <2> SUFFICES ASSUME Init PROVE Space!Init
    OBVIOUS
  <2>1. held = {} /\ internal = {} /\ Running(vm)
    BY DEF Init, Running, FreshLists
  <2>2. Space!Conserved
    BY InitInv, CountingHolds DEF Inv
  <2>3. FreePages(vm) = Run(BootMapped, first_bucket_size)
    BY <2>1, <2>2 DEF Space!Conserved
  <2> QED  BY <2>1, <2>3 DEF Space!Init
<1>2. Inv /\ [Next]_vars => [Space!Next]_(Space!vars)
  BY StepInv, CountingHolds
<1> QED  BY Invariance, <1>1, <1>2, PTL DEF Spec, ImplementsVmSpace, Space!Spec
=============================================================================
