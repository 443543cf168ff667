----------------------------- MODULE VmBuckets -----------------------------
(***************************************************************************)
(* The management of virtual pages in kernel/memory/vm.c on its own: runs  *)
(* of pages are reserved from and returned to the free buckets, whose      *)
(* nodes come from the waiting list or from stolen memory.  Which frames   *)
(* the pages are mapped to is left to Vm; here nobody else writes to the   *)
(* memory of the nodes.                                                    *)
(***************************************************************************)
EXTENDS Buckets

CONSTANT
  Requests      \* the numbers of pages callers ask for

ASSUME RequestsAssumption == Requests \subseteq Nat \ {0}

VARIABLES
  vm,        \* the statics of vm.c
  held,      \* the runs callers hold, as [pageno, pages]
  internal   \* the pages that hold list nodes

vars == <<vm, held, internal>>

Init ==
  /\ vm = FreshLists
  /\ held = {}
  /\ internal = {}

\* kernel_panic never returns: what the call had done so far is not read again.
halt(v) == vm' = [vm EXCEPT !.status = v.status] /\ UNCHANGED <<held, internal>>

vm_alloc_kpages(n) ==
  /\ Running(vm)
  /\ LET v == vm_reserve_pages(vm, n) IN
     \/ /\ Running(v)
        /\ vm' = v
        /\ held' = held \cup {[pageno |-> reserved_pageno(vm, n), pages |-> n]}
        /\ UNCHANGED internal
     \/ ~ Running(v) /\ halt(v)

vm_free_kpages(h) ==
  /\ Running(vm)
  /\ LET page == reserved_pageno(vm, 1)
         taken == vm_reserve_pages(vm, 1)
         r == IF ~ must_refill(vm) THEN vm
              ELSE IF Running(taken) THEN refilled(taken, page) ELSE taken
         v == vm_return_pages(vm, r, h.pages, h.pageno)
     IN  \/ /\ Running(v)
            /\ vm' = v
            /\ held' = held \ {h}
            /\ internal' = internal \cup (IF must_refill(vm) THEN {page} ELSE {})
         \/ ~ Running(v) /\ halt(v)

\* The halted kernel.
hang == ~ Running(vm) /\ UNCHANGED vars

Next ==
  \/ \E n \in Requests : vm_alloc_kpages(n)
  \/ \E h \in held : vm_free_kpages(h)
  \/ hang

Spec == Init /\ [][Next]_vars
-----------------------------------------------------------------------------
Nodes == DOMAIN vm.node

TypeOK ==
  /\ vm.status \in Statuses
  /\ {vm.buckets, vm.waiting} \subseteq Nodes \cup {NULL}
  /\ \A a \in Nodes : /\ {vm.node[a].pageno, vm.node[a].size} \subseteq Nat
                      /\ {vm.node[a].next, vm.node[a].prev} \subseteq Nodes \cup {NULL}
  /\ {vm.steal_next, vm.steal_remaining} \subseteq Nat
  /\ \A h \in held : h.pageno \in Nat /\ h.pages \in Requests
  /\ internal \subseteq Nat

BucketChain  == Chain(vm, vm.buckets)
WaitingChain == Chain(vm, vm.waiting)
Elements(s)  == {s[i] : i \in DOMAIN s}

(***************************************************************************)
(* No list node is lost or in two places: each node ever made, the static  *)
(* first bucket and every slot cut from stolen memory, is in exactly one   *)
(* position of one of the two lists between any two calls.  The links of   *)
(* the bucket list agree in both directions, so that ll_remove_item and    *)
(* ll_insert_before may start anywhere in it.                              *)
(***************************************************************************)
NodesInOneList ==
  /\ Elements(BucketChain) \cup Elements(WaitingChain) = Nodes
  /\ Len(BucketChain) + Len(WaitingChain) = Cardinality(Nodes)
  /\ \A i \in DOMAIN BucketChain :
       vm.node[BucketChain[i]].prev = IF i = 1 THEN NULL ELSE BucketChain[i - 1]

(***************************************************************************)
(* The buckets are nonempty runs in increasing order with a gap between    *)
(* any two: vm_optimize leaves nothing that could still be joined.         *)
(***************************************************************************)
BucketsSortedAndJoined ==
  /\ \A i \in DOMAIN BucketChain : vm.node[BucketChain[i]].size > 0
  /\ \A i \in DOMAIN BucketChain \ {1} :
       LET n == vm.node[BucketChain[i - 1]]
       IN  n.pageno + n.size < vm.node[BucketChain[i]].pageno

HeldPages == UNION {Run(h.pageno, h.pages) : h \in held}
LastPage  == BootMapped + first_bucket_size - 1

(***************************************************************************)
(* The walk of vm_return_pages ends at NULL, where the ASSERT(olditem) of  *)
(* ll_append_notempty fails, only once the last page of the range that     *)
(* vm_init made is in use.  As long as a page is free at the end of the    *)
(* range, every run can be returned, in whatever order runs come back and  *)
(* nodes are stolen; and the end that vm_init computes lies far behind     *)
(* managed_end.                                                            *)
(***************************************************************************)
AppendFailsOnlyAtTheEnd ==
  vm.status = "ASSERT(olditem)" => LastPage \in HeldPages \cup internal

(***************************************************************************)
(* A node on the waiting list can be popped: ll_pop_item's                 *)
(* ASSERT(item->prev == NULL) holds of the head whenever it is called.     *)
(***************************************************************************)
PopAssertionHolds == vm.status # "ASSERT(item->prev == NULL)"

(***************************************************************************)
(* A reservation stays inside the range that vm_init manages, whose end    *)
(* 0xFF000000 is where gfx.cpp maps the framebuffer: when the range is     *)
(* used up, vm_alloc_kpages stops with "Out of virtual memory".            *)
(***************************************************************************)
ReservedBelowManagedEnd == \A h \in held : h.pageno + h.pages <= ManagedEnd

Space == INSTANCE VmSpace WITH
  Managed  <- Run(BootMapped, first_bucket_size),
  free     <- FreePages(vm),
  halted   <- ~ Running(vm)

(***************************************************************************)
(* First fit, splitting, sorted insertion and joining over linked nodes    *)
(* implement the abstract VmSpace: no call loses, invents or hands out     *)
(* twice a virtual page, and the page stolen for nodes is a free one.      *)
(***************************************************************************)
ImplementsVmSpace == Space!Spec

=============================================================================
