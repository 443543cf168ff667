------------------------------ MODULE Buckets ------------------------------
(***************************************************************************)
(* The free buckets of kernel/memory/vm.c: the doubly linked list          *)
(* vm_kernel_buckets of free runs of virtual pages, the list               *)
(* vm_waiting_list of spare list nodes, and the memory that                *)
(* vm_kernel_stealmem cuts new nodes from.  The C functions are operators  *)
(* from one value v of these statics to the next; VmBuckets and Vm give    *)
(* them a state.                                                           *)
(*                                                                         *)
(* An address of a node is a number: the static vm_first_bucket, or a slot *)
(* of sizeof(vm_free_bucket_t) bytes in a page of virtual memory.  The     *)
(* steal area is counted in such slots.  Page numbers are natural numbers, *)
(* as the size_t fields of a bucket are; only an address wraps around.     *)
(*                                                                         *)
(* A failed ASSERT or a PANIC sets v.status to its reason; no later part   *)
(* of the call runs.                                                       *)
(***************************************************************************)
EXTENDS Integers, FiniteSets, Sequences

CONSTANTS
  PageSpace,      \* pages of the address space (2^20)
  BootMapped,     \* page number of KERNEL_BOOT_MAPPED
  ManagedEnd,     \* page number of managed_end, 0xFF000000
  StealPages,     \* pages between pmm_get_border() and KERNEL_BOOT_MAPPED
  ItemsPerPage    \* PAGE_SIZE / sizeof(vm_free_bucket_t)

ASSUME BucketsAssumption ==
  /\ {PageSpace, BootMapped, ManagedEnd, StealPages} \subseteq Nat
  /\ StealPages + 1 < BootMapped /\ BootMapped < ManagedEnd /\ ManagedEnd <= PageSpace
  /\ ItemsPerPage \in Nat \ {0}

NULL         == 0
first_bucket == 1

ZeroNode == [pageno |-> 0, size |-> 0, next |-> NULL, prev |-> NULL]

\* (managed_start - managed_end) >> PAGE_BITS, in unsigned arithmetic.
first_bucket_size == (BootMapped - ManagedEnd) % PageSpace

\* vm_init.
FreshLists ==
  [status |-> "running",
   buckets |-> first_bucket,
   waiting |-> NULL,
   node |-> [a \in {first_bucket} |->
               [ZeroNode EXCEPT !.pageno = BootMapped, !.size = first_bucket_size]],
   steal_next |-> (BootMapped - StealPages) * ItemsPerPage,
   steal_remaining |-> StealPages * ItemsPerPage]

Running(v) == v.status = "running"
PANIC(v, reason) == [v EXCEPT !.status = reason]
-----------------------------------------------------------------------------
(***************************************************************************)
(* The list operations.  `list' is "buckets" or "waiting".                 *)
(***************************************************************************)
\* Mutant: the removed item keeps its own links.
ll_remove_item_keeps_links(v, list, item) ==
  LET it == v.node[item]
      v1 == IF it.next = NULL THEN v ELSE [v EXCEPT !.node[it.next].prev = it.prev]
  IN  IF it.prev = NULL THEN [v1 EXCEPT ![list] = it.next]
                        ELSE [v1 EXCEPT !.node[it.prev].next = it.next]

ll_remove_item(v, list, item) ==
  LET it == v.node[item]
      v1 == IF it.next = NULL THEN v ELSE [v EXCEPT !.node[it.next].prev = it.prev]
      v2 == IF it.prev = NULL THEN [v1 EXCEPT ![list] = it.next]
                              ELSE [v1 EXCEPT !.node[it.prev].next = it.next]
  IN  [v2 EXCEPT !.node[item].next = NULL, !.node[item].prev = NULL]

ll_insert_before(v, list, newitem, olditem) ==
  LET before == v.node[olditem].prev
      v1 == [v EXCEPT !.node[newitem].next = olditem, !.node[newitem].prev = before]
      v2 == IF before = NULL THEN [v1 EXCEPT ![list] = newitem]
                             ELSE [v1 EXCEPT !.node[before].next = newitem]
  IN  [v2 EXCEPT !.node[olditem].prev = newitem]

\* olditem is where the walk of vm_return_pages ended.
ll_append_notempty(v, newitem, olditem) ==
  IF olditem = NULL THEN PANIC(v, "ASSERT(olditem)")
  ELSE [v EXCEPT !.node[olditem].next = newitem, !.node[newitem].prev = olditem]

ll_push_item(v, list, item) ==
  LET old_first == v[list]
  IN  IF v.node[item].prev # NULL \/ v.node[item].next # NULL
      THEN PANIC(v, "ASSERT(item->prev == NULL && item->next == NULL)")
      ELSE IF old_first = NULL THEN [v EXCEPT ![list] = item]
      ELSE [v EXCEPT ![list] = item,
                     !.node[old_first].prev = item,
                     !.node[item].next = old_first]

\* Of the list that is not empty.  The new head keeps its prev.
ll_pop_item(v, list) ==
  LET item == v[list]
  IN  IF v.node[item].prev # NULL THEN PANIC(v, "ASSERT(item->prev == NULL)")
      ELSE [v EXCEPT ![list] = v.node[item].next, !.node[item].next = NULL]

(***************************************************************************)
(* The while loops of vm_reserve_pages and vm_return_pages: the first node *)
(* of vm_kernel_buckets that is one of `wanted', or NULL.                  *)
(***************************************************************************)
successor(v, a) == IF a = NULL THEN NULL ELSE v.node[a].next

FirstBucket(v, wanted) ==
  LET at[i \in 0..Cardinality(DOMAIN v.node)] ==
        IF i = 0 THEN v.buckets ELSE successor(v, at[i - 1])
      hits == {i \in DOMAIN at : at[i] \in wanted}
  IN  IF hits = {} THEN NULL
      ELSE at[CHOOSE i \in hits : \A j \in hits : i <= j]

Fitting(v, pages) == {a \in DOMAIN v.node : v.node[a].size >= pages}

\* Mutant: a bucket that starts right behind the page is passed over.
Behind_off_by_one(v, pageno) == {a \in DOMAIN v.node : v.node[a].pageno > pageno + 1}

Behind(v, pageno) == {a \in DOMAIN v.node : v.node[a].pageno > pageno}

-----------------------------------------------------------------------------
(***************************************************************************)
(* vm_reserve_pages takes the first bucket that is large enough.           *)
(***************************************************************************)
\* Mutant: a bucket that is one page short is accepted.
bucket_for_off_by_one(v, pages) == FirstBucket(v, Fitting(v, pages - 1))

bucket_for(v, pages) == FirstBucket(v, Fitting(v, pages))

\* Mutant: the node of an emptied bucket is not kept on the waiting list.
vm_reserve_pages_drops_node(v, pages) ==
  LET head == bucket_for(v, pages)
  IN  IF head = NULL THEN PANIC(v, "Out of virtual memory")
      ELSE IF v.node[head].size = pages
      THEN ll_remove_item([v EXCEPT !.node[head].pageno = 0, !.node[head].size = 0],
                          "buckets", head)
      ELSE [v EXCEPT !.node[head].pageno = @ + pages, !.node[head].size = @ - pages]

vm_reserve_pages(v, pages) ==
  LET head == bucket_for(v, pages)
  IN  IF head = NULL THEN PANIC(v, "Out of virtual memory")
      ELSE IF v.node[head].size = pages
      THEN ll_push_item(
             ll_remove_item(
               [v EXCEPT !.node[head].pageno = 0, !.node[head].size = 0],
               "buckets", head),
             "waiting", head)
      ELSE [v EXCEPT !.node[head].pageno = @ + pages, !.node[head].size = @ - pages]

\* *pageno_out of vm_reserve_pages.
reserved_pageno(v, pages) == v.node[bucket_for(v, pages)].pageno

(***************************************************************************)
(* vm_optimize joins the bucket `item' with its neighbours.  Both tests    *)
(* are made before either merge.                                           *)
(***************************************************************************)
Adjoin(n, m) == n.pageno + n.size = m.pageno

merge_front(v, item) ==
  LET tmp == v.node[item].prev
      v1  == [v EXCEPT !.node[item].pageno = v.node[tmp].pageno,
                       !.node[item].size = @ + v.node[tmp].size]
  IN  ll_push_item(ll_remove_item(v1, "buckets", tmp), "waiting", tmp)

merge_back(v, item) ==
  LET tmp == v.node[item].next
      v1  == [v EXCEPT !.node[item].size = @ + v.node[tmp].size]
  IN  ll_push_item(ll_remove_item(v1, "buckets", tmp), "waiting", tmp)

\* Mutant: only the bucket behind is joined.
vm_optimize_back_only(v, item) ==
  LET it == v.node[item]
  IN  IF it.next # NULL /\ Adjoin(it, v.node[it.next]) THEN merge_back(v, item) ELSE v

vm_optimize(v, item) ==
  LET it == v.node[item]
      can_merge_front == it.prev # NULL /\ Adjoin(v.node[it.prev], it)
      can_merge_back  == it.next # NULL /\ Adjoin(it, v.node[it.next])
      v1 == IF can_merge_front THEN merge_front(v, item) ELSE v
  IN  IF can_merge_back /\ Running(v1) THEN merge_back(v1, item) ELSE v1

-----------------------------------------------------------------------------
(***************************************************************************)
(* vm_item: a node from the waiting list, or a new one.  vm_kernel_stealmem *)
(* first allocates a page when the steal area is used up; that allocation  *)
(* is the caller's to describe, and r is v after it (r = v without it).    *)
(***************************************************************************)
must_refill(v) == v.waiting = NULL /\ v.steal_remaining < 1

refilled(v, page) ==
  [v EXCEPT !.steal_next = page * ItemsPerPage, !.steal_remaining = ItemsPerPage]

vm_kernel_stealmem(r) ==
  [r EXCEPT !.node = [a \in DOMAIN r.node \cup {r.steal_next} |->
                        IF a = r.steal_next THEN ZeroNode ELSE r.node[a]],
            !.steal_next = @ + 1,
            !.steal_remaining = @ - 1]

item_address(v, r) == IF v.waiting # NULL THEN v.waiting ELSE r.steal_next

vm_item(v, r) ==
  IF v.waiting # NULL THEN ll_pop_item(v, "waiting")
  ELSE IF Running(r) THEN vm_kernel_stealmem(r) ELSE r

(***************************************************************************)
(* vm_return_pages puts the run back, sorted by page number, and joins it  *)
(* with its neighbours.                                                    *)
(***************************************************************************)
\* Mutant: the list is read before vm_item, which may itself change it.
vm_return_pages_stale_walk(v, r, pages, pageno) ==
  LET item == item_address(v, r)
      v1   == vm_item(v, r)
      v2   == [v1 EXCEPT !.node[item].pageno = pageno, !.node[item].size = pages]
      node == FirstBucket(v, Behind(v, pageno))
  IN  IF ~ Running(v1) THEN v1
      ELSE IF v.buckets = NULL THEN ll_push_item(v2, "buckets", item)
      ELSE IF node = NULL THEN ll_append_notempty(v2, item, node)
      ELSE vm_optimize(ll_insert_before(v2, "buckets", item, node), item)

vm_return_pages(v, r, pages, pageno) ==
  LET item == item_address(v, r)
      v1   == vm_item(v, r)
      v2   == [v1 EXCEPT !.node[item].pageno = pageno, !.node[item].size = pages]
      node == FirstBucket(v2, Behind(v2, pageno))
  IN  IF ~ Running(v1) THEN v1
      ELSE IF v2.buckets = NULL THEN ll_push_item(v2, "buckets", item)
      ELSE IF node = NULL THEN ll_append_notempty(v2, item, node)
      ELSE vm_optimize(ll_insert_before(v2, "buckets", item, node), item)

-----------------------------------------------------------------------------
(***************************************************************************)
(* What the lists stand for.                                               *)
(***************************************************************************)
\* The running kernel, and the reasons it can stop for in these functions.
\* The ASSERT of ll_push_item is not one of them.
Statuses ==
  {"running", "Out of virtual memory", "ASSERT(olditem)", "ASSERT(item->prev == NULL)"}

\* The nodes that next leads to from `head', in order.
Chain(v, head) ==
  LET at[i \in 0..(Cardinality(DOMAIN v.node) + 1)] ==
        IF i = 0 THEN head ELSE successor(v, at[i - 1])
      len == Cardinality({i \in DOMAIN at : at[i] # NULL})
  IN  [i \in 1..len |-> at[i - 1]]

Run(pageno, pages) == pageno..(pageno + pages - 1)

\* The pages of all buckets of the list.
FreePages(v) ==
  LET c == Chain(v, v.buckets)
  IN  UNION {Run(v.node[c[i]].pageno, v.node[c[i]].size) : i \in DOMAIN c}

=============================================================================
