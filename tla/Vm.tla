--------------------------------- MODULE Vm ---------------------------------
(***************************************************************************)
(* kernel/memory/vm.c composed with the physical memory manager: the free  *)
(* buckets of virtual pages, the page tables and the buddy bitsets, as     *)
(* vm_alloc_kpages and vm_free_kpages drive them.  Addresses are counted   *)
(* in pages.  The list nodes live in mapped memory like everything else.   *)
(* The kernel is single threaded and no interrupt handler allocates, so    *)
(* each call is one step.  Memory is reached through the page tables: the  *)
(* TLB, of which vm.c flushes nothing, is left out.                        *)
(***************************************************************************)
EXTENDS Buckets, Buddies

CONSTANTS
  KernelOffset,  \* page number of KERNEL_OFFSET
  Requests,      \* the numbers of pages callers ask for
  PAGE_SIZE,     \* in the units in which FbSizes are given
  FbAddr,        \* first frame of the frame buffer, behind all memory
  FbSizes        \* the sizes of frame buffer that the boot loader may set up

ASSUME VmAssumption ==
  /\ KernelOffset \in Nat /\ KernelOffset < BootMapped - StealPages
  /\ 2 * (ManagedEnd - BootMapped) < PageSpace
  /\ Requests \subseteq 1..(2 * Capacity[Top] - 1)
  /\ PAGE_SIZE \in Nat \ {0} /\ FbAddr \in Nat
  /\ FbSizes \subseteq 1..(PAGE_SIZE * (PageSpace - ManagedEnd))

VARIABLES
  kernel,    \* the statics of vm.c and pmm.c, and the page tables
  held,      \* the runs callers hold, as [pageno, pages]
  internal,  \* the pages vm_kernel_stealmem allocated for list nodes
  gfx_fb_size

vars == <<kernel, held, internal, gfx_fb_size>>

NotPresent == -1
KernelPages == KernelOffset..(PageSpace - 1)

virtual2phys(page) == page - KernelOffset

\* managed_first, where the buddies begin: pmm_get_border() is its address.
buddy_base == virtual2phys(BootMapped - StealPages)

(***************************************************************************)
(* After vm_init: the boot-mapped part of the kernel's half is mapped one  *)
(* to one, the tables of the rest are present and empty.                   *)
(***************************************************************************)
vm_init ==
  [status |-> FreshLists.status, buckets |-> FreshLists.buckets,
   waiting |-> FreshLists.waiting, node |-> FreshLists.node,
   steal_next |-> FreshLists.steal_next,
   steal_remaining |-> FreshLists.steal_remaining,
   pt |-> [p \in KernelPages |-> IF p < BootMapped THEN virtual2phys(p) ELSE NotPresent],
   buddies |-> FreshBuddies]

Init ==
  /\ kernel = vm_init
  /\ held = {}
  /\ internal = {}
  /\ gfx_fb_size = 0
-----------------------------------------------------------------------------
(***************************************************************************)
(* vm_map_page and vm_unmap_page.  A page number is turned into an address *)
(* of 32 bits; only the directory entries of the kernel's half are present.*)
(***************************************************************************)
vaddr(page) == page % PageSpace

vm_map_page(k, frame, page) ==
  IF vaddr(page) \notin KernelPages THEN PANIC(k, "Not implemented")
  ELSE [k EXCEPT !.pt[vaddr(page)] = frame]

\* Mutant: the entries stay present.
unmap_nothing(k, pageno, pages) == k

\* The loop of vm_free_kpages over vm_unmap_page.
unmap(k, pageno, pages) ==
  [k EXCEPT !.pt = [p \in KernelPages |->
     IF p \in {vaddr(q) : q \in Run(pageno, pages)} THEN NotPresent ELSE @[p]]]

\* One round of the loop of vm_alloc_kpages.
back_page(k, page) ==
  IF ~ Running(k) THEN k
  ELSE IF ~ can_alloc(k.buddies, 1) THEN PANIC(k, "Out of physical memory")
  ELSE vm_map_page([k EXCEPT !.buddies = after_alloc(@, 1)],
                   buddy_base + alloc_start(k.buddies, 1), page)

(***************************************************************************)
(* memset(ptr, 0b10101010, ...) at the end of vm_alloc_kpages: it          *)
(* overwrites whatever the frames hold, list nodes included.               *)
(***************************************************************************)
FilledNode == [pageno |-> 170, size |-> 170, next |-> 170, prev |-> 170]
frame_of_node(k, a) == k.pt[vaddr(a \div ItemsPerPage)]

fill(k, pageno, pages) ==
  LET frames == {k.pt[vaddr(q)] : q \in Run(pageno, pages)}
  IN  [k EXCEPT
        !.node = [a \in DOMAIN @ |-> IF a # first_bucket /\ frame_of_node(k, a) \in frames
                                     THEN FilledNode ELSE @[a]]]

alloc_kpages(k, pages) ==
  LET pageno == reserved_pageno(k, pages)
      k0     == vm_reserve_pages(k, pages)
      backed[i \in 0..pages] == IF i = 0 THEN k0
                                ELSE back_page(backed[i - 1], pageno + i - 1)
  IN  IF Running(backed[pages]) THEN fill(backed[pages], pageno, pages)
      ELSE backed[pages]

(***************************************************************************)
(* vm_free_kpages: unmap from the last page to the first, return the run   *)
(* (which may allocate a page for a list node), and give the frames back   *)
(* by one pmm_free of `pages' frames at the frame of the first page.       *)
(***************************************************************************)
refill(k) ==
  LET taken == alloc_kpages(k, 1)
  IN  IF Running(taken) THEN refilled(taken, reserved_pageno(k, 1)) ELSE taken

\* Mutant: a block is given back to the level above its own.
pmm_free_rounds_up(k, pages, frame) ==
  [k EXCEPT !.buddies =
     after_free(@, IF pages < Capacity[Top] THEN 2 * pages ELSE pages, frame - buddy_base)]

\* Mutant: buddy_base is not subtracted.
pmm_free_not_rebased(k, pages, frame) ==
  [k EXCEPT !.buddies = after_free(@, pages, frame)]

\* Mutant: the frame is not given back at all.
pmm_free_nothing(k, pages, frame) == k

pmm_free(k, pages, frame) ==
  IF frame < buddy_base THEN PANIC(k, "Cannot free stolen pages")
  ELSE [k EXCEPT !.buddies = after_free(@, pages, frame - buddy_base)]

free_kpages(k, pages, pageno) ==
  LET frame == k.pt[vaddr(pageno)]
      k1 == unmap(k, pageno, pages)
      r  == IF must_refill(k1) THEN refill(k1) ELSE k1
      k2 == vm_return_pages(k1, r, pages, pageno)
  IN  IF Running(k2) THEN pmm_free(k2, pages, frame) ELSE k2
-----------------------------------------------------------------------------
\* kernel_panic never returns: what the call had done so far is not read again.
halt(k) ==
  kernel' = [kernel EXCEPT !.status = k.status] /\ UNCHANGED <<held, internal, gfx_fb_size>>

vm_alloc_kpages(n) ==
  /\ Running(kernel)
  /\ LET k == alloc_kpages(kernel, n) IN
     \/ /\ Running(k)
        /\ kernel' = k
        /\ held' = held \cup {[pageno |-> reserved_pageno(kernel, n), pages |-> n]}
        /\ UNCHANGED <<internal, gfx_fb_size>>
     \/ ~ Running(k) /\ halt(k)

vm_free_kpages(h) ==
  /\ Running(kernel)
  /\ LET k == free_kpages(kernel, h.pages, h.pageno) IN
     \/ /\ Running(k)
        /\ kernel' = k
        /\ held' = held \ {h}
        /\ internal' = internal \cup
             (IF must_refill(kernel) THEN {reserved_pageno(kernel, 1)} ELSE {})
        /\ UNCHANGED gfx_fb_size
     \/ ~ Running(k) /\ halt(k)

(***************************************************************************)
(* gfx_init with a graphics mode: vm_dma maps the whole pages of the frame *)
(* buffer at the end of the managed range, and the memset that follows     *)
(* touches every page the buffer reaches into.  kernel_main calls it once, *)
(* before anything is allocated.                                           *)
(***************************************************************************)
gfx_framebuffer == ManagedEnd

vm_dma(k, frame, page, size) ==
  [k EXCEPT !.pt = [p \in KernelPages |->
     IF p \in Run(page, size \div PAGE_SIZE) THEN frame + (p - page) ELSE @[p]]]

gfx_init(size) ==
  /\ Running(kernel) /\ kernel = vm_init
  /\ LET k       == vm_dma(kernel, FbAddr, gfx_framebuffer, size)
         touched == Run(gfx_framebuffer, (size + PAGE_SIZE - 1) \div PAGE_SIZE)
     IN
     \/ /\ \A p \in touched : k.pt[p] # NotPresent
        /\ kernel' = k
        /\ gfx_fb_size' = size
        /\ UNCHANGED <<held, internal>>
     \/ /\ \E p \in touched : k.pt[p] = NotPresent
        /\ halt(PANIC(k, "Page Fault"))

(***************************************************************************)
(* External: whoever holds a run writes to it, at any time.  Like the      *)
(* memset, that overwrites a list node that lies in one of its frames.     *)
(***************************************************************************)
write(h) ==
  /\ Running(kernel)
  /\ kernel' = fill(kernel, h.pageno, h.pages)
  /\ UNCHANGED <<held, internal, gfx_fb_size>>

\* The halted kernel.
hang == ~ Running(kernel) /\ UNCHANGED vars

Next ==
  \/ \E n \in Requests : vm_alloc_kpages(n)
  \/ \E h \in held : vm_free_kpages(h) \/ write(h)
  \/ \E size \in FbSizes : gfx_init(size)
  \/ hang

Spec == Init /\ [][Next]_vars
-----------------------------------------------------------------------------
(***************************************************************************)
(* Three things that the code lets happen put an end to what can be said   *)
(* of it: nothing stops a reservation at managed_end, the list nodes below *)
(* KERNEL_BOOT_MAPPED lie in frames that pmm.c hands out as well, and the  *)
(* frames of a run were allocated one by one but are freed as one block.   *)
(* Each is named here at the step where the damage is done, from the state *)
(* before it.                                                              *)
(***************************************************************************)
\* The next run of n pages ends behind managed_end.
RunsOver(k, n) == bucket_for(k, n) # NULL /\ reserved_pageno(k, n) + n > ManagedEnd

\* The memset over the next run of n pages changes a list node.
Overwrites(k, n) == alloc_kpages(k, n).node # vm_reserve_pages(k, n).node

\* The frames of a run are not one block of the buddies, the only thing that
\* pmm_free can give back.
RunFrames(h) == {kernel.pt[vaddr(p)] - buddy_base : p \in Run(h.pageno, h.pages)}
Strays(h) ==
  ~ \E l \in Levels : \E s \in Frames :
      s % Capacity[l] = 0 /\ h.pages = Capacity[l] /\ RunFrames(h) = FramesOf(l, s)

SoundAlloc(k, n) == ~ RunsOver(k, n) /\ ~ Overwrites(k, n)
SoundFree(h) ==
  LET k1 == unmap(kernel, h.pageno, h.pages)
  IN  ~ Strays(h) /\ (must_refill(k1) => SoundAlloc(k1, 1))

(***************************************************************************)
(* The kernel as far as none of the three has happened.  It stops where    *)
(* every call left would make one of them happen.                          *)
(***************************************************************************)
SoundNext ==
  \/ \E n \in Requests : SoundAlloc(kernel, n) /\ vm_alloc_kpages(n)
  \/ \E h \in held : SoundFree(h) /\ vm_free_kpages(h)
  \/ \E h \in held : write(h) /\ kernel'.node = kernel.node
  \/ \E size \in FbSizes : gfx_init(size)
  \/ hang

SoundSpec == Init /\ [][SoundNext]_vars
-----------------------------------------------------------------------------
\* The running kernel, and the reasons it can stop for here.
VmStatuses ==
  Statuses \cup {"Out of physical memory", "Not implemented",
                 "Cannot free stolen pages", "Page Fault"}

TypeOK ==
  /\ kernel.status \in VmStatuses
  /\ kernel.pt \in [KernelPages -> {NotPresent} \cup Nat]
  /\ kernel.buddies \in [Levels -> SUBSET Frames]
  /\ \A h \in held : h.pageno \in Nat /\ h.pages \in Requests
  /\ internal \subseteq Nat
  /\ gfx_fb_size \in {0} \cup FbSizes

\* The pages in use above the boot mapping, and the frames the buddies offer.
UsedPages  == {vaddr(p) : p \in internal \cup UNION {Run(h.pageno, h.pages) : h \in held}}
Offered    == UNION {UNION {FramesOf(l, s) : s \in kernel.buddies[l]} : l \in Levels}
FrameUnder(p) == kernel.pt[p] - buddy_base

(***************************************************************************)
(* A frame has one owner: two pages in use are mapped to different frames, *)
(* and no frame under a page in use is offered by the buddies again.  It   *)
(* takes reservation, mapping, unmapping and pmm_free to agree on which    *)
(* frames belong to a run.  It holds in SoundSpec: a free of frames that   *)
(* are no block breaks it (in Spec).                                       *)
(***************************************************************************)
FramesExclusive ==
  \A p \in UsedPages :
    /\ kernel.pt[p] # NotPresent
    /\ FrameUnder(p) \notin Offered
    /\ \A q \in UsedPages : kernel.pt[p] = kernel.pt[q] => p = q

(***************************************************************************)
(* No frame leaks: a managed frame that the buddies do not offer is under  *)
(* a page in use.  It holds in SoundSpec: log2 rounds down, so that of a   *)
(* run of three pages pmm_free gives back two, and of one that is not      *)
(* aligned it gives back a wrong block.                                    *)
(***************************************************************************)
NoFrameLeaks == \A f \in Frames \ Offered : \E p \in UsedPages : FrameUnder(p) = f

(***************************************************************************)
(* Behind the boot mapping, the pages in use and the frame buffer are      *)
(* mapped and nothing else is: vm_free_kpages unmaps what it returns, and  *)
(* however pages come and go, the frame buffer that vm_dma mapped without  *)
(* reserving its pages keeps the frames of the adapter, as gfx_apply needs *)
(* them for every picture.                                                 *)
(***************************************************************************)
MappedAsOwned ==
  Running(kernel) =>
    LET buffer == Run(gfx_framebuffer, gfx_fb_size \div PAGE_SIZE) IN
    /\ \A p \in KernelPages : p >= BootMapped =>
         (kernel.pt[p] # NotPresent <=> p \in UsedPages \cup buffer)
    /\ \A p \in buffer : kernel.pt[p] = FbAddr + (p - gfx_framebuffer)

(***************************************************************************)
(* The memory of list nodes is nobody else's: no bucket lies in a frame    *)
(* that the buddies offer or that a caller's page is mapped to.  pmm_free  *)
(* calls pages below buddy_base "stolen".                                  *)
(***************************************************************************)
NodesOwnTheirFrames ==
  \A a \in DOMAIN kernel.node \ {first_bucket} :
    LET f == frame_of_node(kernel, a)
    IN  /\ f - buddy_base \notin Offered
        /\ \A p \in UsedPages \ {vaddr(a \div ItemsPerPage)} : kernel.pt[p] # f

(***************************************************************************)
(* The same of the nodes in pages that vm_kernel_stealmem has allocated,   *)
(* which is where they come from once the area below KERNEL_BOOT_MAPPED is *)
(* used up: such a page is never given back, and its frame stays its own.  *)
(***************************************************************************)
KeptNodesOwnTheirFrames ==
  \A a \in DOMAIN kernel.node : a >= BootMapped * ItemsPerPage =>
    LET page == vaddr(a \div ItemsPerPage)
    IN  /\ a \div ItemsPerPage \in internal
        /\ FrameUnder(page) \in Frames \ Offered
        /\ \A p \in UsedPages \ {page} : kernel.pt[p] # kernel.pt[page]

(***************************************************************************)
(* A free stops the kernel only when the bucket it must record needs a new *)
(* node and there is no frame left to put it in, or at the assertion of    *)
(* ll_pop_item.                                                            *)
(***************************************************************************)
FreeFailsOnlyForWantOfANode ==
  [][\A h \in held :
       ~ Running(kernel') /\ SoundFree(h) /\ vm_free_kpages(h) =>
         \/ must_refill(kernel) /\ ~ can_alloc(kernel.buddies, 1)
         \/ kernel'.status = "ASSERT(item->prev == NULL)"]_vars

=============================================================================
