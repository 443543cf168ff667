------------------------------ MODULE VmProofs ------------------------------
(***************************************************************************)
(* The kernel memory of Vm before one of the three faults that SoundSpec   *)
(* stops at: bucket lists, page tables and buddies agree on what is in     *)
(* use, for every size of the address space, of memory and of the frame    *)
(* buffer, and for requests of any number of pages.                        *)
(*                                                                         *)
(* The argument is an account of the frames.  At every point of a call     *)
(* each managed frame is offered by the buddies, or under one page that is *)
(* mapped, or given up by the free that is under way, and it is only one   *)
(* of these (Backing).  vm_alloc_kpages moves one frame per round from the *)
(* first to the second, unmapping moves those of a run to the third, and   *)
(* pmm_free returns them, provided they are one block.  The pages are      *)
(* accounted for in the same way: free in a bucket, or in use (Listed).    *)
(*                                                                         *)
(* The lemmas go from the frames over one allocation (alloc_kpages) and    *)
(* one free (unmap, vm_return_pages with the page it may take for list     *)
(* nodes, pmm_free) to the actions of Vm.                                  *)
(***************************************************************************)
EXTENDS Vm, OperatorProofs

\* Most leaves are first-order and Zenon's; the arithmetic ones name SMT, twice
\* because tlapm may give up the first translation.
USE ZenonT(20), SMTT(20), SMTT(30)

-----------------------------------------------------------------------------
(* Pages. *)

\* The pages from KERNEL_BOOT_MAPPED to managed_end.
Area == BootMapped..(ManagedEnd - 1)

\* The sizes as numbers.
LEMMA Sizes ==
  /\ {BootMapped, ManagedEnd, PageSpace, KernelOffset, NFrames, FbAddr} \subseteq Nat
  /\ KernelOffset < BootMapped /\ BootMapped < ManagedEnd /\ ManagedEnd <= PageSpace
  /\ 2 * (ManagedEnd - BootMapped) < PageSpace
  /\ ItemsPerPage \in Nat \ {0} /\ PAGE_SIZE \in Nat \ {0}
  /\ buddy_base \in Nat
<1>1. /\ {BootMapped, ManagedEnd, PageSpace, KernelOffset, NFrames, FbAddr, StealPages} \subseteq Nat
      /\ BootMapped < ManagedEnd /\ ManagedEnd <= PageSpace
      /\ 2 * (ManagedEnd - BootMapped) < PageSpace
      /\ ItemsPerPage \in Nat \ {0} /\ PAGE_SIZE \in Nat \ {0}
      /\ KernelOffset < BootMapped - StealPages
  BY BucketsAssumption, BuddiesAssumption, VmAssumption
<1>2. KernelOffset < BootMapped /\ buddy_base \in Nat
  BY <1>1, SMTT(20), SMTT(30) DEF buddy_base, virtual2phys
<1> QED  BY <1>1, <1>2

\* The first bucket reaches from KERNEL_BOOT_MAPPED beyond managed_end.
LEMMA BucketReaches ==
  /\ first_bucket_size \in Nat /\ ManagedEnd < BootMapped + first_bucket_size
<1>1. /\ BootMapped \in Nat /\ ManagedEnd \in Nat /\ PageSpace \in Nat /\ 0 < BootMapped
      /\ BootMapped < ManagedEnd /\ ManagedEnd <= PageSpace
  BY BucketsAssumption, SMTT(20), SMTT(30)
<1>2. (BootMapped - ManagedEnd) % PageSpace = BootMapped - ManagedEnd + PageSpace
  BY <1>1, SMTT(20), SMTT(30)
<1>3. first_bucket_size = BootMapped - ManagedEnd + PageSpace
  BY <1>2 DEF first_bucket_size
<1> QED  BY <1>3, Sizes, SMTT(20), SMTT(30)

\* A page of the area is a page of the kernel's half below the frame buffer.
LEMMA AreaPage ==
  ASSUME NEW p \in Area
  PROVE  /\ p \in Nat /\ p \in KernelPages /\ BootMapped <= p /\ p < gfx_framebuffer
         /\ vaddr(p) = p
         /\ p \in Run(BootMapped, first_bucket_size)
<1>1. p \in Nat /\ BootMapped <= p /\ p < ManagedEnd
  BY Sizes, SMTT(20), SMTT(30) DEF Area
<1>2. vaddr(p) = p
  BY <1>1, Sizes, SMTT(20), SMTT(30) DEF vaddr
<1>3. p \in KernelPages
  BY <1>1, Sizes, SMTT(20), SMTT(30) DEF KernelPages
<1>4. p \in Run(BootMapped, first_bucket_size)
  BY <1>1, Sizes, BucketReaches, SMTT(20), SMTT(30) DEF Run
<1> QED  BY <1>1, <1>2, <1>3, <1>4 DEF gfx_framebuffer

\* The page at managed_end is in no run of the area and behind all of them.
LEMMA PageBehind ==
  /\ ManagedEnd \in Run(BootMapped, first_bucket_size) \ Area
  /\ \A p \in Area : ~ (ManagedEnd < p)
<1>1. ManagedEnd \in Run(BootMapped, first_bucket_size)
  BY Sizes, BucketReaches, SMTT(20), SMTT(30) DEF Run
<1>2. ManagedEnd \notin Area /\ \A p \in Area : ~ (ManagedEnd < p)
  BY Sizes, SMTT(20), SMTT(30) DEF Area
<1> QED  BY <1>1, <1>2

\* Division leaves a remainder below the divisor.
LEMMA DivMod ==
  ASSUME NEW a \in Nat, NEW b \in Nat \ {0}
  PROVE  /\ a \div b \in Nat /\ a % b \in Nat /\ a % b < b
         /\ a = b * (a \div b) + (a % b)
<1>1. b \in Nat /\ b > 0
  BY SMTT(20), SMTT(30)
<1>2. a \div b \in Nat /\ a % b \in Nat /\ a % b < b
  BY <1>1, SMTT(20), SMTT(30)
<1>3. a = b * (a \div b) + (a % b)
  BY <1>1, SMTT(20), SMTT(30)
<1> QED  BY <1>2, <1>3

\* A bound on a quotient.
LEMMA QuotientAtMost ==
  ASSUME NEW a \in Nat, NEW b \in Nat \ {0}, NEW n \in Nat, a < b * n + b
  PROVE  a \div b <= n
<1> DEFINE q == a \div b
           r == a % b
<1>1. q \in Nat /\ r \in Nat /\ a = b * q + r /\ b \in Nat
  BY DivMod
<1> HIDE DEF q, r
<1>2. ASSUME n < q PROVE FALSE
  <2>1. PICK z \in Nat : q = n + 1 + z
    <3>1. q - n - 1 \in Nat /\ q = n + 1 + (q - n - 1)
      BY <1>1, <1>2, SMTT(20), SMTT(30)
    <3> QED  BY <3>1
  <2>2. b * q = b * n + b + b * z /\ b * z \in Nat /\ b * n \in Nat
    BY <2>1, <1>1, SMTT(20), SMTT(30)
  <2> QED  BY <2>2, <1>1, SMTT(20), SMTT(30)
<1> QED  BY <1>1, <1>2, SMTT(20), SMTT(30) DEF q

\* The frame buffer lies behind the area, in the kernel's half.
Buffer(fb) == Run(gfx_framebuffer, fb \div PAGE_SIZE)

\* Its pages and those it only reaches into are below the end of the address
\* space.
LEMMA BufferPages ==
  ASSUME NEW fb \in {0} \cup FbSizes
  PROVE  /\ fb \in Nat /\ fb \div PAGE_SIZE \in Nat
         /\ gfx_framebuffer + (fb + PAGE_SIZE - 1) \div PAGE_SIZE <= PageSpace
         /\ fb \div PAGE_SIZE <= (fb + PAGE_SIZE - 1) \div PAGE_SIZE
         /\ \A p \in Buffer(fb) : /\ p \in Nat /\ p \in KernelPages /\ BootMapped <= p
                                  /\ gfx_framebuffer <= p /\ p \notin Area
                                  /\ FbAddr + (p - gfx_framebuffer) \in Nat
                                  /\ FbAddr + (p - gfx_framebuffer) # NotPresent
<1> DEFINE N == PageSpace - ManagedEnd
           P == PAGE_SIZE
           c == (fb + P - 1) \div P
<1>1. N \in Nat /\ P \in Nat \ {0}
  BY Sizes, SMTT(20), SMTT(30)
<1>2. fb \in Nat /\ fb <= P * N
  <2>1. P * N \in Nat
    BY <1>1, SMTT(20), SMTT(30)
  <2>2. FbSizes \subseteq 1..(P * N)
    BY VmAssumption
  <2> HIDE DEF N, P
  <2> QED  BY <2>1, <2>2, SMTT(20), SMTT(30)
<1> HIDE DEF N, P
<1>3. fb + P - 1 \in Nat /\ fb \div P \in Nat /\ c \in Nat
  BY <1>1, <1>2, DivMod, SMTT(20), SMTT(30)
<1>4. fb \div P <= c /\ c <= N
  <2>1. P * N \in Nat /\ fb + P - 1 < P * N + P
    BY <1>1, <1>2, SMTT(20), SMTT(30)
  <2>2. c <= N
    BY <2>1, <1>1, <1>3, QuotientAtMost
  <2>3. P * c \in Nat
    BY <1>1, <1>3, SMTT(20), SMTT(30)
  <2>4. fb < P * c + P
    <3> DEFINE m == fb + P - 1
               q == m % P
               x == P * c
    <3>1. m \in Nat /\ c = m \div P /\ x \in Nat
      BY <1>3, <2>3
    <3> HIDE DEF m, c
    <3>2. m = x + q /\ q \in Nat /\ q < P
      BY <3>1, <1>1, DivMod
    <3> HIDE DEF q, x
    <3>3. fb < x + P
      BY <3>1, <3>2, <1>1, <1>2, SMTT(20), SMTT(30) DEF m
    <3> QED  BY <3>3 DEF x
  <2>6. fb \div P <= c
    BY <2>4, <1>1, <1>2, <1>3, QuotientAtMost
  <2> QED  BY <2>2, <2>6
<1> HIDE DEF c
<1>5. ManagedEnd + c <= PageSpace
  BY <1>1, <1>3, <1>4, Sizes, SMTT(20), SMTT(30) DEF N
<1>6. ASSUME NEW p \in Buffer(fb)
      PROVE  /\ p \in Nat /\ p \in KernelPages /\ BootMapped <= p
             /\ gfx_framebuffer <= p /\ p \notin Area
             /\ FbAddr + (p - gfx_framebuffer) \in Nat
             /\ FbAddr + (p - gfx_framebuffer) # NotPresent
  <2> DEFINE d == fb \div P
  <2>1. d \in Nat /\ d <= c
    BY <1>3, <1>4
  <2>2. p \in ManagedEnd..(ManagedEnd + d - 1)
    BY DEF Buffer, Run, gfx_framebuffer, P
  <2> HIDE DEF d
  <2> QED  BY <2>1, <2>2, <1>3, <1>5, Sizes, SMTT(20), SMTT(30)
           DEF gfx_framebuffer, KernelPages, Area, Run, NotPresent
<1> QED  BY <1>2, <1>3, <1>4, <1>5, <1>6 DEF gfx_framebuffer, P, c
\* A slot is in the page that its address divided by the slots of a page gives.
LEMMA PageOfSlot ==
  ASSUME NEW a \in Nat, NEW p \in Nat, SlotOf(a, p)
  PROVE  a \div ItemsPerPage = p
<1> DEFINE q == a \div ItemsPerPage
           r == a % ItemsPerPage
<1>1. ItemsPerPage \in Nat \ {0}
  BY BucketsAssumption
<1>2. q \in Nat /\ r \in Nat /\ r < ItemsPerPage /\ a = ItemsPerPage * q + r
  BY <1>1, DivMod
<1> HIDE DEF q, r
<1>3. /\ ItemsPerPage * q = q * ItemsPerPage /\ q * ItemsPerPage \in Nat
      /\ p * ItemsPerPage \in Nat /\ ItemsPerPage \in Nat
  BY <1>1, <1>2, SMTT(20), SMTT(30)
<1>4. ~ (q < p)
  <2>1. ASSUME q < p PROVE q * ItemsPerPage + ItemsPerPage <= p * ItemsPerPage
    BY <2>1, <1>2, PagesApart
  <2> QED  BY <2>1, <1>2, <1>3, SMTT(20), SMTT(30) DEF SlotOf
<1>5. ~ (p < q)
  <2>1. ASSUME p < q PROVE p * ItemsPerPage + ItemsPerPage <= q * ItemsPerPage
    BY <2>1, <1>2, PagesApart
  <2> QED  BY <2>1, <1>2, <1>3, SMTT(20), SMTT(30) DEF SlotOf
<1>6. q = p
  BY <1>2, <1>4, <1>5, SMTT(20), SMTT(30)
<1> QED  BY <1>6 DEF q

-----------------------------------------------------------------------------
(* Frames. *)

\* The number of the frame under page p, among the managed ones.
Under(pt, p) == pt[p] - buddy_base

(***************************************************************************)
(* Every managed frame is either offered by the buddies b, or under        *)
(* exactly one of the pages M, or one of X, which a free has unmapped and  *)
(* not yet given back.  Behind the boot mapping only M and the frame       *)
(* buffer are mapped.                                                      *)
(***************************************************************************)
Backing(b, pt, M, X, fb) ==
  /\ Tidy(b)
  /\ pt \in [KernelPages -> {NotPresent} \cup Nat]
  /\ X \subseteq Frames /\ \A f \in X : ~ Offers(b, f)
  /\ \A p \in M : /\ pt[p] \in Nat /\ Under(pt, p) \in Frames \ X
                  /\ ~ Offers(b, Under(pt, p))
  /\ \A p, q \in M : Under(pt, p) = Under(pt, q) => p = q
  /\ \A f \in Frames : Offers(b, f) \/ f \in X \/ \E p \in M : Under(pt, p) = f
  /\ \A p \in Buffer(fb) : pt[p] = FbAddr + (p - gfx_framebuffer)
  /\ \A p \in KernelPages : BootMapped <= p /\ p \notin M /\ p \notin Buffer(fb) => pt[p] = NotPresent

\* Mapping a new page to the frame that pmm_alloc hands out.
LEMMA BackOne ==
  ASSUME Counting, NEW b, NEW pt, NEW M, NEW X, NEW fb \in {0} \cup FbSizes,
         M \subseteq Area, Backing(b, pt, M, X, fb), can_alloc(b, 1), NEW p \in Area \ M,
         NEW c, c = after_alloc(b, 1),
         NEW t, t = [pt EXCEPT ![p] = buddy_base + alloc_start(b, 1)]
  PROVE  Backing(c, t, M \cup {p}, X, fb)
<1> DEFINE s == alloc_start(b, 1)
           F == buddy_base + s
<1>1. /\ s \in Frames /\ Offers(b, s) /\ Tidy(c)
      /\ \A f \in Nat : Offers(c, f) <=> Offers(b, f) /\ f # s
  BY AllocTakesOne, SMTT(20), SMTT(30) DEF Backing
<1> HIDE DEF s
<1>2. Frames \subseteq Nat
  BY Sizes, SMTT(20), SMTT(30) DEF Frames
<1>3. F \in Nat /\ F - buddy_base = s
  BY <1>1, <1>2, Sizes, SMTT(20), SMTT(30)
<1> HIDE DEF F
<1>4. /\ pt \in [KernelPages -> {NotPresent} \cup Nat] /\ t = [pt EXCEPT ![p] = F]
      /\ p \in KernelPages /\ M \subseteq KernelPages
  BY AreaPage DEF Backing, F, s
<1>5. /\ t \in [KernelPages -> {NotPresent} \cup Nat]
      /\ t[p] = F /\ \A q \in KernelPages : q # p => t[q] = pt[q]
  BY <1>3, <1>4
<1>6. Under(t, p) = s /\ \A q \in M : t[q] = pt[q] /\ Under(t, q) = Under(pt, q)
  BY <1>3, <1>4, <1>5 DEF Under
<1>7. \A f \in Frames : Offers(c, f) <=> Offers(b, f) /\ f # s
  BY <1>1, <1>2
<1>8. ASSUME NEW f \in X PROVE f \in Frames /\ ~ Offers(c, f) /\ f # s
  BY <1>1, <1>7 DEF Backing
<1>9. ASSUME NEW q \in M
      PROVE  /\ t[q] \in Nat /\ Under(t, q) \in Frames \ X /\ ~ Offers(c, Under(t, q))
             /\ Under(t, q) # s
  BY <1>1, <1>6, <1>7 DEF Backing
<1>10. /\ t[p] \in Nat /\ Under(t, p) \in Frames \ X /\ ~ Offers(c, Under(t, p))
  BY <1>1, <1>3, <1>5, <1>6, <1>7, <1>8
<1>11. ASSUME NEW x \in M \cup {p}, NEW y \in M \cup {p}, Under(t, x) = Under(t, y) PROVE x = y
  <2>1. CASE x \in M /\ y \in M
    BY <1>6, <1>11, <2>1 DEF Backing
  <2>2. CASE x = p \/ y = p
    BY <1>6, <1>9, <1>11, <2>2
  <2> QED  BY <2>1, <2>2
<1>12. ASSUME NEW f \in Frames
       PROVE  Offers(c, f) \/ f \in X \/ \E q \in M \cup {p} : Under(t, q) = f
  BY <1>6, <1>7 DEF Backing
<1>13. ASSUME NEW q \in Buffer(fb) PROVE t[q] = FbAddr + (q - gfx_framebuffer)
  <2>1. q \in KernelPages /\ q # p
    BY BufferPages
  <2> QED  BY <2>1, <1>5 DEF Backing
<1>14. ASSUME NEW q \in KernelPages, BootMapped <= q, q \notin M \cup {p}, q \notin Buffer(fb)
       PROVE  t[q] = NotPresent
  BY <1>5, <1>14 DEF Backing
<1>15. X \subseteq Frames
  BY DEF Backing
<1> QED  BY <1>1, <1>5, <1>8, <1>9, <1>10, <1>11, <1>12, <1>13, <1>14, <1>15 DEF Backing

-----------------------------------------------------------------------------
(* Allocation. *)

\* The statics of vm.c and pmm.c, and the page tables.
VmFields == Fields \cup {"pt", "buddies"}

\* The buckets have all pages of the range but U.
Listed(k, U) ==
  /\ VmFields \subseteq DOMAIN k
  /\ Typed(k) /\ WellKept(k)
  /\ U \subseteq Run(BootMapped, first_bucket_size)
  /\ FreePages(k) = Run(BootMapped, first_bucket_size) \ U

\* What a round of vm_alloc_kpages leaves: the frames of k0 with those of the
\* pages M added and nothing else changed, or a kernel that stopped in round i.
Round(k0, w, i, M, X, fb) ==
  \/ /\ ~ Running(w) /\ w.status = "Out of physical memory"
     /\ can_alloc(k0.buddies, 1) => i > 1
  \/ /\ Running(w) /\ w = [f \in DOMAIN w |-> w[f]]
     /\ SameBut(k0, w, {"pt", "buddies"})
     /\ Backing(w.buddies, w.pt, M, X, fb)

\* One round backs one page.
LEMMA RoundOne ==
  ASSUME Counting, NEW k0, VmFields \subseteq DOMAIN k0,
         NEW k, NEW i \in Nat, i = 0 => k = k0, NEW M, NEW X, NEW fb \in {0} \cup FbSizes,
         M \subseteq Area, Round(k0, k, i, M, X, fb), NEW p \in Area \ M,
         NEW w, w = back_page(k, p)
  PROVE  Round(k0, w, i + 1, M \cup {p}, X, fb)
<1>1. CASE ~ Running(k)
  <2>1. w = k
    BY <1>1 DEF back_page
  <2>2. k.status = "Out of physical memory" /\ (can_alloc(k0.buddies, 1) => i > 1)
    BY <1>1 DEF Round
  <2>3. i > 1 => i + 1 > 1
    BY SMTT(20), SMTT(30)
  <2> QED  BY <1>1, <2>1, <2>2, <2>3 DEF Round
<1>2. CASE Running(k)
  <2>1. /\ k = [f \in DOMAIN k |-> k[f]] /\ SameBut(k0, k, {"pt", "buddies"})
        /\ Backing(k.buddies, k.pt, M, X, fb) /\ DOMAIN k = DOMAIN k0
        /\ {"pt", "buddies", "status"} \subseteq DOMAIN k
    BY <1>2 DEF Round, SameBut, VmFields, Fields
  <2>2. CASE ~ can_alloc(k.buddies, 1)
    <3>1. w = [k EXCEPT !.status = "Out of physical memory"]
      BY <1>2, <2>2 DEF back_page, PANIC
    <3>2. w.status = "Out of physical memory"
      BY <2>1, <3>1
    <3>3. ~ Running(w)
      BY <3>2 DEF Running
    <3>4. can_alloc(k0.buddies, 1) => i # 0
      BY <2>2
    <3>5. i # 0 => i + 1 > 1
      BY SMTT(20), SMTT(30)
    <3> QED  BY <3>2, <3>3, <3>4, <3>5 DEF Round
  <2>3. CASE can_alloc(k.buddies, 1)
    <3> DEFINE c == after_alloc(k.buddies, 1)
               F == buddy_base + alloc_start(k.buddies, 1)
               t == [k.pt EXCEPT ![p] = F]
    <3>1. p \in KernelPages /\ vaddr(p) = p
      BY AreaPage
    <3>2. w = [[k EXCEPT !.buddies = c] EXCEPT !.pt[p] = F]
      BY <1>2, <2>3, <3>1 DEF back_page, vm_map_page
    <3>3. Backing(c, t, M \cup {p}, X, fb)
      BY <2>1, <2>3, BackOne
    <3> HIDE DEF c, F
    <3>4. /\ w = [f \in DOMAIN w |-> w[f]] /\ DOMAIN w = DOMAIN k /\ w.buddies = c /\ w.pt = t
          /\ \A f \in DOMAIN k : f # "pt" /\ f # "buddies" => w[f] = k[f]
      BY <2>1, <3>2, ZenonT(20)
    <3> HIDE DEF t
    <3>5. Running(w)
      BY <1>2, <2>1, <3>4 DEF Running
    <3>6. SameBut(k0, w, {"pt", "buddies"})
      BY <2>1, <3>4 DEF SameBut
    <3> QED  BY <3>3, <3>4, <3>5, <3>6 DEF Round
  <2> QED  BY <2>2, <2>3
<1> QED  BY <1>1, <1>2

\* f is what the loop of vm_alloc_kpages leaves after each of n rounds.
Rounds(f, k0, p, n) == f = [i \in 0..n |-> IF i = 0 THEN k0 ELSE back_page(f[i - 1], p + i - 1)]

\* There is such a function: the least n without one would follow one that has.
LEMMA RoundsExist ==
  ASSUME Counting, NEW k0, NEW p, NEW n \in Nat
  PROVE  \E f : Rounds(f, k0, p, n)
<1> DEFINE T == {m \in Nat : ~ \E f : Rounds(f, k0, p, m)}
<1> SUFFICES ASSUME T # {} PROVE FALSE
  OBVIOUS
<1>1. PICK x \in T : \A y \in T : x <= y
  BY LeastNat
<1>2. x \in Nat /\ ~ \E f : Rounds(f, k0, p, x)
  BY <1>1
<1>3. CASE x = 0
  <2> DEFINE g == [i \in 0..0 |-> k0]
  <2>1. \A i \in 0..0 : i = 0
    BY SMTT(20), SMTT(30)
  <2>2. g = [i \in 0..0 |-> IF i = 0 THEN k0 ELSE back_page(g[i - 1], p + i - 1)]
    BY <2>1
  <2>3. Rounds(g, k0, p, 0)
    BY <2>2 DEF Rounds
  <2> QED  BY <1>2, <1>3, <2>3
<1>4. CASE x # 0
  <2> DEFINE m == x - 1
  <2>1. m \in Nat /\ ~ (x <= m)
    BY <1>2, <1>4, SMTT(20), SMTT(30)
  <2>2. m \notin T
    BY <1>1, <2>1
  <2>3. PICK f : Rounds(f, k0, p, m)
    BY <2>1, <2>2
  <2> DEFINE g == [i \in 0..x |-> IF i = x THEN back_page(f[m], p + i - 1) ELSE f[i]]
  <2>4. ASSUME NEW i \in 0..x
        PROVE  g[i] = IF i = 0 THEN k0 ELSE back_page(g[i - 1], p + i - 1)
    <3>1. CASE i = x
      <4>1. i # 0 /\ i - 1 = m /\ m \in 0..x /\ m # x
        BY <1>2, <1>4, <3>1, SMTT(20), SMTT(30)
      <4>2. g[i] = back_page(f[m], p + i - 1) /\ g[m] = f[m]
        BY <3>1, <4>1
      <4> QED  BY <4>1, <4>2
    <3>2. CASE i # x
      <4>1. i \in 0..m /\ (i # 0 => i - 1 \in 0..x /\ i - 1 # x)
        BY <1>2, <3>2, SMTT(20), SMTT(30)
      <4>2. f[i] = IF i = 0 THEN k0 ELSE back_page(f[i - 1], p + i - 1)
        <5> HIDE DEF m
        <5> QED  BY <2>3, <4>1 DEF Rounds
      <4>3. g[i] = f[i] /\ (i # 0 => g[i - 1] = f[i - 1])
        BY <3>2, <4>1
      <4> HIDE DEF g
      <4> QED  BY <4>2, <4>3
    <3> QED  BY <3>1, <3>2
  <2>5. g = [i \in 0..x |-> g[i]]
    OBVIOUS
  <2> HIDE DEF g
  <2>6. Rounds(g, k0, p, x)
    BY <2>4, <2>5 DEF Rounds
  <2> QED  BY <1>2, <2>6
<1> QED  BY <1>3, <1>4

\* The rounds back the pages of the run one after the other.
LEMMA RoundsKeep ==
  ASSUME Counting, NEW k0, VmFields \subseteq DOMAIN k0, k0 = [f \in DOMAIN k0 |-> k0[f]],
         Running(k0), NEW M, NEW X, NEW fb \in {0} \cup FbSizes, M \subseteq Area,
         Backing(k0.buddies, k0.pt, M, X, fb),
         NEW p \in Nat, NEW n \in Nat, Run(p, n) \subseteq Area \ M,
         NEW f, Rounds(f, k0, p, n)
  PROVE  Round(k0, f[n], n, M \cup Run(p, n), X, fb)
<1> DEFINE T == {i \in 0..n : ~ Round(k0, f[i], i, M \cup Run(p, i), X, fb)}
<1>0. \A i \in 0..n : i \in Nat /\ f[i] = IF i = 0 THEN k0 ELSE back_page(f[i - 1], p + i - 1)
  <2>1. \A i \in 0..n : i \in Nat
    BY SMTT(20), SMTT(30)
  <2> QED  BY <2>1 DEF Rounds
<1>1. T = {}
  <2> SUFFICES ASSUME T # {} PROVE FALSE
    OBVIOUS
  <2>1. T \subseteq Nat
    BY <1>0
  <2>2. PICK x \in T : \A y \in T : x <= y
    BY <2>1, LeastNat
  <2>3. x \in 0..n /\ x \in Nat /\ ~ Round(k0, f[x], x, M \cup Run(p, x), X, fb)
    BY <1>0, <2>2
  <2>4. CASE x = 0
    <3>1. M \cup Run(p, 0) = M
      <4>1. Run(p, 0) = {}
        BY SMTT(20), SMTT(30) DEF Run
      <4> QED  BY <4>1
    <3>2. f[0] = k0
      BY <1>0, <2>3, <2>4
    <3>3. SameBut(k0, k0, {"pt", "buddies"})
      BY DEF SameBut
    <3> QED  BY <2>3, <2>4, <3>1, <3>2, <3>3 DEF Round
  <2>5. CASE x # 0
    <3> DEFINE m == x - 1
               q == p + x - 1
    <3>1. m \in 0..n /\ m \in Nat /\ ~ (x <= m) /\ m + 1 = x /\ q = p + m
      BY <2>3, <2>5, SMTT(20), SMTT(30)
    <3> HIDE DEF T
    <3>2. m \notin T
      BY <2>2, <3>1
    <3>3. Round(k0, f[m], m, M \cup Run(p, m), X, fb)
      BY <3>1, <3>2 DEF T
    <3>4. f[x] = back_page(f[m], q) /\ f[0] = k0
      <4>1. 0 \in 0..n
        BY SMTT(20), SMTT(30)
      <4> QED  BY <1>0, <2>3, <2>5, <4>1
    <3>5. /\ q \in Run(p, n) /\ q \notin Run(p, m) /\ Run(p, m) \subseteq Run(p, n)
          /\ Run(p, x) = Run(p, m) \cup {q}
      BY <2>3, <2>5, SMTT(20), SMTT(30) DEF Run
    <3> HIDE DEF m, q
    <3>6. /\ M \cup Run(p, m) \subseteq Area /\ q \in Area \ (M \cup Run(p, m))
          /\ (M \cup Run(p, m)) \cup {q} = M \cup Run(p, x)
      BY <3>5
    <3>7. m = 0 => f[m] = k0
      BY <3>4
    <3> DEFINE N == M \cup Run(p, m)
    <3>8. N \subseteq Area /\ q \in Area \ N /\ Round(k0, f[m], m, N, X, fb)
      BY <3>3, <3>6
    <3> HIDE DEF N
    <3>9. Round(k0, f[x], m + 1, N \cup {q}, X, fb)
      BY <3>1, <3>4, <3>7, <3>8, RoundOne
    <3> QED  BY <2>3, <3>1, <3>6, <3>9 DEF N
  <2> QED  BY <2>4, <2>5
<1>2. n \in 0..n
  BY SMTT(20), SMTT(30)
<1> QED  BY <1>1, <1>2

\* The rounds of a kernel that has stopped do nothing.
LEMMA RoundsOfHalted ==
  ASSUME Counting, NEW k0, ~ Running(k0), NEW p, NEW n \in Nat, NEW f, Rounds(f, k0, p, n)
  PROVE  f[n] = k0
<1> DEFINE T == {i \in 0..n : f[i] # k0}
<1>0. \A i \in 0..n : i \in Nat /\ f[i] = IF i = 0 THEN k0 ELSE back_page(f[i - 1], p + i - 1)
  <2>1. \A i \in 0..n : i \in Nat
    BY SMTT(20), SMTT(30)
  <2> QED  BY <2>1 DEF Rounds
<1>1. T = {}
  <2> SUFFICES ASSUME T # {} PROVE FALSE
    OBVIOUS
  <2>1. T \subseteq Nat
    BY <1>0
  <2>2. PICK x \in T : \A y \in T : x <= y
    BY <2>1, LeastNat
  <2>3. x \in 0..n /\ x \in Nat /\ f[x] # k0
    BY <1>0, <2>2
  <2>4. x # 0
    BY <1>0, <2>3
  <2>5. x - 1 \in 0..n /\ ~ (x <= x - 1)
    BY <2>3, <2>4, SMTT(20), SMTT(30)
  <2>6. f[x - 1] = k0
    BY <2>2, <2>5
  <2>7. f[x] = back_page(k0, p + x - 1)
    BY <1>0, <2>3, <2>4, <2>6
  <2> QED  BY <2>3, <2>7 DEF back_page
<1>2. n \in 0..n
  BY SMTT(20), SMTT(30)
<1> QED  BY <1>1, <1>2

\* vm_alloc_kpages: reserve, back page after page, fill.
LEMMA AllocIs ==
  ASSUME Counting, NEW k, NEW n \in Nat, NEW p, p = reserved_pageno(k, n),
         NEW k0, k0 = vm_reserve_pages(k, n)
  PROVE  \E f : /\ Rounds(f, k0, p, n)
                /\ alloc_kpages(k, n) = IF Running(f[n]) THEN fill(f[n], p, n) ELSE f[n]
<1> DEFINE f == CHOOSE f : Rounds(f, k0, p, n)
<1>1. Rounds(f, k0, p, n)
  BY RoundsExist
<1>2. alloc_kpages(k, n) = IF Running(f[n]) THEN fill(f[n], p, n) ELSE f[n]
  BY SMTT(20), SMTT(30) DEF alloc_kpages, Rounds
<1> HIDE DEF f
<1> QED  BY <1>1, <1>2

\* What a vm_alloc_kpages of n pages that succeeds does: the run at p was not in
\* use, and each of its pages has a frame.
Allocated(k, w, p, n, L, M, X, fb) ==
  /\ p \in Nat /\ Run(p, n) \subseteq Area \ L
  /\ Listed(w, L \cup Run(p, n)) /\ Backing(w.buddies, w.pt, M \cup Run(p, n), X, fb)
  /\ DOMAIN w.node = DOMAIN k.node
  /\ w.status = "running"
  /\ w.steal_next = k.steal_next /\ w.steal_remaining = k.steal_remaining

\* And one that stops the kernel: for a single page, no frame was left.
Refused(k, w, n) ==
  /\ w.status \in {"Out of virtual memory", "Out of physical memory"}
  /\ n = 1 => ~ can_alloc(k.buddies, 1)

\* vm_alloc_kpages, of a run below managed_end and with a memset that spares
\* the list nodes.
LEMMA AllocRun ==
  ASSUME Counting, NEW k, NEW L, NEW M, NEW X, NEW fb \in {0} \cup FbSizes, NEW n \in Nat \ {0},
         L \subseteq Area, M \subseteq L, Running(k), Listed(k, L),
         Backing(k.buddies, k.pt, M, X, fb), SoundAlloc(k, n),
         NEW w, w = alloc_kpages(k, n), NEW p, p = reserved_pageno(k, n)
  PROVE  \/ ~ Running(w) /\ Refused(k, w, n)
         \/ Running(w) /\ Allocated(k, w, p, n, L, M, X, fb)
<1> DEFINE k0 == vm_reserve_pages(k, n)
<1>0. /\ VmFields \subseteq DOMAIN k /\ Typed(k) /\ WellKept(k) /\ n \in Nat
      /\ FreePages(k) = Run(BootMapped, first_bucket_size) \ L
      /\ k.status = "running" /\ "status" \in DOMAIN k
  BY DEF Listed, Running, VmFields, Fields
<1>1. PICK f : /\ Rounds(f, k0, p, n)
               /\ w = IF Running(f[n]) THEN fill(f[n], p, n) ELSE f[n]
  BY <1>0, AllocIs
<1>2. CASE bucket_for(k, n) = NULL
  <2>1. k0 = [k EXCEPT !.status = "Out of virtual memory"]
    BY <1>2 DEF vm_reserve_pages, PANIC
  <2> HIDE DEF k0
  <2>2. k0.status = "Out of virtual memory" /\ ~ Running(k0)
    <3>1. k0.status = "Out of virtual memory"
      BY <1>0, <2>1
    <3> QED  BY <3>1 DEF Running
  <2>3. f[n] = k0
    BY <1>0, <1>1, <2>2, RoundsOfHalted
  <2>4. w = k0
    BY <1>1, <2>2, <2>3
  <2>5. n # 1
    <3>1. ASSUME n = 1 PROVE FALSE
      <4>1. FreePages(k) = {}
        BY <1>0, <1>2, <3>1, ReserveFirst
      <4> QED  BY <4>1, <1>0, PageBehind
    <3> QED  BY <3>1
  <2> QED  BY <2>2, <2>4, <2>5 DEF Refused
<1>3. CASE bucket_for(k, n) # NULL
  <2>1. Takes(k, k0, p, n) /\ w.node = k0.node
    BY <1>0, <1>3, Reserve DEF SoundAlloc, RunsOver, Overwrites
  <2>2. p + n <= ManagedEnd
    <3>1. ~ (p + n > ManagedEnd) /\ p \in Nat
      BY <1>3, <2>1 DEF SoundAlloc, RunsOver, Takes
    <3> QED  BY <3>1, Sizes, SMTT(20), SMTT(30)
  <2> HIDE DEF k0
  <2>3. /\ Typed(k0) /\ WellKept(k0) /\ DOMAIN k0 = DOMAIN k /\ p \in Nat
        /\ \A x \in DOMAIN k : x \notin {"node", "buckets", "waiting"} => k0[x] = k[x]
        /\ DOMAIN k0.node = DOMAIN k.node
        /\ Run(p, n) \subseteq FreePages(k) /\ FreePages(k0) = FreePages(k) \ Run(p, n)
    BY <2>1 DEF Takes, SameBut
  <2>4. /\ k0.status = "running" /\ Running(k0) /\ k0.buddies = k.buddies /\ k0.pt = k.pt
        /\ k0.steal_next = k.steal_next /\ k0.steal_remaining = k.steal_remaining
        /\ VmFields \subseteq DOMAIN k0 /\ k0 = [x \in DOMAIN k0 |-> k0[x]]
    BY <1>0, <2>3 DEF Running, VmFields, Fields, Typed
  <2>5. Run(p, n) \subseteq Area \ L
    <3>1. Run(p, n) \subseteq Run(BootMapped, first_bucket_size) \ L
      BY <1>0, <2>3
    <3>2. \A x \in Run(p, n) : x \in Nat /\ x < ManagedEnd
      BY <1>0, <2>2, <2>3, Sizes, SMTT(20), SMTT(30) DEF Run
    <3>3. \A x \in Run(BootMapped, first_bucket_size) : BootMapped <= x
      BY Sizes, BucketReaches, SMTT(20), SMTT(30) DEF Run
    <3>4. \A x \in Nat : BootMapped <= x /\ x < ManagedEnd => x \in Area
      BY Sizes, SMTT(20), SMTT(30) DEF Area
    <3> QED  BY <3>1, <3>2, <3>3, <3>4
  <2>6. Round(k0, f[n], n, M \cup Run(p, n), X, fb)
    <3>1. Run(p, n) \subseteq Area \ M /\ M \subseteq Area
      BY <2>5
    <3> QED  BY <1>0, <1>1, <2>3, <2>4, <3>1, RoundsKeep
  <2> DEFINE b == f[n]
  <2>7. CASE ~ Running(b)
    <3>1. w = b /\ b.status = "Out of physical memory" /\ (can_alloc(k.buddies, 1) => n > 1)
      BY <1>1, <2>4, <2>6, <2>7 DEF Round
    <3>2. n > 1 => n # 1
      BY SMTT(20), SMTT(30)
    <3> QED  BY <2>7, <3>1, <3>2 DEF Refused
  <2>8. CASE Running(b)
    <3>1. /\ b = [x \in DOMAIN b |-> b[x]] /\ SameBut(k0, b, {"pt", "buddies"})
          /\ Backing(b.buddies, b.pt, M \cup Run(p, n), X, fb)
      BY <2>6, <2>8 DEF Round
    <3>2. w = fill(b, p, n)
      BY <1>1, <2>8
    <3> HIDE DEF b
    <3>3. PICK g : w = [b EXCEPT !.node = g]
      BY <3>2 DEF fill
    <3>4. /\ DOMAIN b = DOMAIN k0 /\ "node" \in DOMAIN b
          /\ \A x \in DOMAIN k0 : x \notin {"pt", "buddies"} => b[x] = k0[x]
      BY <2>4, <3>1 DEF SameBut, VmFields, Fields
    <3>5. /\ w = [x \in DOMAIN w |-> w[x]] /\ DOMAIN w = DOMAIN k0
          /\ \A x \in DOMAIN k0 : x # "node" => w[x] = b[x]
      BY <3>1, <3>3, <3>4
    <3>6. /\ w.pt = b.pt /\ w.buddies = b.buddies
          /\ w.buckets = k0.buckets /\ w.waiting = k0.waiting
          /\ w.status = "running" /\ Running(w)
          /\ w.steal_next = k.steal_next /\ w.steal_remaining = k.steal_remaining
          /\ VmFields \subseteq DOMAIN w
      BY <2>4, <3>4, <3>5 DEF VmFields, Fields, Running
    <3>7. Relabelled(k0, w)
      BY <2>1, <2>3, <3>5, <3>6, Relabel DEF SameLists
    <3>8. Listed(w, L \cup Run(p, n))
      <4>1. FreePages(w) = Run(BootMapped, first_bucket_size) \ (L \cup Run(p, n))
        BY <1>0, <2>3, <3>7 DEF Relabelled
      <4>2. L \cup Run(p, n) \subseteq Run(BootMapped, first_bucket_size)
        BY <1>0, <2>3 DEF Listed
      <4> QED  BY <4>1, <4>2, <3>6, <3>7 DEF Listed, Relabelled
    <3>9. DOMAIN w.node = DOMAIN k.node
      BY <2>1, <2>3
    <3> QED  BY <2>3, <2>5, <3>1, <3>6, <3>8, <3>9 DEF Allocated
  <2> QED  BY <2>7, <2>8 DEF b
<1> QED  BY <1>2, <1>3

-----------------------------------------------------------------------------
(* Freeing. *)

\* A state between two steps of vm_free_kpages: the buckets have all pages but
\* L, the pages M are mapped, the frames X are given up, and the list nodes are
\* below KERNEL_BOOT_MAPPED or in the pages I.
InStep(k, L, M, X, I, fb) ==
  /\ Running(k)
  /\ Listed(k, L) /\ Backing(k.buddies, k.pt, M, X, fb) /\ Stealing(k, I)

\* The walk over the buckets, of a list given by its nodes and its head.
FirstIn(node, head, wanted) ==
  LET at[i \in 0..Cardinality(DOMAIN node)] ==
        IF i = 0 THEN head ELSE IF at[i - 1] = NULL THEN NULL ELSE node[at[i - 1]].next
      hits == {i \in DOMAIN at : at[i] \in wanted}
  IN  IF hits = {} THEN NULL ELSE at[CHOOSE i \in hits : \A j \in hits : i <= j]

\* Which page is reserved depends on the lists alone.
LEMMA SameReservation ==
  ASSUME NEW v, NEW w, SameLists(v, w)
  PROVE  reserved_pageno(w, 1) = reserved_pageno(v, 1)
<1> DEFINE Fit(node) == {a \in DOMAIN node : node[a].size >= 1}
           P(node, head) == node[FirstIn(node, head, Fit(node))].pageno
<1>1. ASSUME NEW u PROVE reserved_pageno(u, 1) = P(u.node, u.buckets)
  BY DEF reserved_pageno, bucket_for, FirstBucket, FirstIn, successor, Fitting
<1>2. reserved_pageno(w, 1) = P(w.node, w.buckets) /\ reserved_pageno(v, 1) = P(v.node, v.buckets)
  BY <1>1
<1> HIDE DEF P
<1> QED  BY <1>2 DEF SameLists

\* The frames under the pages R.
FramesUnder(pt, R) == {Under(pt, q) : q \in R}

\* Unmapping the pages R gives their frames up.
LEMMA UnmapBacking ==
  ASSUME NEW b, NEW pt, NEW M, NEW fb \in {0} \cup FbSizes, M \subseteq Area,
         Backing(b, pt, M, {}, fb), NEW R, R \subseteq M,
         NEW t, t = [p \in KernelPages |-> IF p \in R THEN NotPresent ELSE pt[p]]
  PROVE  Backing(b, t, M \ R, FramesUnder(pt, R), fb)
<1> DEFINE X == FramesUnder(pt, R)
<1>1. /\ t \in [KernelPages -> {NotPresent} \cup Nat]
      /\ \A p \in KernelPages : t[p] = IF p \in R THEN NotPresent ELSE pt[p]
  BY DEF Backing
<1>2. \A p \in M : p \in KernelPages
  BY AreaPage
<1>3. \A p \in M \ R : t[p] = pt[p] /\ Under(t, p) = Under(pt, p)
  BY <1>1, <1>2 DEF Under
<1>4. \A f \in X : \E q \in R : f = Under(pt, q)
  BY DEF FramesUnder
<1>5. \A q \in R : Under(pt, q) \in X
  BY DEF FramesUnder
<1> HIDE DEF X
<1>6. X \subseteq Frames /\ \A f \in X : ~ Offers(b, f)
  BY <1>4 DEF Backing
<1>7. ASSUME NEW p \in M \ R
      PROVE  t[p] \in Nat /\ Under(t, p) \in Frames \ X /\ ~ Offers(b, Under(t, p))
  <2>1. Under(pt, p) \notin X
    <3>1. ASSUME NEW q \in R, Under(pt, p) = Under(pt, q) PROVE FALSE
      BY <3>1 DEF Backing
    <3> QED  BY <3>1, <1>4
  <2> QED  BY <2>1, <1>3 DEF Backing
<1>8. ASSUME NEW p \in M \ R, NEW q \in M \ R, Under(t, p) = Under(t, q) PROVE p = q
  BY <1>3, <1>8 DEF Backing
<1>9. ASSUME NEW f \in Frames PROVE Offers(b, f) \/ f \in X \/ \E p \in M \ R : Under(t, p) = f
  <2>1. Offers(b, f) \/ \E p \in M : Under(pt, p) = f
    BY DEF Backing
  <2>2. ASSUME NEW p \in M, Under(pt, p) = f PROVE f \in X \/ \E q \in M \ R : Under(t, q) = f
    BY <1>3, <1>5, <2>2
  <2> QED  BY <2>1, <2>2
<1>10. ASSUME NEW p \in Buffer(fb) PROVE t[p] = FbAddr + (p - gfx_framebuffer)
  <2>1. p \in KernelPages /\ p \notin R
    BY BufferPages
  <2> QED  BY <2>1, <1>1 DEF Backing
<1>11. ASSUME NEW p \in KernelPages, BootMapped <= p, p \notin M \ R, p \notin Buffer(fb)
       PROVE  t[p] = NotPresent
  <2>1. CASE p \in R
    BY <2>1, <1>1
  <2>2. CASE p \notin R
    BY <2>2, <1>1, <1>11 DEF Backing
  <2> QED  BY <2>1, <2>2
<1>12. Tidy(b)
  BY DEF Backing
<1> QED  BY <1>1, <1>6, <1>7, <1>8, <1>9, <1>10, <1>11, <1>12 DEF Backing, X

\* What unmapping a run leaves.
LEMMA UnmapRun ==
  ASSUME Counting, NEW k, NEW U, NEW I, NEW fb \in {0} \cup FbSizes, U \subseteq Area,
         InStep(k, U, U, {}, I, fb), NEW p, NEW n, NEW R, R = Run(p, n), R \subseteq U,
         NEW w, w = unmap(k, p, n)
  PROVE  /\ InStep(w, U, U \ R, FramesUnder(k.pt, R), I, fb)
         /\ SameLists(k, w) /\ w.steal_remaining = k.steal_remaining /\ w.buddies = k.buddies
<1> DEFINE t == [q \in KernelPages |-> IF q \in R THEN NotPresent ELSE k.pt[q]]
<1>0. /\ VmFields \subseteq DOMAIN k /\ Typed(k) /\ WellKept(k)
      /\ k = [f \in DOMAIN k |-> k[f]]
  BY DEF InStep, Listed, Typed
<1>1. {vaddr(q) : q \in R} = R
  <2>1. \A q \in R : vaddr(q) = q
    BY AreaPage
  <2> QED  BY <2>1
<1>2. w = [k EXCEPT !.pt = t]
  BY <1>1 DEF unmap
<1>3. Backing(k.buddies, t, U \ R, FramesUnder(k.pt, R), fb)
  BY UnmapBacking DEF InStep
<1> HIDE DEF t
<1>4. /\ w = [f \in DOMAIN w |-> w[f]] /\ SameBut(k, w, {"pt"}) /\ w.pt = t
  BY <1>0, <1>2 DEF SameBut, VmFields
<1>5. /\ DOMAIN w = DOMAIN k /\ SameLists(k, w) /\ w.buddies = k.buddies
      /\ w.status = k.status
      /\ w.steal_next = k.steal_next /\ w.steal_remaining = k.steal_remaining
  BY <1>0, <1>4 DEF SameBut, SameLists, VmFields, Fields
<1>6. Relabelled(k, w)
  BY <1>0, <1>4, <1>5, Relabel
<1>7. Listed(w, U) /\ Running(w)
  BY <1>5, <1>6 DEF InStep, Listed, Relabelled, Running
<1>8. Stealing(w, I)
  BY <1>5 DEF InStep, Stealing, SameLists
<1> QED  BY <1>3, <1>4, <1>5, <1>7, <1>8 DEF InStep

\* The node for the run: when there is neither a waiting one nor a slot left,
\* vm_kernel_stealmem allocates the page q first.
NodePage(k, q) == IF must_refill(k) THEN {q} ELSE {}

\* After that there is a slot, in a page that is mapped, or the kernel stopped
\* because no frame was left.
LEMMA RefillOne ==
  ASSUME Counting, NEW k, NEW L, NEW M, NEW X, NEW I, NEW fb \in {0} \cup FbSizes,
         L \subseteq Area, M \subseteq L, I \subseteq L, InStep(k, L, M, X, I, fb),
         must_refill(k), SoundAlloc(k, 1), NEW q, q = reserved_pageno(k, 1), NEW r, r = refill(k)
  PROVE  \/ ~ Running(r) /\ Refused(k, r, 1)
         \/ /\ q \in Area \ L
            /\ InStep(r, L \cup {q}, M \cup {q}, X, I \cup {q}, fb)
            /\ r.steal_remaining > 0
<1> DEFINE t == alloc_kpages(k, 1)
<1>0. 1 \in Nat \ {0}
  BY SMTT(20), SMTT(30)
<1>1. r = IF Running(t) THEN refilled(t, q) ELSE t
  BY DEF refill
<1>2. \/ ~ Running(t) /\ Refused(k, t, 1)
      \/ Running(t) /\ Allocated(k, t, q, 1, L, M, X, fb)
  BY <1>0, AllocRun DEF InStep
<1> HIDE DEF t
<1>3. CASE ~ Running(t)
  BY <1>1, <1>2, <1>3
<1>4. CASE Running(t) /\ Allocated(k, t, q, 1, L, M, X, fb)
  <2>0. q \in Nat /\ Run(q, 1) = {q}
    <3>1. q \in Nat
      BY <1>4 DEF Allocated
    <3> QED  BY <3>1, SMTT(20), SMTT(30) DEF Run
  <2>1. /\ r = refilled(t, q) /\ q \in Area /\ q \notin L
        /\ Listed(t, L \cup {q}) /\ Backing(t.buddies, t.pt, M \cup {q}, X, fb)
        /\ DOMAIN t.node = DOMAIN k.node /\ Typed(t) /\ WellKept(t)
    BY <1>1, <1>4, <2>0 DEF Allocated, Listed
  <2>2. Relabelled(t, r)
    BY <2>1, RefillRelabels
  <2>3. /\ r.steal_next = q * ItemsPerPage /\ r.steal_remaining = ItemsPerPage
        /\ r.node = t.node /\ r.status = t.status
    BY <2>1, RefillFields, SMTT(20), SMTT(30)
  <2>4. /\ DOMAIN r = DOMAIN t /\ r.pt = t.pt /\ r.buddies = t.buddies
    BY <2>1 DEF refilled, Listed, VmFields, Typed
  <2>5. /\ Running(r) /\ Listed(r, L \cup {q}) /\ Backing(r.buddies, r.pt, M \cup {q}, X, fb)
    BY <1>4, <2>1, <2>2, <2>3, <2>4 DEF Listed, Relabelled, Running
  <2>6. q \in Nat /\ BootMapped <= q /\ I \subseteq Nat /\ q \notin I /\ DOMAIN k.node \subseteq Nat
    <3>1. I \subseteq Area /\ q \notin I
      BY <2>1
    <3>2. I \subseteq Nat
      BY <3>1, AreaPage
    <3>3. DOMAIN k.node \subseteq Nat
      BY DEF InStep, Listed, Typed
    <3> QED  BY <2>1, <3>1, <3>2, <3>3, AreaPage
  <2>7. Stealing(r, I \cup {q})
    BY <2>1, <2>3, <2>6, RefillSteals DEF InStep
  <2>8. r.steal_remaining > 0
    BY <2>3, BucketsAssumption, SMTT(20), SMTT(30)
  <2> QED  BY <2>1, <2>5, <2>7, <2>8 DEF InStep
<1> QED  BY <1>2, <1>3, <1>4

\* The statics that vm_return_pages leaves alone.
LEMMA ReturnLeaves ==
  ASSUME NEW r, VmFields \subseteq DOMAIN r, NEW w, NEW S,
         S \subseteq {"node", "buckets", "waiting", "steal_next", "steal_remaining"}, SameBut(r, w, S)
  PROVE  /\ VmFields \subseteq DOMAIN w /\ w.pt = r.pt /\ w.buddies = r.buddies
         /\ w.status = r.status
<1>1. "pt" \notin S /\ "buddies" \notin S /\ "status" \notin S
  OBVIOUS
<1> QED  BY <1>1 DEF SameBut, VmFields, Fields

\* The pages outside L are free; giving the run R back makes it part of them.
LEMMA ListedReturned ==
  ASSUME NEW r, NEW L, Listed(r, L), NEW R, R \subseteq L,
         NEW w, VmFields \subseteq DOMAIN w, Typed(w), WellKept(w),
         FreePages(w) = FreePages(r) \cup R
  PROVE  Listed(w, L \ R)
<1>1. FreePages(w) = Run(BootMapped, first_bucket_size) \ (L \ R)
  BY DEF Listed
<1> QED  BY <1>1 DEF Listed

\* How vm_return_pages can stop the kernel.
Fails(k, w) ==
  \/ must_refill(k) /\ Refused(k, w, 1)
  \/ w.status = "ASSERT(item->prev == NULL)"

\* The page at managed_end is always free, so the walk never ends at the end of
\* the list.
LEMMA NotTheLast ==
  ASSUME NEW L, L \subseteq Area, NEW p \in Area
  PROVE  ~ \A x \in Run(BootMapped, first_bucket_size) \ L : x < p
  BY PageBehind

\* The run R is back in the lists and the pages K have become node memory,
\* unless the kernel has stopped.
ReturnKeeps(k, w, R, K, L, M, X, I, fb) ==
  \/ ~ Running(w) /\ Fails(k, w)
  \/ K \cap L = {} /\ K \subseteq Area
     /\ InStep(w, (L \cup K) \ R, M \cup K, X, I \cup K, fb)

\* vm_return_pages puts the run back, into a waiting node, a slot of the steal
\* area or a slot of a page it takes for that; or it stops the kernel.
LEMMA ReturnRun ==
  ASSUME Counting, NEW k, NEW L, NEW M, NEW X, NEW I, NEW fb \in {0} \cup FbSizes,
         L \subseteq Area, M \subseteq L, I \subseteq L, InStep(k, L, M, X, I, fb),
         NEW p \in L, NEW n \in Nat, n > 0, NEW R, R = Run(p, n), R \subseteq L,
         must_refill(k) => SoundAlloc(k, 1),
         NEW r, r = IF must_refill(k) THEN refill(k) ELSE k,
         NEW K, K = NodePage(k, reserved_pageno(k, 1)),
         NEW w, w = vm_return_pages(k, r, n, p)
  PROVE  ReturnKeeps(k, w, R, K, L, M, X, I, fb)
<1> SUFFICES \/ ~ Running(w) /\ Fails(k, w)
             \/ K \cap L = {} /\ K \subseteq Area
                /\ InStep(w, (L \cup K) \ R, M \cup K, X, I \cup K, fb)
  BY DEF ReturnKeeps
<1> DEFINE Q == Run(BootMapped, first_bucket_size)
<1>0. /\ Running(k) /\ VmFields \subseteq DOMAIN k /\ Typed(k) /\ WellKept(k)
      /\ Stealing(k, I)
      /\ FreePages(k) = Q \ L /\ p \in Area /\ p \in Nat
  BY AreaPage DEF InStep, Listed
<1>2. CASE k.waiting # NULL
  <2>1. ~ must_refill(k) /\ K = {}
    BY <1>2 DEF must_refill, NodePage
  <2>2. Returned(k, w, FreePages(k), p, n)
    <3>1. Run(p, n) \cap FreePages(k) = {}
      BY <1>0
    <3> QED  BY <1>0, <1>2, <3>1, ReturnPopped
  <2>3. CASE ~ Running(w)
    <3>1. \/ w.status = "ASSERT(item->prev == NULL)"
          \/ w.status = "ASSERT(olditem)" /\ \A x \in Q \ L : x < p
      BY <1>0, <2>2, <2>3 DEF Returned, Stops
    <3> QED  BY <1>0, <2>3, <3>1, NotTheLast DEF Fails
  <2>4. CASE Running(w)
    <3>1. /\ Typed(w) /\ WellKept(w) /\ SameBut(k, w, {"node", "buckets", "waiting"})
          /\ DOMAIN w.node = DOMAIN k.node /\ FreePages(w) = FreePages(k) \cup R
      BY <2>2, <2>4 DEF Returned
    <3>2. /\ VmFields \subseteq DOMAIN w /\ w.pt = k.pt /\ w.buddies = k.buddies
      BY <1>0, <3>1, ReturnLeaves
    <3>3. w.steal_next = k.steal_next /\ w.steal_remaining = k.steal_remaining
      BY <1>0, <3>1 DEF SameBut, VmFields, Fields
    <3>4. Stealing(w, I)
      BY <1>0, <3>1, <3>3 DEF Stealing
    <3>5. Listed(w, L \ R)
      BY <1>0, <3>1, <3>2, ListedReturned DEF InStep
    <3>6. Backing(w.buddies, w.pt, M, X, fb)
      BY <3>2 DEF InStep
    <3>7. InStep(w, L \ R, M, X, I, fb)
      BY <2>4, <3>4, <3>5, <3>6 DEF InStep
    <3>8. L \cup K = L /\ M \cup K = M /\ I \cup K = I
      BY <2>1
    <3> QED  BY <2>1, <3>7, <3>8
  <2> QED  BY <2>3, <2>4
<1>3. CASE k.waiting = NULL
  <2>1. \/ ~ Running(r) /\ must_refill(k) /\ Refused(k, r, 1)
        \/ /\ K \cap L = {} /\ K \subseteq Area
           /\ InStep(r, L \cup K, M \cup K, X, I \cup K, fb)
           /\ r.steal_remaining > 0
    <3>1. CASE must_refill(k)
      <4>1. r = refill(k) /\ K = {reserved_pageno(k, 1)}
        BY <3>1 DEF NodePage
      <4>2. \/ ~ Running(r) /\ Refused(k, r, 1)
            \/ /\ reserved_pageno(k, 1) \in Area \ L
               /\ InStep(r, L \cup K, M \cup K, X, I \cup K, fb)
               /\ r.steal_remaining > 0
        BY <3>1, <4>1, RefillOne, SMTT(20), SMTT(30)
      <4> QED  BY <3>1, <4>1, <4>2
    <3>2. CASE ~ must_refill(k)
      <4>1. r = k /\ K = {}
        BY <3>2 DEF NodePage
      <4>2. L \cup K = L /\ M \cup K = M /\ I \cup K = I
        BY <4>1
      <4>3. k.steal_remaining > 0
        BY <1>0, <1>3, <3>2, SMTT(20), SMTT(30) DEF must_refill, Stealing
      <4> QED  BY <4>1, <4>2, <4>3
    <3> QED  BY <3>1, <3>2
  <2>2. CASE ~ Running(r) /\ must_refill(k) /\ Refused(k, r, 1)
    <3>1. w = r
      BY <1>3, <2>2 DEF vm_return_pages, vm_item
    <3> QED  BY <2>2, <3>1 DEF Fails
  <2>3. CASE /\ K \cap L = {} /\ K \subseteq Area
             /\ InStep(r, L \cup K, M \cup K, X, I \cup K, fb)
             /\ r.steal_remaining > 0
    <3> DEFINE V == L \cup K
               J == I \cup K
    <3>1. /\ Running(r) /\ VmFields \subseteq DOMAIN r /\ Typed(r) /\ WellKept(r)
          /\ Stealing(r, J) /\ FreePages(r) = Q \ V /\ V \subseteq Area /\ p \in V /\ R \subseteq V
          /\ Listed(r, V) /\ Backing(r.buddies, r.pt, M \cup K, X, fb)
      BY <2>3 DEF InStep, Listed
    <3> HIDE DEF V, J, Q
    <3>2. /\ r.steal_next \in Nat \ {NULL} /\ r.steal_next \notin DOMAIN r.node
          /\ r.steal_next \in Nat /\ r.steal_remaining \in Nat /\ r.steal_remaining > 0
      BY <2>3, <3>1, SMTT(20), SMTT(30) DEF Stealing, NULL
    <3>3. ReturnedNew(r, w, FreePages(r), p, n)
      <4>1. Run(p, n) \cap FreePages(r) = {}
        BY <3>1
      <4> QED  BY <1>0, <1>3, <3>1, <3>2, <4>1, ReturnStolen
    <3>4. CASE ~ Running(w)
      <4>1. \/ w.status = "ASSERT(item->prev == NULL)"
            \/ w.status = "ASSERT(olditem)" /\ \A x \in Q \ V : x < p
        BY <3>1, <3>3, <3>4 DEF ReturnedNew, Stops
      <4> QED  BY <1>0, <3>1, <3>4, <4>1, NotTheLast DEF Fails, Q
    <3>5. CASE Running(w)
      <4>1. /\ Typed(w) /\ WellKept(w)
            /\ SameBut(r, w, {"node", "buckets", "waiting", "steal_next", "steal_remaining"})
            /\ w.steal_next = r.steal_next + 1 /\ w.steal_remaining = r.steal_remaining - 1
            /\ DOMAIN w.node = DOMAIN r.node \cup {r.steal_next}
            /\ FreePages(w) = FreePages(r) \cup R
        BY <3>3, <3>5 DEF ReturnedNew
      <4>2. /\ VmFields \subseteq DOMAIN w /\ w.pt = r.pt /\ w.buddies = r.buddies
        BY <3>1, <4>1, ReturnLeaves
      <4>3. DOMAIN r.node \subseteq Nat
        BY <3>1 DEF Typed
      <4>4. Stealing(w, J)
        BY <3>1, <3>2, <4>1, <4>3, StealSteals
      <4>5. Listed(w, V \ R)
        BY <1>0, <3>1, <4>1, <4>2, ListedReturned
      <4>6. Backing(w.buddies, w.pt, M \cup K, X, fb)
        BY <3>1, <4>2
      <4> QED  BY <2>3, <3>5, <4>4, <4>5, <4>6 DEF InStep, V, J
    <3> QED  BY <3>4, <3>5
  <2> QED  BY <2>1, <2>2, <2>3
<1> QED  BY <1>2, <1>3

\* The frames X are one block of the buddies, of n frames.
IsBlock(X, n) ==
  \E l \in Levels : \E s \in Frames : s % Capacity[l] = 0 /\ n = Capacity[l] /\ X = FramesOf(l, s)

\* pmm_free of the block that was given up makes its frames free again.
LEMMA FreeBacking ==
  ASSUME Counting, NEW b, NEW pt, NEW M, NEW X, NEW fb, Backing(b, pt, M, X, fb),
         NEW n, IsBlock(X, n), NEW f \in X, NEW c, c = after_free(b, n, f)
  PROVE  Backing(c, pt, M, {}, fb)
<1>1. PICK l \in Levels : \E s \in Frames : s % Capacity[l] = 0 /\ n = Capacity[l] /\ X = FramesOf(l, s)
  BY DEF IsBlock
<1>2. PICK s \in Frames : s % Capacity[l] = 0 /\ n = Capacity[l] /\ X = FramesOf(l, s)
  BY <1>1
<1>3. /\ Tidy(b) /\ X \subseteq Frames /\ Frames \subseteq Nat /\ Capacity[l] \in Nat
      /\ Capacity[l] >= 1 /\ NFrames \in Nat /\ \A g \in X : ~ Offers(b, g)
  BY TidyTypes, BuddiesAssumption DEF Backing
<1>4. ASSUME NEW g \in Nat PROVE InBlock(g, l, s) <=> g \in X
  <2>1. g \in FramesOf(l, s) <=> InBlock(g, l, s)
    <3>1. s \in Nat
      BY <1>3
    <3> QED  BY <3>1, <1>3, SMTT(20), SMTT(30) DEF FramesOf, InBlock
  <2> QED  BY <2>1, <1>2
<1>5. s + Capacity[l] <= NFrames
  <2> DEFINE e == s + Capacity[l] - 1
  <2>1. e \in FramesOf(l, s) /\ s \in Nat
    <3>1. s \in Nat
      BY <1>3
    <3> QED  BY <3>1, <1>3, SMTT(20), SMTT(30) DEF FramesOf
  <2>2. e \in Frames
    BY <2>1, <1>2, <1>3
  <2> QED  BY <2>1, <2>2, <1>3, SMTT(20), SMTT(30) DEF Frames
<1>6. f \in Nat /\ InBlock(f, l, s) /\ c = after_free(b, Capacity[l], f)
  BY <1>2, <1>3, <1>4
<1>7. \A g \in Nat : InBlock(g, l, s) => ~ Offers(b, g)
  BY <1>3, <1>4
<1>8. /\ Tidy(c)
      /\ \A g \in Nat : Offers(c, g) <=> Offers(b, g) \/ InBlock(g, l, s)
  BY <1>2, <1>3, <1>5, <1>6, <1>7, FreeGivesBlock
<1>9. \A g \in Frames : Offers(c, g) <=> Offers(b, g) \/ g \in X
  BY <1>3, <1>4, <1>8
<1>10. ASSUME NEW p \in M PROVE Under(pt, p) \in Frames /\ ~ Offers(c, Under(pt, p))
  BY <1>9 DEF Backing
<1>11. ASSUME NEW g \in Frames PROVE Offers(c, g) \/ \E p \in M : Under(pt, p) = g
  BY <1>9 DEF Backing
<1> QED  BY <1>8, <1>10, <1>11 DEF Backing

\* The same for the statics.
LEMMA PmmFreeRun ==
  ASSUME Counting, NEW k, NEW L, NEW M, NEW X, NEW I, NEW fb, InStep(k, L, M, X, I, fb),
         NEW n, IsBlock(X, n), NEW frame \in Nat, frame - buddy_base \in X,
         NEW w, w = pmm_free(k, n, frame)
  PROVE  InStep(w, L, M, {}, I, fb)
<1> DEFINE c == after_free(k.buddies, n, frame - buddy_base)
<1>0. /\ VmFields \subseteq DOMAIN k /\ Typed(k) /\ WellKept(k) /\ k = [x \in DOMAIN k |-> k[x]]
  BY DEF InStep, Listed, Typed
<1>1. ~ (frame < buddy_base)
  <2>1. frame - buddy_base \in Frames
    BY DEF InStep, Backing
  <2> QED  BY <2>1, Sizes, SMTT(20), SMTT(30) DEF Frames
<1>2. w = [k EXCEPT !.buddies = c]
  BY <1>1 DEF pmm_free
<1>3. Backing(c, k.pt, M, {}, fb)
  BY FreeBacking DEF InStep
<1> HIDE DEF c
<1>4. /\ w = [x \in DOMAIN w |-> w[x]] /\ DOMAIN w = DOMAIN k /\ w.buddies = c
      /\ SameLists(k, w) /\ w.pt = k.pt /\ w.status = k.status
      /\ w.steal_next = k.steal_next /\ w.steal_remaining = k.steal_remaining
  BY <1>0, <1>2 DEF SameLists, VmFields, Fields
<1>5. Relabelled(k, w)
  BY <1>0, <1>4, Relabel
<1>6. Listed(w, L) /\ Running(w)
  BY <1>4, <1>5 DEF InStep, Listed, Relabelled, Running
<1>7. Stealing(w, I)
  BY <1>4 DEF InStep, Stealing, SameLists
<1> QED  BY <1>3, <1>4, <1>6, <1>7 DEF InStep

\* vm_free_kpages of a run whose frames are one block, as a whole.
LEMMA FreeRun ==
  ASSUME Counting, NEW k, NEW U, NEW I, NEW fb \in {0} \cup FbSizes,
         U \subseteq Area, I \subseteq U, InStep(k, U, U, {}, I, fb),
         NEW p \in U, NEW n \in Nat, n > 0, NEW R, R = Run(p, n), R \subseteq U,
         IsBlock(FramesUnder(k.pt, R), n),
         NEW k1, k1 = unmap(k, p, n), must_refill(k1) => SoundAlloc(k1, 1),
         NEW K, K = NodePage(k, reserved_pageno(k, 1)),
         NEW w, w = free_kpages(k, n, p)
  PROVE  \/ ~ Running(w) /\ Fails(k, w)
         \/ /\ K \cap U = {} /\ K \subseteq Area
            /\ InStep(w, (U \cup K) \ R, (U \cup K) \ R, {}, I \cup K, fb)
<1> DEFINE X  == FramesUnder(k.pt, R)
           F  == k.pt[vaddr(p)]
           r  == IF must_refill(k1) THEN refill(k1) ELSE k1
           k2 == vm_return_pages(k1, r, n, p)
<1>0. p \in Area /\ vaddr(p) = p /\ p \in Nat /\ p \in R
  <2>1. p \in Area /\ vaddr(p) = p /\ p \in Nat
    BY AreaPage
  <2>2. p \in Run(p, n)
    BY <2>1, SMTT(20), SMTT(30) DEF Run
  <2> QED  BY <2>1, <2>2
<1>1. F \in Nat /\ F - buddy_base \in X
  BY <1>0 DEF InStep, Backing, FramesUnder, Under
<1>2. w = IF Running(k2) THEN pmm_free(k2, n, F) ELSE k2
  BY DEF free_kpages
<1> HIDE DEF F
<1>3. /\ InStep(k1, U, U \ R, X, I, fb)
      /\ SameLists(k, k1) /\ k1.steal_remaining = k.steal_remaining /\ k1.buddies = k.buddies
  BY UnmapRun
<1> HIDE DEF X
<1>4. /\ must_refill(k1) <=> must_refill(k)
      /\ K = NodePage(k1, reserved_pageno(k1, 1))
  BY <1>3, SameReservation DEF SameLists, must_refill, NodePage
<1>5. \/ ~ Running(k2) /\ Fails(k1, k2)
      \/ K \cap U = {} /\ K \subseteq Area
         /\ InStep(k2, (U \cup K) \ R, (U \ R) \cup K, X, I \cup K, fb)
  <2> DEFINE N == U \ R
  <2>1. /\ N \subseteq U /\ InStep(k1, U, N, X, I, fb)
        /\ r = IF must_refill(k1) THEN refill(k1) ELSE k1
        /\ k2 = vm_return_pages(k1, r, n, p)
    BY <1>3
  <2> HIDE DEF N, r, k2
  <2>2. ReturnKeeps(k1, k2, R, K, U, N, X, I, fb)
    BY <1>4, <2>1, ReturnRun
  <2> QED  BY <2>2 DEF N, ReturnKeeps
<1> HIDE DEF k2, r
<1>6. CASE ~ Running(k2) /\ Fails(k1, k2)
  BY <1>2, <1>3, <1>4, <1>6 DEF Fails, Refused
<1>7. CASE K \cap U = {} /\ K \subseteq Area
           /\ InStep(k2, (U \cup K) \ R, (U \ R) \cup K, X, I \cup K, fb)
  <2>1. Running(k2) /\ (U \ R) \cup K = (U \cup K) \ R
    BY <1>7 DEF InStep
  <2>2. InStep(k2, (U \cup K) \ R, (U \cup K) \ R, X, I \cup K, fb)
    BY <1>7, <2>1
  <2>3. w = pmm_free(k2, n, F)
    BY <1>2, <2>1
  <2>4. IsBlock(X, n)
    BY DEF X
  <2> QED  BY <1>1, <1>7, <2>2, <2>3, <2>4, PmmFreeRun
<1> QED  BY <1>5, <1>6, <1>7
-----------------------------------------------------------------------------
(* The specification. *)

\* The pages in use: those kept for list nodes and those of the callers' runs.
RunOf(h) == Run(h.pageno, h.pages)
Used == internal \cup UNION {RunOf(h) : h \in held}

\* The inductive invariant: lists, buddies and page tables are in step, and no
\* page belongs to two.
VmInv ==
  /\ kernel.status \in Statuses \cup {"Out of physical memory", "Page Fault"}
  /\ Listed(kernel, Used) /\ Backing(kernel.buddies, kernel.pt, Used, {}, gfx_fb_size)
  /\ Stealing(kernel, internal)
  /\ internal \subseteq Area
  /\ \A h \in held : /\ h.pageno \in Nat /\ h.pages \in Requests
                     /\ RunOf(h) \subseteq Area \ internal
  /\ \A g, h \in held : g # h => RunOf(g) \cap RunOf(h) = {}
  /\ gfx_fb_size \in {0} \cup FbSizes

\* Callers ask for at least one page.
LEMMA RequestSizes ==
  ASSUME NEW n \in Requests
  PROVE  n \in Nat /\ n \in Nat \ {0} /\ n > 0
<1>1. n \in 1..(2 * Capacity[Top] - 1)
  BY VmAssumption
<1>2. Capacity[Top] \in Nat
  BY BuddiesAssumption, SMTT(20), SMTT(30) DEF Top, Levels
<1> QED  BY <1>1, <1>2, SMTT(20), SMTT(30)

\* The pages in use are in the area, and every run begins with one of them.
LEMMA UsedPagesOf ==
  ASSUME VmInv
  PROVE  /\ Used \subseteq Area /\ internal \subseteq Used
         /\ \A h \in held : RunOf(h) \subseteq Used /\ h.pageno \in RunOf(h)
<1>1. ASSUME NEW h \in held PROVE h.pageno \in RunOf(h)
  <2>1. h.pageno \in Nat /\ h.pages \in Nat /\ h.pages > 0
    BY RequestSizes DEF VmInv
  <2> QED  BY <2>1, SMTT(20), SMTT(30) DEF RunOf, Run
<1>2. internal \subseteq Area /\ \A h \in held : RunOf(h) \subseteq Area
  BY DEF VmInv
<1>3. UNION {RunOf(h) : h \in held} \subseteq Area
  BY <1>2
<1>4. \A h \in held : RunOf(h) \subseteq UNION {RunOf(g) : g \in held}
  OBVIOUS
<1> QED  BY <1>1, <1>2, <1>3, <1>4 DEF Used

\* A running kernel is between two calls.
LEMMA RunningInStep ==
  ASSUME VmInv, Running(kernel)
  PROVE  InStep(kernel, Used, Used, {}, internal, gfx_fb_size)
  BY DEF VmInv, InStep

\* vm_init establishes the invariant.
LEMMA VmInitInv ==
  ASSUME Counting, Init
  PROVE  VmInv
<1>1. kernel = vm_init /\ held = {} /\ internal = {} /\ gfx_fb_size = 0
  BY DEF Init
<1>2. Used = {}
  BY <1>1 DEF Used
<1>3. /\ kernel = [f \in DOMAIN kernel |-> kernel[f]] /\ DOMAIN kernel = VmFields
      /\ kernel.status = FreshLists.status /\ kernel.buckets = FreshLists.buckets
      /\ kernel.waiting = FreshLists.waiting /\ kernel.node = FreshLists.node
      /\ kernel.steal_next = FreshLists.steal_next
      /\ kernel.steal_remaining = FreshLists.steal_remaining
      /\ kernel.pt = [p \in KernelPages |-> IF p < BootMapped THEN virtual2phys(p) ELSE NotPresent]
      /\ kernel.buddies = FreshBuddies
  BY <1>1 DEF vm_init, VmFields, Fields
<1>4. /\ Typed(kernel) /\ WellKept(kernel) /\ kernel.status = "running"
      /\ FreePages(kernel) = Run(BootMapped, first_bucket_size)
      /\ Stealing(kernel, internal)
  BY <1>3, FreshKept DEF VmFields
<1>5. Listed(kernel, Used)
  BY <1>2, <1>3, <1>4 DEF Listed
<1>6. Tidy(kernel.buddies) /\ \A f \in Frames : Offers(kernel.buddies, f)
  BY <1>3, FreshTidy
<1>7. Buffer(0) = {}
  <2>1. 0 \div PAGE_SIZE = 0
    BY Sizes, SMTT(20), SMTT(30)
  <2>2. gfx_framebuffer \in Nat
    BY Sizes DEF gfx_framebuffer
  <2> QED  BY <2>1, <2>2, SMTT(20), SMTT(30) DEF Buffer, Run
<1>8. Backing(kernel.buddies, kernel.pt, Used, {}, gfx_fb_size)
  <2>1. \A p \in KernelPages : p \in Nat /\ (p < BootMapped => virtual2phys(p) \in Nat)
    BY Sizes, SMTT(20), SMTT(30) DEF KernelPages, virtual2phys
  <2>2. kernel.pt \in [KernelPages -> {NotPresent} \cup Nat]
    BY <1>3, <2>1
  <2>3. \A p \in KernelPages : BootMapped <= p => kernel.pt[p] = NotPresent
    <3>1. \A p \in KernelPages : BootMapped <= p => ~ (p < BootMapped)
      BY <2>1, Sizes, SMTT(20), SMTT(30)
    <3> QED  BY <1>3, <3>1
  <2> QED  BY <1>1, <1>2, <1>6, <1>7, <2>2, <2>3 DEF Backing
<1>9. kernel.status \in Statuses
  BY <1>4, Zenon DEF Statuses
<1> QED  BY <1>1, <1>4, <1>5, <1>8, <1>9 DEF VmInv

\* kernel_panic changes nothing that is read again.
LEMMA VmHaltStep ==
  ASSUME Counting, VmInv, NEW x \in Statuses \cup {"Out of physical memory", "Page Fault"},
         kernel' = [kernel EXCEPT !.status = x], UNCHANGED <<held, internal, gfx_fb_size>>
  PROVE  VmInv'
<1>0. /\ VmFields \subseteq DOMAIN kernel /\ Typed(kernel) /\ WellKept(kernel)
      /\ kernel = [f \in DOMAIN kernel |-> kernel[f]]
  BY DEF VmInv, Listed, Typed
<1>1. Used' = Used /\ internal' = internal /\ held' = held /\ gfx_fb_size' = gfx_fb_size
  BY DEF Used
<1>2. /\ DOMAIN kernel' = DOMAIN kernel /\ kernel'.status = x /\ kernel'.node = kernel.node
      /\ kernel'.pt = kernel.pt /\ kernel'.buddies = kernel.buddies
      /\ kernel'.steal_next = kernel.steal_next /\ kernel'.steal_remaining = kernel.steal_remaining
  BY <1>0 DEF VmFields, Fields
<1>3. Relabelled(kernel, kernel')
  BY <1>0, HaltRelabels
<1>4. Listed(kernel', Used)
  BY <1>2, <1>3 DEF VmInv, Listed, Relabelled
<1>5. Backing(kernel'.buddies, kernel'.pt, Used, {}, gfx_fb_size)
  BY <1>2 DEF VmInv
<1>6. Stealing(kernel', internal)
  BY <1>2 DEF VmInv, Stealing
<1> QED  BY <1>1, <1>2, <1>4, <1>5, <1>6 DEF VmInv

\* vm_alloc_kpages keeps the lists, the buddies and the page tables in step.
LEMMA VmAllocStep ==
  ASSUME Counting, VmInv, NEW n \in Requests, SoundAlloc(kernel, n), vm_alloc_kpages(n)
  PROVE  VmInv'
<1> DEFINE k == alloc_kpages(kernel, n)
           p == reserved_pageno(kernel, n)
           R == Run(p, n)
           g == [pageno |-> p, pages |-> n]
<1>1. Running(kernel)
  BY DEF vm_alloc_kpages
<1>2. \/ ~ Running(k) /\ Refused(kernel, k, n)
      \/ Running(k) /\ Allocated(kernel, k, p, n, Used, Used, {}, gfx_fb_size)
  <2>1. InStep(kernel, Used, Used, {}, internal, gfx_fb_size)
    BY <1>1, RunningInStep
  <2>2. n \in Nat \ {0}
    BY RequestSizes
  <2> QED  BY <2>1, <2>2, UsedPagesOf, AllocRun DEF InStep, VmInv
<1>3. \/ /\ Running(k) /\ kernel' = k /\ held' = held \cup {g}
         /\ internal' = internal /\ gfx_fb_size' = gfx_fb_size
      \/ ~ Running(k) /\ kernel' = [kernel EXCEPT !.status = k.status]
           /\ UNCHANGED <<held, internal, gfx_fb_size>>
  BY <1>1 DEF vm_alloc_kpages, halt
<1> HIDE DEF k, p
<1>4. CASE ~ Running(k)
  <2>1. k.status \in Statuses \cup {"Out of physical memory", "Page Fault"}
    BY <1>2, <1>4, Zenon DEF Refused, Statuses
  <2> QED  BY <1>3, <1>4, <2>1, VmHaltStep
<1>5. CASE Running(k)
  <2>1. /\ kernel' = k /\ held' = held \cup {g}
        /\ internal' = internal /\ gfx_fb_size' = gfx_fb_size
        /\ Allocated(kernel, k, p, n, Used, Used, {}, gfx_fb_size)
    BY <1>2, <1>3, <1>5
  <2>2. RunOf(g) = R /\ g.pageno = p /\ g.pages = n
    BY DEF RunOf
  <2>3. /\ R \subseteq Area \ Used /\ p \in Nat
        /\ Listed(k, Used \cup R) /\ Backing(k.buddies, k.pt, Used \cup R, {}, gfx_fb_size)
        /\ DOMAIN k.node = DOMAIN kernel.node /\ k.status = "running"
        /\ k.steal_next = kernel.steal_next /\ k.steal_remaining = kernel.steal_remaining
    BY <2>1 DEF Allocated
  <2> HIDE DEF R, g
  <2>4. Used' = Used \cup R
    BY <2>1, <2>2 DEF Used
  <2>5. Stealing(k, internal)
    BY <2>3 DEF VmInv, Stealing
  <2>6. ASSUME NEW h \in held'
        PROVE  h.pageno \in Nat /\ h.pages \in Requests /\ RunOf(h) \subseteq Area \ internal'
    <3>1. CASE h \in held
      BY <2>1, <3>1 DEF VmInv
    <3>2. CASE h = g
      BY <2>1, <2>2, <2>3, <3>2 DEF Used
    <3> QED  BY <2>1, <3>1, <3>2
  <2>7. ASSUME NEW x \in held', NEW y \in held', x # y PROVE RunOf(x) \cap RunOf(y) = {}
    <3>1. \A h \in held : RunOf(h) \cap R = {}
      BY <2>3 DEF Used
    <3>2. CASE x \in held /\ y \in held
      BY <2>7, <3>2 DEF VmInv
    <3>3. CASE x \in held /\ y = g
      BY <2>2, <3>1, <3>3
    <3>4. CASE x = g /\ y \in held
      BY <2>2, <3>1, <3>4
    <3> QED  BY <2>1, <2>7, <3>2, <3>3, <3>4
  <2>8. kernel'.status \in Statuses
    BY <2>1, <2>3, Zenon DEF Statuses
  <2>9. internal' \subseteq Area /\ gfx_fb_size' \in {0} \cup FbSizes
    BY <2>1 DEF VmInv
  <2>10. Listed(kernel', Used') /\ Backing(kernel'.buddies, kernel'.pt, Used', {}, gfx_fb_size')
         /\ Stealing(kernel', internal')
    BY <2>1, <2>3, <2>4, <2>5
  <2> QED  BY <2>6, <2>7, <2>8, <2>9, <2>10 DEF VmInv
<1> QED  BY <1>4, <1>5

\* The state that a call of vm_free_kpages computes, and what it does with it.
LEMMA VmFreeCases ==
  ASSUME Counting, VmInv, NEW h \in held, SoundFree(h), vm_free_kpages(h),
         NEW k, k = free_kpages(kernel, h.pages, h.pageno),
         NEW K, K = NodePage(kernel, reserved_pageno(kernel, 1)),
         NEW U, U = (Used \cup K) \ RunOf(h)
  PROVE  \/ /\ ~ Running(k) /\ Fails(kernel, k)
            /\ kernel' = [kernel EXCEPT !.status = k.status]
            /\ UNCHANGED <<held, internal, gfx_fb_size>>
         \/ /\ Running(k) /\ kernel' = k /\ held' = held \ {h} /\ internal' = internal \cup K
            /\ gfx_fb_size' = gfx_fb_size
            /\ K \cap Used = {} /\ K \subseteq Area
            /\ InStep(k, U, U, {}, internal \cup K, gfx_fb_size)
<1> DEFINE p == h.pageno
           n == h.pages
           R == RunOf(h)
           k1 == unmap(kernel, p, n)
<1>1. Running(kernel)
  BY DEF vm_free_kpages
<1>2. /\ R = Run(p, n) /\ R \subseteq Used /\ p \in Used /\ n \in Nat /\ n > 0
      /\ Used \subseteq Area /\ internal \subseteq Used
  <2>1. n \in Requests
    BY DEF VmInv
  <2> QED  BY <2>1, UsedPagesOf, RequestSizes DEF RunOf
<1>3. IsBlock(FramesUnder(kernel.pt, R), n)
  <2>1. PICK l \in Levels : \E s \in Frames :
          s % Capacity[l] = 0 /\ h.pages = Capacity[l] /\ RunFrames(h) = FramesOf(l, s)
    BY DEF SoundFree, Strays
  <2>2. \A q \in R : vaddr(q) = q
    BY <1>2, AreaPage
  <2>3. RunFrames(h) = FramesUnder(kernel.pt, R)
    BY <2>2 DEF RunFrames, FramesUnder, Under, RunOf
  <2> QED  BY <2>1, <2>3 DEF IsBlock
<1>4. must_refill(k1) => SoundAlloc(k1, 1)
  BY DEF SoundFree
<1>5. \/ ~ Running(k) /\ Fails(kernel, k)
      \/ /\ K \cap Used = {} /\ K \subseteq Area
         /\ InStep(k, U, U, {}, internal \cup K, gfx_fb_size)
  <2>1. InStep(kernel, Used, Used, {}, internal, gfx_fb_size) /\ gfx_fb_size \in {0} \cup FbSizes
    BY <1>1, RunningInStep DEF VmInv
  <2> HIDE DEF R, p, n, k1
  <2>2. k1 = unmap(kernel, p, n) /\ k = free_kpages(kernel, n, p) /\ U = (Used \cup K) \ R
    BY DEF k1, p, n, R
  <2> QED  BY <1>2, <1>3, <1>4, <2>1, <2>2, FreeRun
<1>6. \/ /\ Running(k) /\ kernel' = k /\ held' = held \ {h} /\ internal' = internal \cup K
         /\ gfx_fb_size' = gfx_fb_size
      \/ ~ Running(k) /\ kernel' = [kernel EXCEPT !.status = k.status]
           /\ UNCHANGED <<held, internal, gfx_fb_size>>
  BY DEF vm_free_kpages, halt, NodePage
<1>7. CASE ~ Running(k)
  <2>1. Fails(kernel, k)
    BY <1>5, <1>7 DEF InStep
  <2> QED  BY <1>6, <1>7, <2>1
<1>8. CASE Running(k)
  <2>1. /\ K \cap Used = {} /\ K \subseteq Area
        /\ InStep(k, U, U, {}, internal \cup K, gfx_fb_size)
    BY <1>5, <1>8
  <2> QED  BY <1>6, <1>8, <2>1
<1> QED  BY <1>7, <1>8

\* vm_free_kpages keeps them in step, the page it takes for nodes included.
LEMMA VmFreeStep ==
  ASSUME Counting, VmInv, NEW h \in held, SoundFree(h), vm_free_kpages(h)
  PROVE  VmInv'
<1> DEFINE k == free_kpages(kernel, h.pages, h.pageno)
           K == NodePage(kernel, reserved_pageno(kernel, 1))
           U == (Used \cup K) \ RunOf(h)
<1>1. \/ /\ ~ Running(k) /\ Fails(kernel, k)
         /\ kernel' = [kernel EXCEPT !.status = k.status]
         /\ UNCHANGED <<held, internal, gfx_fb_size>>
      \/ /\ Running(k) /\ kernel' = k /\ held' = held \ {h} /\ internal' = internal \cup K
         /\ gfx_fb_size' = gfx_fb_size
         /\ K \cap Used = {} /\ K \subseteq Area
         /\ InStep(k, U, U, {}, internal \cup K, gfx_fb_size)
  BY VmFreeCases
<1> HIDE DEF k, K
<1>2. CASE /\ ~ Running(k) /\ Fails(kernel, k)
           /\ kernel' = [kernel EXCEPT !.status = k.status]
           /\ UNCHANGED <<held, internal, gfx_fb_size>>
  <2>1. k.status \in Statuses \cup {"Out of physical memory", "Page Fault"}
    BY <1>2, Zenon DEF Fails, Refused, Statuses
  <2> QED  BY <1>2, <2>1, VmHaltStep
<1>3. CASE /\ Running(k) /\ kernel' = k /\ held' = held \ {h} /\ internal' = internal \cup K
           /\ gfx_fb_size' = gfx_fb_size
           /\ K \cap Used = {} /\ K \subseteq Area
           /\ InStep(k, U, U, {}, internal \cup K, gfx_fb_size)
  <2>1. /\ RunOf(h) \cap internal = {} /\ RunOf(h) \subseteq Used
        /\ \A g \in held : g # h => RunOf(g) \cap RunOf(h) = {}
    BY UsedPagesOf DEF VmInv
  <2>2. Used' = U
    <3>1. UNION {RunOf(g) : g \in held'} = (UNION {RunOf(g) : g \in held}) \ RunOf(h)
      <4> DEFINE All  == UNION {RunOf(g) : g \in held}
                 Rest == UNION {RunOf(g) : g \in held \ {h}}
      <4>1. held' = held \ {h}
        BY <1>3
      <4>2. UNION {RunOf(g) : g \in held'} = Rest
        BY <4>1
      <4>3. ASSUME NEW x \in Rest PROVE x \in All /\ x \notin RunOf(h)
        <5>1. PICK g \in held \ {h} : x \in RunOf(g)
          OBVIOUS
        <5> QED  BY <2>1, <5>1
      <4>4. ASSUME NEW x \in All, x \notin RunOf(h) PROVE x \in Rest
        <5>1. PICK g \in held : x \in RunOf(g)
          OBVIOUS
        <5> QED  BY <4>4, <5>1
      <4> HIDE DEF All, Rest
      <4>5. Rest = All \ RunOf(h)
        BY <4>3, <4>4
      <4> QED  BY <4>2, <4>5 DEF All
    <3>2. Used' = internal' \cup UNION {RunOf(g) : g \in held'}
      BY DEF Used, RunOf
    <3> QED  BY <1>3, <2>1, <3>1, <3>2 DEF Used
  <2> HIDE DEF U
  <2>3. ASSUME NEW g \in held'
        PROVE  g.pageno \in Nat /\ g.pages \in Requests /\ RunOf(g) \subseteq Area \ internal'
    <3>1. /\ g \in held /\ g.pageno \in Nat /\ g.pages \in Requests
          /\ RunOf(g) \subseteq Area \ internal
      BY <1>3 DEF VmInv
    <3>2. RunOf(g) \cap K = {}
      BY <1>3, <3>1 DEF Used
    <3> QED  BY <1>3, <3>1, <3>2
  <2>4. \A g, x \in held' : g # x => RunOf(g) \cap RunOf(x) = {}
    BY <1>3 DEF VmInv
  <2>5. kernel'.status \in Statuses
    BY <1>3, Zenon DEF Running, Statuses
  <2>6. internal' \subseteq Area /\ gfx_fb_size' \in {0} \cup FbSizes
    BY <1>3 DEF VmInv
  <2>7. Listed(kernel', Used') /\ Backing(kernel'.buddies, kernel'.pt, Used', {}, gfx_fb_size')
        /\ Stealing(kernel', internal')
    BY <1>3, <2>2 DEF InStep
  <2> QED  BY <2>3, <2>4, <2>5, <2>6, <2>7 DEF VmInv
<1> QED  BY <1>1, <1>2, <1>3

\* gfx_init maps the frame buffer behind the area.
LEMMA VmGfxStep ==
  ASSUME Counting, VmInv, NEW size \in FbSizes, gfx_init(size)
  PROVE  VmInv'
<1> DEFINE pt == [p \in KernelPages |->
                    IF p \in Buffer(size) THEN FbAddr + (p - gfx_framebuffer) ELSE kernel.pt[p]]
           k == vm_dma(kernel, FbAddr, gfx_framebuffer, size)
<1>0. /\ VmFields \subseteq DOMAIN kernel /\ Typed(kernel) /\ WellKept(kernel)
      /\ kernel = [f \in DOMAIN kernel |-> kernel[f]]
      /\ kernel.pt \in [KernelPages -> {NotPresent} \cup Nat]
  BY DEF VmInv, Listed, Typed, Backing
<1>1. k = [kernel EXCEPT !.pt = pt]
  BY DEF vm_dma, Buffer
<1>2. /\ k = [f \in DOMAIN k |-> k[f]] /\ DOMAIN k = DOMAIN kernel /\ k.pt = pt
      /\ SameBut(kernel, k, {"pt"})
  <2> HIDE DEF pt, k
  <2> QED  BY <1>0, <1>1 DEF SameBut, VmFields
<1>3. \/ kernel' = k /\ gfx_fb_size' = size /\ held' = held /\ internal' = internal
      \/ /\ kernel' = [kernel EXCEPT !.status = "Page Fault"]
         /\ UNCHANGED <<held, internal, gfx_fb_size>>
  <2>1. PANIC(k, "Page Fault").status = "Page Fault"
    <3> HIDE DEF pt, k
    <3> QED  BY <1>0, <1>2 DEF PANIC, VmFields, Fields
  <2>2. \/ kernel' = k /\ gfx_fb_size' = size /\ held' = held /\ internal' = internal
        \/ /\ kernel' = [kernel EXCEPT !.status = PANIC(k, "Page Fault").status]
           /\ UNCHANGED <<held, internal, gfx_fb_size>>
    BY Zenon DEF gfx_init, halt
  <2> HIDE DEF k, pt
  <2> QED  BY <2>1, <2>2
<1>4. CASE /\ kernel' = [kernel EXCEPT !.status = "Page Fault"]
           /\ UNCHANGED <<held, internal, gfx_fb_size>>
  BY <1>4, VmHaltStep
<1>5. CASE kernel' = k /\ gfx_fb_size' = size /\ held' = held /\ internal' = internal
  <2>1. \A p \in KernelPages : BootMapped <= p => kernel.pt[p] = NotPresent
    <3>1. kernel = vm_init
      BY DEF gfx_init
    <3>2. \A p \in KernelPages : BootMapped <= p => ~ (p < BootMapped)
      BY Sizes, SMTT(20), SMTT(30) DEF KernelPages
    <3> QED  BY <3>1, <3>2 DEF vm_init
  <2>2. Used = {}
    <3>1. ASSUME NEW p \in Used PROVE FALSE
      <4>1. p \in KernelPages /\ BootMapped <= p
        BY UsedPagesOf, AreaPage
      <4>2. kernel.pt[p] \in Nat
        BY DEF VmInv, Backing
      <4>3. NotPresent \notin Nat
        BY SMTT(20), SMTT(30) DEF NotPresent
      <4> QED  BY <4>1, <4>2, <4>3, <2>1
    <3> QED  BY <3>1
  <2>3. Used' = {}
    BY <1>5, <2>2 DEF Used
  <2>4. /\ pt \in [KernelPages -> {NotPresent} \cup Nat]
        /\ \A p \in KernelPages : BootMapped <= p /\ p \notin Buffer(size) => pt[p] = NotPresent
        /\ \A p \in Buffer(size) : pt[p] = FbAddr + (p - gfx_framebuffer)
    <3>1. \A p \in Buffer(size) : p \in KernelPages /\ FbAddr + (p - gfx_framebuffer) \in Nat
      BY BufferPages
    <3> QED  BY <1>0, <2>1, <3>1
  <2> HIDE DEF pt, k
  <2>5. /\ SameLists(kernel, k) /\ k.buddies = kernel.buddies /\ k.status = kernel.status
        /\ k.steal_next = kernel.steal_next /\ k.steal_remaining = kernel.steal_remaining
    BY <1>0, <1>2 DEF SameBut, SameLists, VmFields, Fields
  <2>6. Relabelled(kernel, k)
    BY <1>0, <1>2, <2>5, Relabel
  <2>7. Listed(k, {})
    BY <1>2, <2>2, <2>6 DEF VmInv, Listed, Relabelled
  <2>8. Backing(k.buddies, k.pt, {}, {}, size)
    <3>1. Tidy(kernel.buddies) /\ \A f \in Frames : Offers(kernel.buddies, f)
      BY <2>2 DEF VmInv, Backing
    <3> QED  BY <1>2, <2>4, <2>5, <3>1 DEF Backing
  <2>9. Stealing(k, internal)
    BY <2>5 DEF VmInv, Stealing, SameLists
  <2> QED  BY <1>5, <2>3, <2>5, <2>7, <2>8, <2>9 DEF VmInv
<1> QED  BY <1>3, <1>4, <1>5

\* A write that changes no list node changes nothing here.
LEMMA VmWriteStep ==
  ASSUME VmInv, NEW h, write(h), kernel'.node = kernel.node
  PROVE  VmInv'
<1>1. kernel = [f \in DOMAIN kernel |-> kernel[f]] /\ "node" \in DOMAIN kernel
  BY DEF VmInv, Listed, Typed, Fields
<1>2. PICK g : kernel' = [kernel EXCEPT !.node = g]
  BY DEF write, fill
<1>3. g = kernel.node
  BY <1>1, <1>2
<1>4. kernel' = kernel
  BY <1>1, <1>2, <1>3
<1> QED  BY <1>4 DEF VmInv, Used, write

\* Every step keeps lists, buddies and page tables in step.
LEMMA VmNextInv ==
  ASSUME Counting
  PROVE  VmInv /\ [SoundNext]_vars => VmInv'
<1> SUFFICES ASSUME VmInv, [SoundNext]_vars PROVE VmInv'
  OBVIOUS
<1>1. ASSUME NEW n \in Requests, SoundAlloc(kernel, n), vm_alloc_kpages(n) PROVE VmInv'
  BY <1>1, VmAllocStep
<1>2. ASSUME NEW h \in held, SoundFree(h), vm_free_kpages(h) PROVE VmInv'
  BY <1>2, VmFreeStep
<1>3. ASSUME NEW h \in held, write(h), kernel'.node = kernel.node PROVE VmInv'
  BY <1>3, VmWriteStep
<1>4. ASSUME NEW size \in FbSizes, gfx_init(size) PROVE VmInv'
  BY <1>4, VmGfxStep
<1>5. CASE UNCHANGED vars
  BY <1>5 DEF vars, VmInv, Used
<1> QED  BY <1>1, <1>2, <1>3, <1>4, <1>5 DEF SoundNext, hang

\* The pages in use, as the properties name them.
LEMMA UsedPagesAre ==
  ASSUME VmInv
  PROVE  UsedPages = Used /\ \A p \in Used : FrameUnder(p) = Under(kernel.pt, p)
<1>1. UsedPages = {vaddr(p) : p \in Used}
  BY DEF UsedPages, Used, RunOf
<1>2. \A p \in Used : vaddr(p) = p
  BY UsedPagesOf, AreaPage
<1> QED  BY <1>1, <1>2 DEF FrameUnder, Under

\* The frames that the buddies offer, as the properties name them.
LEMMA OfferedAre ==
  ASSUME Counting, VmInv
  PROVE  \A f \in Frames : f \in Offered <=> Offers(kernel.buddies, f)
<1>1. Tidy(kernel.buddies)
  BY DEF VmInv, Backing
<1> SUFFICES ASSUME NEW f \in Frames PROVE f \in Offered <=> Offers(kernel.buddies, f)
  OBVIOUS
<1>2. ASSUME NEW l \in Levels, NEW s \in kernel.buddies[l]
      PROVE  f \in FramesOf(l, s) <=> InBlock(f, l, s)
  <2>1. f \in Nat /\ s \in Nat /\ Capacity[l] \in Nat
    BY <1>1, TidyTypes
  <2> QED  BY <2>1, SMTT(20), SMTT(30) DEF FramesOf, InBlock
<1>3. f \in Offered <=> \E l \in Levels : \E s \in kernel.buddies[l] : f \in FramesOf(l, s)
  <2> DEFINE B(l) == UNION {FramesOf(l, s) : s \in kernel.buddies[l]}
  <2>1. \A l \in Levels : f \in B(l) <=> \E s \in kernel.buddies[l] : f \in FramesOf(l, s)
    OBVIOUS
  <2>2. Offered = UNION {B(l) : l \in Levels}
    BY DEF Offered
  <2> HIDE DEF B
  <2> QED  BY <2>1, <2>2
<1> QED  BY <1>2, <1>3 DEF Offers

\* Two pages over the same frame are one page.
LEMMA OneFrame ==
  ASSUME VmInv, NEW p \in Used, NEW q \in Used, kernel.pt[p] = kernel.pt[q]
  PROVE  p = q
<1>1. Under(kernel.pt, p) = Under(kernel.pt, q)
  BY DEF Under
<1> QED  BY <1>1 DEF VmInv, Backing

-----------------------------------------------------------------------------
INSTANCE FiniteSetTheorems

\* What the lemmas on the statics take as a hypothesis is true.
LEMMA CountingHolds == Counting
<1>1. \A T : T \subseteq Nat /\ T # {} => \E x \in T : \A y \in T : x <= y
  <2> SUFFICES ASSUME NEW T, T \subseteq Nat, T # {} PROVE \E x \in T : \A y \in T : x <= y
    OBVIOUS
  <2>1. PICK x \in T : \A y \in T : ~(<<y, x>> \in OpToRel(<, Nat))
    BY NatLessThanWellFounded, WFMin, Zenon
  <2>2. ASSUME NEW y \in T PROVE x <= y
    <3>1. ~(<<y, x>> \in OpToRel(<, Nat))
      BY <2>1
    <3>2. ~(y < x)
      BY <3>1, Zenon DEF OpToRel
    <3> QED  BY <3>2, SMTT(20), SMTT(30)
  <2> QED  BY <2>2
<1>2. \A x : IsFiniteSet({x})
  BY FS_Singleton
<1>3. \A S, x : IsFiniteSet(S) => IsFiniteSet(S \cup {x})
  BY FS_AddElement
<1>4. \A S : IsFiniteSet(S) => Cardinality(S) \in Nat
  BY FS_CardinalityType
<1>5. \A n \in Nat : Cardinality(0..(n - 1)) = n /\ Cardinality(1..n) = n
  BY FS_Interval, SMTT(20), SMTT(30)
<1>6. ASSUME NEW S, NEW T, NEW f, IsFiniteSet(T), OneToOne(f, S, T)
      PROVE  Cardinality(S) <= Cardinality(T) /\ IsFiniteSet(S) /\ f \in Injection(S, T)
  <2>1. f \in Injection(S, T)
    BY <1>6 DEF OneToOne, Injection, IsInjective
  <2> QED  BY <1>6, <2>1, FS_Injection
<1>7. ASSUME NEW S, NEW T, NEW f, IsFiniteSet(T), OneToOne(f, S, T), Onto(f, S, T)
      PROVE  Cardinality(S) = Cardinality(T)
  <2>1. f \in Surjection(S, T)
    BY <1>7 DEF OneToOne, Onto, Surjection
  <2>2. ExistsBijection(S, T) /\ IsFiniteSet(S)
    BY <1>6, <1>7, <2>1 DEF ExistsBijection, Bijection
  <2> QED  BY <2>2, FS_Bijection
<1> QED  BY <1>1, <1>2, <1>3, <1>4, <1>5, <1>6, <1>7 DEF Counting

(***************************************************************************)
(* The invariant of the kernel memory, for every layout and every size of  *)
(* request, as long as none of the three faults has happened: pages,       *)
(* frames and mappings are in step.                                        *)
(***************************************************************************)
THEOREM VmInvariant ==
  SoundSpec => []VmInv
<1>1. Init => VmInv
  BY VmInitInv, CountingHolds
<1>2. VmInv /\ [SoundNext]_vars => VmInv'
  BY VmNextInv, CountingHolds
<1> QED  BY <1>1, <1>2, PTL DEF SoundSpec

(***************************************************************************)
(* The statics of vm.c and pmm.c, the page table entries and what callers  *)
(* hold keep their types, and the kernel stops only for a known reason.    *)
(***************************************************************************)
THEOREM TypeCorrect ==
  SoundSpec => []TypeOK
<1>1. VmInv => TypeOK
  <2> SUFFICES ASSUME VmInv PROVE TypeOK
    OBVIOUS
  <2>1. kernel.status \in VmStatuses
    BY Zenon DEF VmInv, VmStatuses
  <2>2. \A h \in held : h.pageno \in Nat /\ h.pages \in Requests
    BY DEF VmInv
  <2>3. internal \subseteq Nat
    <3>1. \A p \in internal : p \in Area
      BY DEF VmInv
    <3> QED  BY <3>1, AreaPage
  <2>4. /\ kernel.pt \in [KernelPages -> {NotPresent} \cup Nat]
        /\ kernel.buddies \in [Levels -> SUBSET Frames]
    BY DEF VmInv, Backing, Tidy
  <2>5. gfx_fb_size \in {0} \cup FbSizes
    BY DEF VmInv
  <2> QED  BY <2>1, <2>2, <2>3, <2>4, <2>5 DEF TypeOK
<1> QED  BY <1>1, VmInvariant, PTL

(***************************************************************************)
(* No two pages in use share a frame, and pmm_alloc never has a frame to   *)
(* offer that is mapped under one.                                         *)
(***************************************************************************)
THEOREM FramesHaveOneOwner ==
  SoundSpec => []FramesExclusive
<1>1. VmInv => FramesExclusive
  <2> SUFFICES ASSUME VmInv, NEW p \in Used
               PROVE  /\ kernel.pt[p] # NotPresent
                      /\ FrameUnder(p) \notin Offered
                      /\ \A q \in Used : kernel.pt[p] = kernel.pt[q] => p = q
    BY UsedPagesAre DEF FramesExclusive
  <2>1. /\ kernel.pt[p] \in Nat /\ FrameUnder(p) \in Frames
        /\ ~ Offers(kernel.buddies, FrameUnder(p))
    BY UsedPagesAre DEF VmInv, Backing
  <2>2. NotPresent \notin Nat
    BY SMTT(20), SMTT(30) DEF NotPresent
  <2>3. FrameUnder(p) \notin Offered
    BY <2>1, OfferedAre, CountingHolds
  <2> QED  BY <2>1, <2>2, <2>3, OneFrame
<1> QED  BY <1>1, VmInvariant, PTL

(***************************************************************************)
(* And vm_free_kpages gives every frame back: one that pmm_alloc does not  *)
(* offer is under a page in use.                                           *)
(***************************************************************************)
THEOREM FramesNeverLeak ==
  SoundSpec => []NoFrameLeaks
<1>1. VmInv => NoFrameLeaks
  <2> SUFFICES ASSUME VmInv, NEW f \in Frames, f \notin Offered
               PROVE  \E p \in UsedPages : FrameUnder(p) = f
    BY DEF NoFrameLeaks
  <2>1. ~ Offers(kernel.buddies, f)
    BY OfferedAre, CountingHolds
  <2>2. \E p \in Used : Under(kernel.pt, p) = f
    BY <2>1 DEF VmInv, Backing
  <2> QED  BY <2>2, UsedPagesAre
<1> QED  BY <1>1, VmInvariant, PTL

(***************************************************************************)
(* While the kernel runs, exactly the pages in use and the frame buffer    *)
(* are mapped behind the boot mapping, and no allocation takes the frame   *)
(* buffer of gfx_init away.                                                *)
(***************************************************************************)
THEOREM MappingsFollowUse ==
  SoundSpec => []MappedAsOwned
<1>1. VmInv => MappedAsOwned
  <2> SUFFICES ASSUME VmInv
               PROVE  /\ \A p \in KernelPages : p >= BootMapped =>
                           (kernel.pt[p] # NotPresent <=> p \in UsedPages \cup Buffer(gfx_fb_size))
                      /\ \A p \in Buffer(gfx_fb_size) : kernel.pt[p] = FbAddr + (p - gfx_framebuffer)
    BY DEF MappedAsOwned, Buffer
  <2>1. /\ UsedPages = Used /\ \A p \in Used : kernel.pt[p] \in Nat
        /\ \A p \in Buffer(gfx_fb_size) : kernel.pt[p] = FbAddr + (p - gfx_framebuffer)
        /\ gfx_fb_size \in {0} \cup FbSizes
    BY UsedPagesAre DEF VmInv, Backing
  <2>2. \A p \in Buffer(gfx_fb_size) : FbAddr + (p - gfx_framebuffer) \in Nat
    BY <2>1, BufferPages
  <2>3. NotPresent \notin Nat
    BY SMTT(20), SMTT(30) DEF NotPresent
  <2>4. ASSUME NEW p \in KernelPages, p >= BootMapped
        PROVE  kernel.pt[p] # NotPresent <=> p \in Used \cup Buffer(gfx_fb_size)
    <3>1. BootMapped <= p
      BY <2>4, Sizes, SMTT(20), SMTT(30) DEF KernelPages
    <3>2. p \notin Used \cup Buffer(gfx_fb_size) => kernel.pt[p] = NotPresent
      BY <3>1 DEF VmInv, Backing
    <3>3. p \in Used \cup Buffer(gfx_fb_size) => kernel.pt[p] \in Nat
      BY <2>1, <2>2
    <3> QED  BY <2>3, <3>2, <3>3
  <2> QED  BY <2>1, <2>4
<1> QED  BY <1>1, VmInvariant, PTL

(***************************************************************************)
(* The list nodes that vm_kernel_stealmem cuts out of allocated pages are  *)
(* safe from callers and from pmm_alloc: no one else has their frames.     *)
(***************************************************************************)
THEOREM KeptNodesAreSafe ==
  SoundSpec => []KeptNodesOwnTheirFrames
<1>1. VmInv => KeptNodesOwnTheirFrames
  <2> SUFFICES ASSUME VmInv, NEW a \in DOMAIN kernel.node, a >= BootMapped * ItemsPerPage
               PROVE  LET page == vaddr(a \div ItemsPerPage)
                      IN  /\ a \div ItemsPerPage \in internal
                          /\ FrameUnder(page) \in Frames \ Offered
                          /\ \A p \in UsedPages \ {page} : kernel.pt[p] # kernel.pt[page]
    BY DEF KeptNodesOwnTheirFrames
  <2>1. a \in Nat /\ NodeMemory(a, internal)
    BY DEF VmInv, Listed, Typed, Stealing
  <2>2. ~ (a < BootMapped * ItemsPerPage)
    <3>1. BootMapped * ItemsPerPage \in Nat
      BY Sizes, BucketsAssumption, SMTT(20), SMTT(30)
    <3> QED  BY <2>1, <3>1, SMTT(20), SMTT(30)
  <2>3. PICK q \in internal : SlotOf(a, q)
    BY <2>1, <2>2 DEF NodeMemory
  <2>4. q \in Used /\ q \in Nat /\ vaddr(q) = q
    BY UsedPagesOf, AreaPage
  <2>5. a \div ItemsPerPage = q
    BY <2>1, <2>3, <2>4, PageOfSlot
  <2>6. FrameUnder(q) \in Frames /\ ~ Offers(kernel.buddies, FrameUnder(q))
    BY <2>4, UsedPagesAre DEF VmInv, Backing
  <2>7. FrameUnder(q) \notin Offered
    BY <2>6, OfferedAre, CountingHolds
  <2>8. \A p \in UsedPages \ {q} : kernel.pt[p] # kernel.pt[q]
    BY <2>4, UsedPagesAre, OneFrame
  <2> QED  BY <2>4, <2>5, <2>6, <2>7, <2>8
<1> QED  BY <1>1, VmInvariant, PTL

(***************************************************************************)
(* A vm_free_kpages that stops the kernel needed a node and found no frame *)
(* for it, or met the assertion of ll_pop_item.  The one of                *)
(* ll_append_notempty is out of reach: the page at managed_end is free.    *)
(***************************************************************************)
THEOREM FreesFailForWantOfANode ==
  SoundSpec => FreeFailsOnlyForWantOfANode
<1> DEFINE A == \A h \in held :
                  ~ Running(kernel') /\ SoundFree(h) /\ vm_free_kpages(h) =>
                    \/ must_refill(kernel) /\ ~ can_alloc(kernel.buddies, 1)
                    \/ kernel'.status = "ASSERT(item->prev == NULL)"
<1>1. VmInv /\ [SoundNext]_vars => [A]_vars
  <2> SUFFICES ASSUME VmInv, NEW h \in held, SoundFree(h), vm_free_kpages(h), ~ Running(kernel')
               PROVE  \/ must_refill(kernel) /\ ~ can_alloc(kernel.buddies, 1)
                      \/ kernel'.status = "ASSERT(item->prev == NULL)"
    OBVIOUS
  <2> DEFINE k == free_kpages(kernel, h.pages, h.pageno)
  <2>1. Fails(kernel, k) /\ kernel' = [kernel EXCEPT !.status = k.status]
    BY VmFreeCases, CountingHolds
  <2> HIDE DEF k
  <2>2. kernel'.status = k.status
    BY <2>1 DEF VmInv, Listed, VmFields, Fields
  <2> QED  BY <2>1, <2>2 DEF Fails, Refused
<1>2. SoundSpec => []VmInv
  BY VmInvariant
<1>3. SoundSpec => [][A]_vars
  BY <1>1, <1>2, PTL DEF SoundSpec
<1> QED  BY <1>3 DEF FreeFailsOnlyForWantOfANode

=============================================================================
