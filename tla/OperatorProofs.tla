--------------------------- MODULE OperatorProofs ---------------------------
(***************************************************************************)
(* What the functions of kernel/memory/pmm.c and vm.c do to values of      *)
(* their statics, for every value of the constants.                        *)
(*                                                                         *)
(* Buddies: pmm_alloc of one frame, as vm.c calls it, takes exactly one    *)
(* that was free, and pmm_free of a block of frames in use gives back      *)
(* exactly these.                                                          *)
(*                                                                         *)
(* Buckets: the list functions, then vm_reserve_pages, vm_optimize and     *)
(* vm_return_pages as a whole, and what vm_init leaves.  A list is         *)
(* described by its rail: the function c from 0..n+1 with the nodes in     *)
(* order at 1..n and NULL at both ends.  Lists(v, n, c, m, d, out) says    *)
(* that the bucket list has the rail c and the waiting list d, that they   *)
(* share no node, and that `out' are the nodes in neither: the node in the *)
(* hands of a function between two list operations.  The waiting list has  *)
(* no usable prev links, since ll_pop_item leaves a stale one behind; that *)
(* is why only next is asked of it.                                        *)
(*                                                                         *)
(* The lemmas on Buckets go up in four layers: one field assignment; one   *)
(* list operation; the walks along a list and the pages the buckets stand  *)
(* for; the functions, which keep the lists and change the free pages by   *)
(* exactly the run that was asked for or returned (vm_optimize: not at     *)
(* all).                                                                   *)
(***************************************************************************)
EXTENDS Buckets, Buddies, FiniteSets, TLAPS

\* Most leaves are first-order and Zenon's; the arithmetic ones name SMT, twice
\* because tlapm may give up the first translation.
USE ZenonT(20), SMTT(20), SMTT(30)

(***************************************************************************)
(* The facts on natural numbers and finite sets that the proofs use: the   *)
(* least number principle, which stands in for an induction along a list,  *)
(* and counting.  The lemmas have them as a hypothesis; VmBucketsProofs    *)
(* and VmProofs prove them from the library before their theorems.         *)
(***************************************************************************)
OneToOne(f, S, T) == f \in [S -> T] /\ \A i, j \in S : f[i] = f[j] => i = j
Onto(f, S, T) == \A y \in T : \E i \in S : f[i] = y

Counting ==
  /\ \A T : T \subseteq Nat /\ T # {} => \E x \in T : \A y \in T : x <= y
  /\ \A x : IsFiniteSet({x})
  /\ \A S, x : IsFiniteSet(S) => IsFiniteSet(S \cup {x})
  /\ \A S : IsFiniteSet(S) => Cardinality(S) \in Nat
  /\ \A n \in Nat : Cardinality(0..(n - 1)) = n /\ Cardinality(1..n) = n
  /\ \A S, T, f : IsFiniteSet(T) /\ OneToOne(f, S, T) => Cardinality(S) <= Cardinality(T)
  /\ \A S, T, f : IsFiniteSet(T) /\ OneToOne(f, S, T) /\ Onto(f, S, T) => Cardinality(S) = Cardinality(T)

\* A nonempty set of natural numbers has a least element.
LEMMA LeastNat ==
  ASSUME Counting, NEW T, T \subseteq Nat, T # {}
  PROVE  \E x \in T : \A y \in T : x <= y
  BY DEF Counting

\* One more node leaves finitely many.
LEMMA OneMore ==
  ASSUME Counting, NEW S, IsFiniteSet(S), NEW x
  PROVE  IsFiniteSet(S \cup {x})
  BY DEF Counting

\* The positions of a list of n nodes are n.
LEMMA Positions ==
  ASSUME Counting, NEW n \in Nat
  PROVE  Cardinality(0..(n - 1)) = n /\ Cardinality(1..n) = n
  BY DEF Counting

\* Of two numbers in order the first is not the second.
LEMMA LessThan ==
  ASSUME NEW a \in Nat, NEW b \in Nat, a < b
  PROVE  a <= b /\ a # b
  BY SMTT(20), SMTT(30)

\* Two runs that touch, each not empty, are one that is not empty.
LEMMA LessThanTwice ==
  ASSUME NEW a \in Nat, NEW b \in Nat, NEW e \in Nat, a < b, b < e
  PROVE  a < e
  BY SMTT(20), SMTT(30)

\* The sizes of two runs that touch add up to that of both, in either order.
LEMMA TwoRuns ==
  ASSUME NEW p \in Nat, NEW a \in Nat, NEW b \in Nat, NEW x, NEW y, x = p + a, y = x + b
  PROVE  /\ a + b \in Nat /\ p + (a + b) = y
         /\ b + a \in Nat /\ p + (b + a) = y
  BY SMTT(20), SMTT(30)

\* The place before one behind k is not before k.
LEMMA IndexBefore ==
  ASSUME NEW n \in Nat, NEW k \in 1..(n + 1), NEW i \in 1..(n + 1), k < i
  PROVE  i - 1 \in k..(n + 1) /\ i - 1 \in 1..n /\ (i - 1) + 1 = i
  BY SMTT(20), SMTT(30)

\* A run that starts no later than p and does not hold p lies before p.
LEMMA BeforeEnd ==
  ASSUME NEW a \in Nat, NEW b \in Nat, NEW p \in Nat, NEW x \in Nat,
         ~ (a > p), ~ (a <= p /\ p < b), x < b
  PROVE  x < p
  BY SMTT(20), SMTT(30)

\* Nodes that are all different are no more than there are.
LEMMA NoMoreThanAll ==
  ASSUME Counting, NEW S, IsFiniteSet(S), NEW n \in Nat, NEW c, \A i \in 1..n : c[i] \in S,
         \A i, j \in 1..n : c[i] = c[j] => i = j
  PROVE  Cardinality(S) \in Nat /\ n <= Cardinality(S)
<1> DEFINE f == [i \in 1..n |-> c[i]]
<1>1. OneToOne(f, 1..n, S)
  BY DEF OneToOne
<1> HIDE DEF f
<1>2. Cardinality(1..n) <= Cardinality(S) /\ Cardinality(S) \in Nat
  BY <1>1 DEF Counting
<1> QED  BY <1>2, Positions

-----------------------------------------------------------------------------
(***************************************************************************)
(* The bitsets of pmm.c under allocations of one frame.                    *)
(***************************************************************************)
\* What Least returns.
LEMMA LeastIsLeast ==
  ASSUME Counting, NEW T, T \subseteq Nat, T # {}
  PROVE  Least(T) \in T /\ \A y \in T : Least(T) <= y
  BY LeastNat, Zenon DEF Least

\* A block has at least one frame, and a block of a higher level at least twice
\* as many.
LEMMA Capacities ==
  ASSUME Counting
  PROVE  /\ \A l \in Levels : Capacity[l] \in Nat /\ Capacity[l] >= 1
         /\ \A l, m \in Levels : l < m => 2 * Capacity[l] <= Capacity[m]
<1> DEFINE Fine(m) == Capacity[m] >= 1 /\ \A l \in Levels : l < m => 2 * Capacity[l] <= Capacity[m]
           T == {m \in Levels : ~ Fine(m)}
<1>1. Levels \subseteq Nat /\ \A m \in Levels \ {0} : m - 1 \in Levels
  BY BuddiesAssumption, SMTT(20), SMTT(30) DEF Levels
<1>2. ASSUME T # {} PROVE FALSE
  <2>1. T \subseteq Nat
    BY <1>1
  <2> HIDE DEF T
  <2>2. PICK m \in T : \A y \in T : m <= y
    BY <1>2, <2>1, LeastNat
  <2>3. m \in Levels /\ m \in Nat /\ ~ Fine(m)
    BY <1>1 DEF T
  <2> HIDE DEF Fine
  <2>4. CASE m = 0
    BY <2>3, <2>4, <1>1, BuddiesAssumption, SMTT(20), SMTT(30) DEF Fine
  <2>5. CASE m # 0
    <3>1. m - 1 \in Levels /\ Capacity[m] = 2 * Capacity[m - 1] /\ Capacity[m - 1] \in Nat
      BY <2>3, <2>5, <1>1, BuddiesAssumption
    <3>2. m - 1 \notin T
      BY <2>2, <2>3, SMTT(20), SMTT(30)
    <3>3. Fine(m - 1)
      BY <3>1, <3>2 DEF T
    <3>4. \A l \in Levels : Capacity[l] \in Nat /\ l \in Nat
      BY <1>1, BuddiesAssumption
    <3> QED  BY <3>1, <3>3, <3>4, <2>3, SMTT(20), SMTT(30) DEF Fine
  <2> QED  BY <2>4, <2>5
<1>3. \A m \in Levels : Fine(m)
  BY <1>2
<1> QED  BY <1>3, BuddiesAssumption

\* The frames of a block give back its level.
LEMMA Log2Capacity ==
  ASSUME Counting, NEW l \in Levels
  PROVE  log2(Capacity[l]) = l
<1>1. Levels \subseteq Nat
  BY BuddiesAssumption, SMTT(20), SMTT(30) DEF Levels
<1>2. Capacity[l] <= Capacity[l] /\ Capacity[l] < 2 * Capacity[l]
  BY Capacities, SMTT(20), SMTT(30)
<1>3. ASSUME NEW m \in Levels, Capacity[m] <= Capacity[l], Capacity[l] < 2 * Capacity[m] PROVE m = l
  <2>1. l < m => 2 * Capacity[l] <= Capacity[m]
    BY Capacities
  <2>2. m < l => 2 * Capacity[m] <= Capacity[l]
    BY Capacities
  <2>3. Capacity[l] \in Nat /\ Capacity[l] >= 1 /\ Capacity[m] \in Nat /\ l \in Nat /\ m \in Nat
    BY <1>1, Capacities
  <2> QED  BY <2>1, <2>2, <2>3, <1>3, SMTT(20), SMTT(30)
<1> QED  BY <1>2, <1>3, Zenon DEF log2

\* One page is a block of level 0.
LEMMA Log2One ==
  ASSUME Counting
  PROVE  0 \in Levels /\ log2(1) = 0
<1>1. 0 \in Levels
  BY BuddiesAssumption, SMTT(20), SMTT(30) DEF Levels
<1>2. Capacity[0] = 1
  BY BuddiesAssumption
<1> QED  BY <1>1, <1>2, Log2Capacity

\* The frame f is in the block of level l at s.
InBlock(f, l, s) == s <= f /\ f < s + Capacity[l]

\* The frame f is in a free block.
Offers(b, f) == \E l \in Levels : \E s \in b[l] : InBlock(f, l, s)

\* No frame is in both blocks.
Disjoined(l, s, m, t) == s + Capacity[l] <= t \/ t + Capacity[m] <= s

\* The free blocks lie within the memory and do not overlap.
Tidy(b) ==
  /\ b \in [Levels -> SUBSET Frames]
  /\ \A l \in Levels : \A s \in b[l] : s + Capacity[l] <= NFrames
  /\ \A l, m \in Levels : \A s \in b[l], t \in b[m] : l # m \/ s # t => Disjoined(l, s, m, t)

\* The blocks of b are of sets of natural numbers.
LEMMA TidyTypes ==
  ASSUME Counting, NEW b, Tidy(b)
  PROVE  /\ Levels \subseteq Nat /\ Frames \subseteq Nat
         /\ \A l \in Levels : b[l] \subseteq Nat /\ b[l] \subseteq Frames
         /\ \A l \in Levels : Capacity[l] \in Nat /\ Capacity[l] >= 1
<1>1. Levels \subseteq Nat /\ Frames \subseteq Nat
  BY BuddiesAssumption, SMTT(20), SMTT(30) DEF Levels, Frames
<1> QED  BY <1>1, Capacities DEF Tidy

\* What bitset_find finds from level 0 upwards is a block of the lowest level
\* that has one.
Found(b, i, s) ==
  /\ i \in Levels /\ s \in b[i]
  /\ \A l \in Levels : l < i => b[l] = {}

\* pmm_alloc of one frame finds a block, and refuses only when no frame is free.
LEMMA AllocFinds ==
  ASSUME Counting, NEW b, Tidy(b)
  PROVE  /\ can_alloc(b, 1) => Found(b, alloc_level(b, 1), alloc_start(b, 1))
         /\ ~ can_alloc(b, 1) => \A f : ~ Offers(b, f)
<1> DEFINE W == LevelsWithBlock(b, 1)
           i == alloc_level(b, 1)
           s == alloc_start(b, 1)
<1>1. W = {l \in Levels : b[l] # {}}
  BY Log2One, TidyTypes, SMTT(20), SMTT(30) DEF LevelsWithBlock
<1>2. ASSUME ~ can_alloc(b, 1) PROVE \A f : ~ Offers(b, f)
  BY <1>1, <1>2 DEF can_alloc, Offers
<1>3. ASSUME can_alloc(b, 1) PROVE Found(b, i, s)
  <2>1. W # {} /\ W \subseteq Nat
    BY <1>1, <1>3, TidyTypes DEF can_alloc
  <2>2. i \in W /\ \A l \in W : i <= l
    BY <2>1, LeastIsLeast DEF alloc_level
  <2>3. i \in Levels /\ b[i] # {} /\ b[i] \subseteq Nat
    BY <2>2, <1>1, TidyTypes
  <2>4. s \in b[i]
    BY <2>3, LeastIsLeast DEF alloc_start, bitset_find
  <2> HIDE DEF i, s, W
  <2>5. ASSUME NEW l \in Levels, l < i PROVE b[l] = {}
    <3>1. l \notin W
      BY <2>2, <2>3, <2>5, TidyTypes, SMTT(20), SMTT(30)
    <3> QED  BY <3>1, <1>1
  <2> QED  BY <2>3, <2>4, <2>5 DEF Found
<1> QED  BY <1>2, <1>3

\* What pmm_alloc of one frame leaves: the right halves that were split off
\* below the level of the block.
LEMMA AllocLeaves ==
  ASSUME Counting,
         NEW b, Tidy(b), NEW i, NEW s, i = alloc_level(b, 1), s = alloc_start(b, 1), Found(b, i, s),
         NEW c, c = after_alloc(b, 1)
  PROVE  /\ c = [l \in Levels |-> c[l]]
         /\ \A l \in Levels : c[l] = IF l < i THEN {s + Capacity[l]}
                                     ELSE IF l = i THEN b[i] \ {s} ELSE b[l]
<1>1. c = mark_used([b EXCEPT ![i] = b[i] \ {s}], i, 1, s)
  BY DEF after_alloc
<1>2. c = [l \in Levels |-> c[l]]
  BY <1>1 DEF mark_used
<1>3. b = [l \in Levels |-> b[l]] /\ i \in Levels
  BY DEF Tidy, Found
<1>4. ASSUME NEW l \in Levels
      PROVE  c[l] = ((IF l = i THEN b[i] \ {s} ELSE b[l]) \cup (IF l < i THEN {s + Capacity[l]} ELSE {}))
                      \ (IF l = 0 THEN {s} ELSE {})
  <2>1. l >= 0
    BY TidyTypes, SMTT(20), SMTT(30)
  <2>2. [b EXCEPT ![i] = b[i] \ {s}][l] = IF l = i THEN b[i] \ {s} ELSE b[l]
    BY <1>3
  <2> QED  BY <1>1, <2>1, <2>2, Log2One, SMTT(20), SMTT(30) DEF mark_used
<1>5. ASSUME NEW l \in Levels
      PROVE  c[l] = IF l < i THEN {s + Capacity[l]} ELSE IF l = i THEN b[i] \ {s} ELSE b[l]
  <2>1. /\ l \in Nat /\ i \in Nat /\ s \in Nat /\ Capacity[l] \in Nat /\ Capacity[l] >= 1
    BY TidyTypes DEF Found
  <2>2. CASE l < i
    <3>1. b[l] = {} /\ l # i
      BY <2>1, <2>2, SMTT(20), SMTT(30) DEF Found
    <3>2. s + Capacity[l] # s
      BY <2>1, SMTT(20), SMTT(30)
    <3> QED  BY <3>1, <3>2, <2>2, <1>4
  <2>3. CASE l = i
    <3>1. ~ (l < i)
      BY <2>1, <2>3, SMTT(20), SMTT(30)
    <3> QED  BY <3>1, <2>3, <1>4
  <2>4. CASE i < l
    <3>1. ~ (l < i) /\ l # i /\ l # 0
      BY <2>1, <2>4, SMTT(20), SMTT(30)
    <3> QED  BY <3>1, <1>4
  <2> QED  BY <2>1, <2>2, <2>3, <2>4, SMTT(20), SMTT(30)
<1> QED  BY <1>2, <1>5

\* The right halves that a split leaves tile the block behind its first frame.
LEMMA HalvesTile ==
  ASSUME Counting, NEW i \in Levels, NEW s \in Nat, NEW f \in Nat
  PROVE  (s < f /\ f < s + Capacity[i]) <=> \E l \in Levels : l < i /\ InBlock(f, l, s + Capacity[l])
<1>0. Levels \subseteq Nat /\ \A m \in Levels \ {0} : m - 1 \in Levels
  BY BuddiesAssumption, SMTT(20), SMTT(30) DEF Levels
<1>1. ASSUME s < f, f < s + Capacity[i]
      PROVE  \E l \in Levels : l < i /\ InBlock(f, l, s + Capacity[l])
  <2> DEFINE T == {m \in Levels : f < s + Capacity[m]}
  <2>1. T \subseteq Nat /\ i \in T
    BY <1>0, <1>1
  <2>2. PICK m \in T : \A y \in T : m <= y
    <3> HIDE DEF T
    <3> QED  BY <2>1, LeastNat
  <2>3. m \in Levels /\ m \in Nat /\ m <= i /\ f < s + Capacity[m] /\ i \in Nat
    BY <2>1, <2>2, <1>0
  <2>4. m # 0
    BY <2>3, <1>1, BuddiesAssumption, SMTT(20), SMTT(30)
  <2>5. m - 1 \in Levels /\ Capacity[m] = 2 * Capacity[m - 1] /\ Capacity[m - 1] \in Nat
    BY <2>3, <2>4, <1>0, BuddiesAssumption
  <2>6. m - 1 \notin T
    BY <2>2, <2>3, SMTT(20), SMTT(30)
  <2>7. m - 1 < i /\ InBlock(f, m - 1, s + Capacity[m - 1])
    BY <2>3, <2>5, <2>6, SMTT(20), SMTT(30) DEF InBlock
  <2> QED  BY <2>5, <2>7
<1>2. ASSUME NEW l \in Levels, l < i, InBlock(f, l, s + Capacity[l])
      PROVE  s < f /\ f < s + Capacity[i]
  <2>1. /\ Capacity[l] \in Nat /\ Capacity[l] >= 1 /\ Capacity[i] \in Nat
        /\ 2 * Capacity[l] <= Capacity[i]
    BY <1>2, Capacities
  <2> QED  BY <2>1, <1>2, SMTT(20), SMTT(30) DEF InBlock
<1> QED  BY <1>1, <1>2

\* pmm_alloc of one frame takes one free frame and nothing else, and the blocks
\* stay apart.
LEMMA AllocTakesOne ==
  ASSUME Counting,
         NEW b, Tidy(b), can_alloc(b, 1), NEW s, s = alloc_start(b, 1), NEW c, c = after_alloc(b, 1)
  PROVE  /\ s \in Frames /\ Offers(b, s)
         /\ Tidy(c)
         /\ \A f \in Nat : Offers(c, f) <=> Offers(b, f) /\ f # s
<1> DEFINE i == alloc_level(b, 1)
<1>0. i = alloc_level(b, 1)
  OBVIOUS
<1>1. Found(b, i, s)
  BY AllocFinds
<1> HIDE DEF i
<1>2. /\ c = [l \in Levels |-> c[l]]
      /\ \A l \in Levels : c[l] = IF l < i THEN {s + Capacity[l]}
                                  ELSE IF l = i THEN b[i] \ {s} ELSE b[l]
  BY <1>0, <1>1, AllocLeaves, SMTT(20), SMTT(30)
<1>3. /\ i \in Levels /\ i \in Nat /\ s \in b[i] /\ s \in Nat /\ s \in Frames
      /\ \A l \in Levels : l < i => b[l] = {}
  BY <1>1, TidyTypes DEF Found
<1>4. /\ \A l \in Levels : Capacity[l] \in Nat /\ Capacity[l] >= 1 /\ l \in Nat
      /\ \A l, m \in Levels : l < m => 2 * Capacity[l] <= Capacity[m]
      /\ \A l \in Levels : \A t \in b[l] : t \in Nat
  BY Capacities, TidyTypes
<1>5. s + Capacity[i] <= NFrames /\ NFrames \in Nat
  BY <1>3, BuddiesAssumption DEF Tidy
<1>6. InBlock(s, i, s)
  BY <1>3, <1>4, SMTT(20), SMTT(30) DEF InBlock
\* A block of c is a right half of the split block or an old one apart from it.
<1>7. ASSUME NEW m \in Levels, NEW t \in c[m]
      PROVE  \/ m < i /\ t = s + Capacity[m]
             \/ ~ (m < i) /\ t \in b[m] /\ Disjoined(m, t, i, s)
  <2>1. CASE m < i
    BY <1>2, <2>1
  <2>2. CASE ~ (m < i)
    <3>1. t \in b[m] /\ (m # i \/ t # s)
      BY <1>2, <2>2
    <3>2. Disjoined(m, t, i, s)
      BY <3>1, <1>3 DEF Tidy
    <3> QED  BY <2>2, <3>1, <3>2
  <2> QED  BY <2>1, <2>2
<1>8. ASSUME NEW f \in Nat
      PROVE  Offers(c, f) <=> Offers(b, f) /\ f # s
  <2>1. ASSUME Offers(c, f) PROVE Offers(b, f) /\ f # s
    <3>0. PICK l \in Levels : \E t \in c[l] : InBlock(f, l, t)
      BY <2>1 DEF Offers
    <3>1. PICK t \in c[l] : InBlock(f, l, t)
      BY <3>0
    <3>2. CASE l < i /\ t = s + Capacity[l]
      <4>1. s < f /\ f < s + Capacity[i]
        BY <3>1, <3>2, <1>3, HalvesTile
      <4>2. InBlock(f, i, s) /\ f # s
        BY <4>1, <1>3, SMTT(20), SMTT(30) DEF InBlock
      <4> QED  BY <4>2, <1>3 DEF Offers
    <3>3. CASE t \in b[l] /\ Disjoined(l, t, i, s)
      <4>1. Offers(b, f)
        BY <3>1, <3>3 DEF Offers
      <4>2. t \in Nat /\ Capacity[l] \in Nat /\ Capacity[i] \in Nat /\ Capacity[i] >= 1
        BY <3>3, <1>3, <1>4
      <4>3. f # s
        BY <3>1, <3>3, <4>2, <1>3, SMTT(20), SMTT(30) DEF InBlock, Disjoined
      <4> QED  BY <4>1, <4>3
    <3> QED  BY <3>2, <3>3, <1>7
  <2>2. ASSUME Offers(b, f), f # s PROVE Offers(c, f)
    <3>0. PICK l \in Levels : \E t \in b[l] : InBlock(f, l, t)
      BY <2>2 DEF Offers
    <3>1. PICK t \in b[l] : InBlock(f, l, t)
      BY <3>0
    <3>2. CASE l = i /\ t = s
      <4>1. s < f /\ f < s + Capacity[i]
        BY <2>2, <3>1, <3>2, <1>3, SMTT(20), SMTT(30) DEF InBlock
      <4>2. PICK m \in Levels : m < i /\ InBlock(f, m, s + Capacity[m])
        BY <4>1, <1>3, HalvesTile
      <4>3. s + Capacity[m] \in c[m]
        BY <4>2, <1>2
      <4> QED  BY <4>2, <4>3 DEF Offers
    <3>3. CASE l # i \/ t # s
      <4>1. ~ (l < i)
        BY <1>3
      <4>2. t \in c[l]
        BY <1>2, <3>3, <4>1
      <4> QED  BY <3>1, <4>2 DEF Offers
    <3> QED  BY <3>2, <3>3
  <2> QED  BY <2>1, <2>2
<1>9. ASSUME NEW m \in Levels, NEW t \in c[m]
      PROVE  t \in Nat /\ t + Capacity[m] <= NFrames /\ t \in Frames
  <2>1. CASE m < i /\ t = s + Capacity[m]
    <3>1. 2 * Capacity[m] <= Capacity[i]
      BY <2>1, <1>3, <1>4
    <3>2. t \in Nat /\ t + Capacity[m] <= NFrames
      BY <2>1, <3>1, <1>3, <1>4, <1>5, SMTT(20), SMTT(30)
    <3> QED  BY <3>2, <1>4, <1>5, SMTT(20), SMTT(30) DEF Frames
  <2>2. CASE t \in b[m]
    BY <2>2, TidyTypes DEF Tidy
  <2> QED  BY <2>1, <2>2, <1>7
<1>10. ASSUME NEW l \in Levels, NEW m \in Levels, NEW x \in c[l], NEW t \in c[m],
              l # m \/ x # t
       PROVE  Disjoined(l, x, m, t)
  <2>0. /\ x \in Nat /\ t \in Nat /\ l \in Nat /\ m \in Nat
        /\ Capacity[l] \in Nat /\ Capacity[m] \in Nat /\ Capacity[i] \in Nat
    BY <1>3, <1>4, <1>9
  <2>1. ASSUME NEW j \in Levels, j < i PROVE 2 * Capacity[j] <= Capacity[i]
    BY <2>1, <1>3, <1>4
  <2>2. CASE l < i /\ x = s + Capacity[l] /\ m < i /\ t = s + Capacity[m]
    <3>1. l < m => 2 * Capacity[l] <= Capacity[m]
      BY <1>4
    <3>2. m < l => 2 * Capacity[m] <= Capacity[l]
      BY <1>4
    <3>3. l # m
      BY <1>10, <2>2
    <3> QED  BY <3>1, <3>2, <3>3, <2>0, <2>2, <1>3, SMTT(20), SMTT(30) DEF Disjoined
  <2>3. CASE l < i /\ x = s + Capacity[l] /\ Disjoined(m, t, i, s)
    BY <2>0, <2>1, <2>3, <1>3, SMTT(20), SMTT(30) DEF Disjoined
  <2>4. CASE Disjoined(l, x, i, s) /\ m < i /\ t = s + Capacity[m]
    BY <2>0, <2>1, <2>4, <1>3, SMTT(20), SMTT(30) DEF Disjoined
  <2>5. CASE x \in b[l] /\ t \in b[m]
    BY <1>10, <2>5 DEF Tidy
  <2> QED  BY <2>2, <2>3, <2>4, <2>5, <1>7
<1>11. c \in [Levels -> SUBSET Frames]
  BY <1>2, <1>9
<1>12. Offers(b, s)
  BY <1>3, <1>6 DEF Offers
<1> QED  BY <1>3, <1>8, <1>9, <1>10, <1>11, <1>12 DEF Tidy

\* A frame of an aligned block leads back to the start of the block.
LEMMA BlockStart ==
  ASSUME NEW C \in Nat, C >= 1, NEW s \in Nat, s % C = 0, NEW f \in Nat, s <= f, f < s + C
  PROVE  (f \div C) * C = s
<1> DEFINE x == s \div C
           y == f \div C
           r == f % C
<1>1. x \in Nat /\ y \in Nat /\ r \in Nat /\ r < C
  BY SMTT(20), SMTT(30)
<1>2. s = (C * x) + (s % C) /\ f = (C * y) + r
  BY SMTT(20), SMTT(30)
<1> HIDE DEF x, y, r
<1>3. C * x \in Nat /\ C * y \in Nat /\ s = C * x
  BY <1>1, <1>2, SMTT(20), SMTT(30)
<1>4. ~ (x < y)
  <2>1. ASSUME x < y PROVE FALSE
    <3>1. PICK z \in Nat : y = x + 1 + z
      <4>1. y - x - 1 \in Nat /\ y = x + 1 + (y - x - 1)
        BY <2>1, <1>1, SMTT(20), SMTT(30)
      <4> QED  BY <4>1
    <3>2. C * y = C * x + C + C * z /\ C * z \in Nat
      BY <3>1, <1>1, SMTT(20), SMTT(30)
    <3> QED  BY <3>2, <1>1, <1>2, <1>3, SMTT(20), SMTT(30)
  <2> QED  BY <2>1
<1>5. ~ (y < x)
  <2>1. ASSUME y < x PROVE FALSE
    <3>1. PICK z \in Nat : x = y + 1 + z
      <4>1. x - y - 1 \in Nat /\ x = y + 1 + (x - y - 1)
        BY <2>1, <1>1, SMTT(20), SMTT(30)
      <4> QED  BY <4>1
    <3>2. C * x = C * y + C + C * z /\ C * z \in Nat
      BY <3>1, <1>1, SMTT(20), SMTT(30)
    <3> QED  BY <3>2, <1>1, <1>2, <1>3, SMTT(20), SMTT(30)
  <2> QED  BY <2>1
<1>6. x = y
  BY <1>1, <1>4, <1>5, SMTT(20), SMTT(30)
<1>7. y * C = s
  BY <1>1, <1>3, <1>6, SMTT(20), SMTT(30)
<1> QED  BY <1>7 DEF y

\* pmm_free of an aligned block of which no frame is free, by any of its frames,
\* makes exactly its frames free.
LEMMA FreeGivesBlock ==
  ASSUME Counting, NEW b, Tidy(b), NEW l \in Levels, NEW s \in Frames, s % Capacity[l] = 0,
         s + Capacity[l] <= NFrames, \A g \in Nat : InBlock(g, l, s) => ~ Offers(b, g),
         NEW f \in Nat, InBlock(f, l, s), NEW c, c = after_free(b, Capacity[l], f)
  PROVE  /\ Tidy(c)
         /\ \A g \in Nat : Offers(c, g) <=> Offers(b, g) \/ InBlock(g, l, s)
<1>1. /\ s \in Nat /\ NFrames \in Nat
      /\ \A m \in Levels : Capacity[m] \in Nat /\ Capacity[m] >= 1
      /\ \A m \in Levels : \A t \in b[m] : t \in Nat
  BY TidyTypes, BuddiesAssumption
<1>2. (f \div Capacity[l]) * Capacity[l] = s
  BY <1>1, BlockStart DEF InBlock
<1>3. c = [b EXCEPT ![l] = b[l] \cup {s}]
  BY <1>2, Log2Capacity DEF after_free
<1>4. b \in [Levels -> SUBSET Frames]
  BY DEF Tidy
<1>5. c \in [Levels -> SUBSET Frames]
  BY <1>3, <1>4
<1>6. \A m \in Levels : c[m] = IF m = l THEN b[l] \cup {s} ELSE b[m]
  BY <1>3, <1>4
<1>7. ASSUME NEW g \in Nat
      PROVE  Offers(c, g) <=> Offers(b, g) \/ InBlock(g, l, s)
  <2>1. ASSUME Offers(c, g) PROVE Offers(b, g) \/ InBlock(g, l, s)
    <3>0. PICK m \in Levels : \E t \in c[m] : InBlock(g, m, t)
      BY <2>1 DEF Offers
    <3>1. PICK t \in c[m] : InBlock(g, m, t)
      BY <3>0
    <3>2. CASE t \in b[m]
      BY <3>1, <3>2 DEF Offers
    <3>3. CASE m = l /\ t = s
      BY <3>1, <3>3
    <3> QED  BY <3>2, <3>3, <1>6
  <2>2. ASSUME Offers(b, g) PROVE Offers(c, g)
    <3>1. \A m \in Levels : \A t \in b[m] : t \in c[m]
      BY <1>6
    <3> QED  BY <2>2, <3>1 DEF Offers
  <2>3. ASSUME InBlock(g, l, s) PROVE Offers(c, g)
    BY <2>3, <1>6 DEF Offers
  <2> QED  BY <2>1, <2>2, <2>3
<1>8. ASSUME NEW m \in Levels, NEW t \in c[m] PROVE t + Capacity[m] <= NFrames
  <2>1. CASE t \in b[m]
    BY <2>1 DEF Tidy
  <2>2. CASE m = l /\ t = s
    BY <2>2
  <2> QED  BY <2>1, <2>2, <1>6
\* A block that overlapped the one that is freed would offer a frame of it.
<1>9. ASSUME NEW m \in Levels, NEW t \in b[m] PROVE Disjoined(l, s, m, t)
  <2>1. t \in Nat /\ Capacity[m] \in Nat /\ Capacity[m] >= 1 /\ Capacity[l] \in Nat /\ Capacity[l] >= 1
    BY <1>1
  <2>2. ~ (InBlock(s, m, t))
    <3>1. InBlock(s, l, s)
      BY <1>1, <2>1, SMTT(20), SMTT(30) DEF InBlock
    <3>2. ~ Offers(b, s)
      BY <1>1, <3>1
    <3> QED  BY <3>2 DEF Offers
  <2>3. ~ (InBlock(t, l, s))
    <3>1. InBlock(t, m, t)
      BY <2>1, SMTT(20), SMTT(30) DEF InBlock
    <3>2. Offers(b, t)
      BY <3>1 DEF Offers
    <3> QED  BY <2>1, <3>2
  <2> QED  BY <2>1, <2>2, <2>3, <1>1, SMTT(20), SMTT(30) DEF InBlock, Disjoined
<1>10. ASSUME NEW j \in Levels, NEW m \in Levels, NEW x \in c[j], NEW t \in c[m], j # m \/ x # t
       PROVE  Disjoined(j, x, m, t)
  <2>1. CASE x \in b[j] /\ t \in b[m]
    BY <1>10, <2>1 DEF Tidy
  <2>2. CASE j = l /\ x = s /\ t \in b[m]
    BY <2>2, <1>9
  <2>3. CASE x \in b[j] /\ m = l /\ t = s
    BY <2>3, <1>9 DEF Disjoined
  <2> QED  BY <2>1, <2>2, <2>3, <1>6, <1>10
<1> QED  BY <1>5, <1>7, <1>8, <1>10 DEF Tidy

\* After pmm_init every frame is free.
LEMMA FreshTidy ==
  ASSUME Counting
  PROVE  Tidy(FreshBuddies) /\ \A f \in Frames : Offers(FreshBuddies, f)
<1> DEFINE C == Capacity[Top]
           b == FreshBuddies
<1>1. /\ Top \in Levels /\ C \in Nat /\ C >= 1 /\ NFrames \in Nat /\ NFrames % C = 0
      /\ Frames \subseteq Nat /\ Levels \subseteq Nat
  <2>1. Top \in Levels /\ Frames \subseteq Nat /\ Levels \subseteq Nat
    BY BuddiesAssumption, SMTT(20), SMTT(30) DEF Top, Levels, Frames
  <2> QED  BY <2>1, Capacities, BuddiesAssumption
<1> HIDE DEF C
<1>2. /\ b \in [Levels -> SUBSET Frames]
      /\ \A l \in Levels, s \in Frames : s \in b[l] <=> l = Top /\ s % C = 0
  BY DEF FreshBuddies, C
<1> HIDE DEF b
\* Multiples of the capacity are a capacity apart.
<1>3. ASSUME NEW s \in Nat, NEW t \in Nat, s % C = 0, t % C = 0, s < t
      PROVE  s + C <= t
  <2>1. s = C * (s \div C) /\ t = C * (t \div C) /\ s \div C \in Nat /\ t \div C \in Nat
    BY <1>1, <1>3, SMTT(20), SMTT(30)
  <2>2. PICK x \in Nat, y \in Nat : s = C * x /\ t = C * y
    BY <2>1
  <2>3. x < y
    <3>1. ASSUME y <= x PROVE FALSE
      <4>1. PICK z \in Nat : x = y + z
        <5>1. x - y \in Nat /\ x = y + (x - y)
          BY <3>1, SMTT(20), SMTT(30)
        <5> QED  BY <5>1
      <4>2. C * x = C * y + C * z /\ C * z \in Nat
        BY <4>1, <1>1, SMTT(20), SMTT(30)
      <4> QED  BY <4>2, <2>2, <1>3, SMTT(20), SMTT(30)
    <3> QED  BY <3>1, SMTT(20), SMTT(30)
  <2>4. PICK z \in Nat : y = x + 1 + z
    <3>1. y - x - 1 \in Nat /\ y = x + 1 + (y - x - 1)
      BY <2>3, SMTT(20), SMTT(30)
    <3> QED  BY <3>1
  <2>5. C * y = C * x + C + C * z /\ C * z \in Nat /\ C * x \in Nat
    BY <2>4, <1>1, SMTT(20), SMTT(30)
  <2> QED  BY <2>5, <2>2, <1>1, SMTT(20), SMTT(30)
<1>4. ASSUME NEW l \in Levels, NEW s \in b[l] PROVE l = Top /\ s \in Nat /\ s % C = 0 /\ s < NFrames
  BY <1>1, <1>2, SMTT(20), SMTT(30) DEF Frames
<1>5. \A l \in Levels : \A s \in b[l] : s + Capacity[l] <= NFrames
  BY <1>1, <1>3, <1>4 DEF C
<1>6. \A l, m \in Levels : \A s \in b[l], t \in b[m] : l # m \/ s # t => Disjoined(l, s, m, t)
  <2> TAKE l \in Levels, m \in Levels
  <2> TAKE s \in b[l], t \in b[m]
  <2>1. l = Top /\ m = Top /\ s \in Nat /\ t \in Nat /\ s % C = 0 /\ t % C = 0
    BY <1>4
  <2>2. CASE s < t
    BY <2>1, <2>2, <1>3 DEF C, Disjoined
  <2>3. CASE t < s
    BY <2>1, <2>3, <1>3 DEF C, Disjoined
  <2>4. CASE s = t
    BY <2>1, <2>4
  <2> QED  BY <2>1, <2>2, <2>3, <2>4, SMTT(20), SMTT(30)
<1>7. ASSUME NEW f \in Frames PROVE Offers(b, f)
  <2> DEFINE s == C * (f \div C)
  <2>1. f \in Nat /\ f < NFrames
    BY <1>1, SMTT(20), SMTT(30) DEF Frames
  <2>2. f \div C \in Nat /\ f = s + (f % C) /\ f % C \in Nat /\ f % C < C /\ s \in Nat
    BY <2>1, <1>1, SMTT(20), SMTT(30)
  <2>3. s % C = 0
    <3>1. PICK q \in Nat : q = f \div C
      BY <2>2
    <3>2. (C * q) \div C = q /\ C * q \in Nat
      BY <1>1, SMTT(20), SMTT(30)
    <3>3. C * q = C * ((C * q) \div C) + ((C * q) % C)
      BY <3>2, <1>1, SMTT(20), SMTT(30)
    <3>4. (C * q) % C = 0
      <4> DEFINE r == (C * q) % C
                 p == C * q
      <4>1. p = p + r /\ p \in Nat /\ r \in Nat
        BY <3>2, <3>3, <1>1, SMTT(20), SMTT(30)
      <4> HIDE DEF p, r
      <4>2. r = 0
        BY <4>1, SMTT(20), SMTT(30)
      <4> QED  BY <4>2 DEF r
    <3> QED  BY <3>1, <3>4
  <2> HIDE DEF s
  <2>4. s \in Frames /\ s <= f /\ f < s + C
    BY <2>1, <2>2, <1>1, SMTT(20), SMTT(30) DEF Frames
  <2>5. s \in b[Top] /\ InBlock(f, Top, s)
    BY <2>3, <2>4, <1>1, <1>2 DEF InBlock, C
  <2> QED  BY <2>5, <1>1 DEF Offers
<1>8. Tidy(b)
  BY <1>2, <1>5, <1>6 DEF Tidy
<1> QED  BY <1>7, <1>8 DEF b

-----------------------------------------------------------------------------
(***************************************************************************)
(* The lists of vm.c.                                                      *)
(***************************************************************************)
\* The statics of vm.c that Buckets models.  A caller may keep more fields.
Fields == {"status", "buckets", "waiting", "node", "steal_next", "steal_remaining"}

\* vm_free_bucket_t, over the nodes D that exist.
NodeType(D) == [pageno : Nat, size : Nat, next : D \cup {NULL}, prev : D \cup {NULL}]

\* The statics hold what their C types say, and every link leads to a node
\* or is NULL.
Typed(v) ==
  /\ v = [f \in DOMAIN v |-> v[f]]
  /\ Fields \subseteq DOMAIN v
  /\ DOMAIN v.node \subseteq Nat \ {NULL}
  /\ IsFiniteSet(DOMAIN v.node)
  /\ v.node \in [DOMAIN v.node -> NodeType(DOMAIN v.node)]
  /\ {v.buckets, v.waiting} \subseteq DOMAIN v.node \cup {NULL}

\* w differs from v at most in the fields S.
SameBut(v, w, S) == DOMAIN w = DOMAIN v /\ \A f \in DOMAIN v : f \notin S => w[f] = v[f]

\* w is v with the fields of node a set as given.
Sets(v, w, a, pageno, size, next, prev) ==
  /\ Typed(w)
  /\ SameBut(v, w, {"node"})
  /\ DOMAIN w.node = DOMAIN v.node
  /\ \A b \in DOMAIN v.node : b # a => w.node[b] = v.node[b]
  /\ w.node[a].pageno = pageno /\ w.node[a].size = size
  /\ w.node[a].next = next /\ w.node[a].prev = prev

\* w is v with the head of `list' set to x.
SetsHead(v, w, list, x) == Typed(w) /\ SameBut(v, w, {list}) /\ w[list] = x

\* Assigning to a->next changes nothing else.
LEMMA SetNext ==
  ASSUME NEW v, Typed(v), NEW a \in DOMAIN v.node, NEW x \in DOMAIN v.node \cup {NULL}
  PROVE  Sets(v, [v EXCEPT !.node[a].next = x], a, v.node[a].pageno, v.node[a].size, x, v.node[a].prev)
<1> DEFINE w == [v EXCEPT !.node[a].next = x]
<1>1. w.node \in [DOMAIN v.node -> NodeType(DOMAIN v.node)]
  BY SMTT(20), SMTT(30) DEF Typed, Fields, NodeType
<1> QED  BY <1>1, SMTT(20), SMTT(30) DEF Sets, Typed, Fields, NodeType, SameBut

\* Assigning to a->prev changes nothing else.
LEMMA SetPrev ==
  ASSUME NEW v, Typed(v), NEW a \in DOMAIN v.node, NEW x \in DOMAIN v.node \cup {NULL}
  PROVE  Sets(v, [v EXCEPT !.node[a].prev = x], a, v.node[a].pageno, v.node[a].size, v.node[a].next, x)
<1> DEFINE w == [v EXCEPT !.node[a].prev = x]
<1>1. w.node \in [DOMAIN v.node -> NodeType(DOMAIN v.node)]
  BY SMTT(20), SMTT(30) DEF Typed, Fields, NodeType
<1> QED  BY <1>1, SMTT(20), SMTT(30) DEF Sets, Typed, Fields, NodeType, SameBut

\* Assigning to a->pageno changes nothing else.
LEMMA SetPageno ==
  ASSUME NEW v, Typed(v), NEW a \in DOMAIN v.node, NEW x \in Nat
  PROVE  Sets(v, [v EXCEPT !.node[a].pageno = x], a, x, v.node[a].size, v.node[a].next, v.node[a].prev)
<1> DEFINE w == [v EXCEPT !.node[a].pageno = x]
<1>1. w.node \in [DOMAIN v.node -> NodeType(DOMAIN v.node)]
  BY SMTT(20), SMTT(30) DEF Typed, Fields, NodeType
<1> QED  BY <1>1, SMTT(20), SMTT(30) DEF Sets, Typed, Fields, NodeType, SameBut

\* Assigning to a->size changes nothing else.
LEMMA SetSize ==
  ASSUME NEW v, Typed(v), NEW a \in DOMAIN v.node, NEW x \in Nat
  PROVE  Sets(v, [v EXCEPT !.node[a].size = x], a, v.node[a].pageno, x, v.node[a].next, v.node[a].prev)
<1> DEFINE w == [v EXCEPT !.node[a].size = x]
<1>1. w.node \in [DOMAIN v.node -> NodeType(DOMAIN v.node)]
  BY SMTT(20), SMTT(30) DEF Typed, Fields, NodeType
<1> QED  BY <1>1, SMTT(20), SMTT(30) DEF Sets, Typed, Fields, NodeType, SameBut

\* Assigning to a->pageno and a->size, as vm_return_pages does to its item,
\* changes no link.
LEMMA SetRun ==
  ASSUME NEW v, Typed(v), NEW a \in DOMAIN v.node, NEW p \in Nat, NEW s \in Nat
  PROVE  Sets(v, [v EXCEPT !.node[a].pageno = p, !.node[a].size = s], a,
              p, s, v.node[a].next, v.node[a].prev)
<1> DEFINE u == [v EXCEPT !.node[a].pageno = p]
           w == [u EXCEPT !.node[a].size = s]
<1>1. w = [v EXCEPT !.node[a].pageno = p, !.node[a].size = s]
  BY DEF Typed, Fields
<1>2. Sets(v, u, a, p, v.node[a].size, v.node[a].next, v.node[a].prev)
  BY SetPageno
<1> HIDE DEF u
<1>3. Sets(u, w, a, u.node[a].pageno, s, u.node[a].next, u.node[a].prev)
  <2>1. Typed(u) /\ a \in DOMAIN u.node
    BY <1>2 DEF Sets
  <2> QED  BY <2>1, SetSize
<1> HIDE DEF w
<1>4. Sets(v, w, a, p, s, v.node[a].next, v.node[a].prev)
  BY <1>2, <1>3 DEF Sets, SameBut
<1> QED  BY <1>1, <1>4

\* Assigning to vm_kernel_buckets or vm_waiting_list changes no node.
LEMMA SetHead ==
  ASSUME NEW v, Typed(v), NEW list \in {"buckets", "waiting"},
         NEW x \in DOMAIN v.node \cup {NULL}
  PROVE  SetsHead(v, [v EXCEPT ![list] = x], list, x)
  BY DEF SetsHead, Typed, Fields, SameBut

-----------------------------------------------------------------------------
\* c is the list of n nodes that next leads through from `head'.
Track(node, head, n, c) ==
  /\ n \in Nat
  /\ c \in [0..(n + 1) -> DOMAIN node \cup {NULL}]
  /\ c[0] = NULL /\ c[n + 1] = NULL /\ c[1] = head
  /\ \A i \in 1..n : c[i] \in DOMAIN node /\ node[c[i]].next = c[i + 1]
  /\ \A i, j \in 1..n : c[i] = c[j] => i = j

\* A track whose prev links agree with it.
Rail(node, head, n, c) ==
  /\ Track(node, head, n, c)
  /\ \A i \in 1..n : node[c[i]].prev = c[i - 1]

\* The two lists, and the nodes `out' that are in neither.
Lists(v, n, c, m, d, out) ==
  /\ Rail(v.node, v.buckets, n, c)
  /\ Track(v.node, v.waiting, m, d)
  /\ \A i \in 1..n, j \in 1..m : c[i] # d[j]
  /\ out \subseteq DOMAIN v.node
  /\ \A i \in 1..n : c[i] \notin out
  /\ \A j \in 1..m : d[j] \notin out
  /\ \A a \in DOMAIN v.node \ out :
       (\E i \in 1..n : c[i] = a) \/ (\E j \in 1..m : d[j] = a)

\* The rail c without its node at k.
Drop(n, c, k) == [i \in 0..n |-> IF i < k THEN c[i] ELSE c[i + 1]]

\* The track d with a put in front.
Push(m, d, a) == [j \in 0..(m + 2) |-> IF j = 0 THEN NULL ELSE IF j = 1 THEN a ELSE d[j - 1]]

\* No bucket of v has another run in w.
SameRuns(v, w) ==
  /\ DOMAIN w.node = DOMAIN v.node
  /\ \A a \in DOMAIN v.node : /\ w.node[a].pageno = v.node[a].pageno
                              /\ w.node[a].size = v.node[a].size

\* What ll_remove_item assigns: item is taken from between pv and nx.
Unlinked(v, w, item, nx, pv) ==
  /\ Typed(w)
  /\ SameBut(v, w, {"node", "buckets"})
  /\ SameRuns(v, w)
  /\ w.buckets = IF pv = NULL THEN nx ELSE v.buckets
  /\ \A a \in DOMAIN v.node :
       /\ w.node[a].next = IF a = item THEN NULL ELSE IF a = pv THEN nx ELSE v.node[a].next
       /\ w.node[a].prev = IF a = item THEN NULL ELSE IF a = nx THEN pv ELSE v.node[a].prev

\* The effect of ll_remove_item on the bucket list, field by field, wherever
\* the item stands.
LEMMA RemoveFields ==
  ASSUME NEW v, Typed(v), NEW item \in DOMAIN v.node
  PROVE  Unlinked(v, ll_remove_item(v, "buckets", item), item,
                  v.node[item].next, v.node[item].prev)
<1> DEFINE w == ll_remove_item(v, "buckets", item)
           nx == v.node[item].next
           pv == v.node[item].prev
           v1 == IF nx = NULL THEN v ELSE [v EXCEPT !.node[nx].prev = pv]
           v2 == IF pv = NULL THEN [v1 EXCEPT !["buckets"] = nx]
                              ELSE [v1 EXCEPT !.node[pv].next = nx]
           v3 == [v2 EXCEPT !.node[item].next = NULL]
           v4 == [v3 EXCEPT !.node[item].prev = NULL]
<1>0. /\ nx \in DOMAIN v.node \cup {NULL} /\ pv \in DOMAIN v.node \cup {NULL}
      /\ NULL \notin DOMAIN v.node
      /\ Fields \subseteq DOMAIN v
  BY DEF Typed, NodeType
<1>1. w = v4
  BY DEF ll_remove_item
<1> HIDE DEF w, nx, pv
<1>2. /\ Typed(v1) /\ SameBut(v, v1, {"node"}) /\ SameRuns(v, v1)
      /\ \A a \in DOMAIN v.node :
           /\ v1.node[a].next = v.node[a].next
           /\ v1.node[a].prev = IF a = nx THEN pv ELSE v.node[a].prev
  <2>1. CASE nx = NULL
    BY <2>1, <1>0 DEF SameBut, SameRuns
  <2>2. CASE nx # NULL
    <3>1. Sets(v, v1, nx, v.node[nx].pageno, v.node[nx].size, v.node[nx].next, pv)
      BY <2>2, <1>0, SetPrev
    <3> HIDE DEF v1
    <3> QED  BY <3>1 DEF Sets, SameRuns
  <2> QED  BY <2>1, <2>2
<1> HIDE DEF v1
<1>3. /\ Typed(v2) /\ SameBut(v, v2, {"node", "buckets"}) /\ SameRuns(v, v2)
      /\ v2.buckets = IF pv = NULL THEN nx ELSE v.buckets
      /\ \A a \in DOMAIN v.node :
           /\ v2.node[a].next = IF a = pv THEN nx ELSE v.node[a].next
           /\ v2.node[a].prev = IF a = nx THEN pv ELSE v.node[a].prev
  <2>a. DOMAIN v1.node = DOMAIN v.node
    BY <1>2 DEF SameRuns
  <2>1. CASE pv = NULL
    <3>1. SetsHead(v1, v2, "buckets", nx)
      BY <2>1, <1>0, <1>2, <2>a, SetHead
    <3> HIDE DEF v2
    <3>2. Typed(v2) /\ SameBut(v1, v2, {"buckets"}) /\ v2.buckets = nx
      BY <3>1 DEF SetsHead
    <3>3. v2.node = v1.node /\ SameBut(v, v2, {"node", "buckets"})
      BY <3>2, <1>2, <1>0 DEF SameBut, Fields
    <3> QED  BY <3>2, <3>3, <2>1, <1>0, <1>2 DEF SameRuns
  <2>2. CASE pv # NULL
    <3>1. Sets(v1, v2, pv, v1.node[pv].pageno, v1.node[pv].size, nx, v1.node[pv].prev)
      BY <2>2, <1>0, <1>2, <2>a, SetNext
    <3> HIDE DEF v2
    <3>2. SameBut(v, v2, {"node", "buckets"}) /\ v2.buckets = v.buckets
      BY <3>1, <1>2, <1>0 DEF Sets, SameBut, Fields
    <3> QED  BY <3>1, <3>2, <2>2, <1>2, SMTT(20), SMTT(30) DEF Sets, SameRuns
  <2> QED  BY <2>1, <2>2
<1> HIDE DEF v2
<1>4. Sets(v2, v3, item, v2.node[item].pageno, v2.node[item].size, NULL, v2.node[item].prev)
  <2>1. Typed(v2) /\ item \in DOMAIN v2.node
    BY <1>3 DEF SameRuns
  <2> QED  BY <2>1, SetNext
<1> HIDE DEF v3
<1>5. Sets(v3, w, item, v3.node[item].pageno, v3.node[item].size, v3.node[item].next, NULL)
  <2>1. Typed(v3) /\ item \in DOMAIN v3.node
    BY <1>3, <1>4 DEF Sets, SameRuns
  <2> QED  BY <1>1, <2>1, SetPrev
<1> HIDE DEF v4
<1>6. SameBut(v, w, {"node", "buckets"}) /\ w.buckets = v2.buckets
  BY <1>3, <1>4, <1>5, <1>0 DEF Sets, SameBut, Fields
<1>7. /\ DOMAIN w.node = DOMAIN v.node
      /\ \A a \in DOMAIN v.node : a # item => w.node[a] = v2.node[a]
      /\ w.node[item].next = NULL /\ w.node[item].prev = NULL
      /\ w.node[item].pageno = v2.node[item].pageno /\ w.node[item].size = v2.node[item].size
  BY <1>3, <1>4, <1>5 DEF Sets, SameRuns
<1>8. SameRuns(v, w)
  BY <1>3, <1>7 DEF SameRuns
<1>9. \A a \in DOMAIN v.node :
        /\ w.node[a].next = IF a = item THEN NULL ELSE IF a = pv THEN nx ELSE v.node[a].next
        /\ w.node[a].prev = IF a = item THEN NULL ELSE IF a = nx THEN pv ELSE v.node[a].prev
  BY <1>3, <1>7
<1>10. Typed(w)
  BY <1>5 DEF Sets
<1>11. Unlinked(v, w, item, nx, pv)
  BY <1>3, <1>6, <1>8, <1>9, <1>10 DEF Unlinked
<1> QED  BY <1>11 DEF w, nx, pv

\* ll_remove_item takes the k-th bucket out of the list and nothing else: the
\* rest keeps its order, and the node is left with both links NULL, as the
\* ASSERT of ll_push_item asks.
LEMMA Remove ==
  ASSUME NEW v, Typed(v), NEW n, NEW c, NEW m, NEW d, NEW out, Lists(v, n, c, m, d, out),
         NEW k \in 1..n, NEW w, w = ll_remove_item(v, "buckets", c[k])
  PROVE  /\ Typed(w)
         /\ SameBut(v, w, {"node", "buckets"})
         /\ SameRuns(v, w)
         /\ w.node[c[k]].next = NULL /\ w.node[c[k]].prev = NULL
         /\ Lists(w, n - 1, Drop(n, c, k), m, d, out \cup {c[k]})
<1> DEFINE e == Drop(n, c, k)
<1>1. /\ n \in Nat /\ c \in [0..(n + 1) -> DOMAIN v.node \cup {NULL}]
      /\ c[0] = NULL /\ c[n + 1] = NULL /\ c[1] = v.buckets
      /\ \A i \in 1..n : c[i] \in DOMAIN v.node /\ v.node[c[i]].next = c[i + 1]
                                                /\ v.node[c[i]].prev = c[i - 1]
      /\ NULL \notin DOMAIN v.node
  BY DEF Lists, Rail, Track, Typed
<1>a. \A i, j \in 1..n : c[i] = c[j] => i = j
  BY DEF Lists, Rail, Track
<1>b. n \in Nat /\ k \in Nat /\ 1 <= k /\ k <= n
  BY <1>1, SMTT(20), SMTT(30)
<1>2. /\ Typed(w)
      /\ SameBut(v, w, {"node", "buckets"})
      /\ SameRuns(v, w)
      /\ w.buckets = IF c[k - 1] = NULL THEN c[k + 1] ELSE v.buckets
      /\ \A a \in DOMAIN v.node :
           /\ w.node[a].next = IF a = c[k] THEN NULL
                               ELSE IF a = c[k - 1] THEN c[k + 1] ELSE v.node[a].next
           /\ w.node[a].prev = IF a = c[k] THEN NULL
                               ELSE IF a = c[k + 1] THEN c[k - 1] ELSE v.node[a].prev
  <2>1. Unlinked(v, w, c[k], v.node[c[k]].next, v.node[c[k]].prev)
    BY <1>1, RemoveFields
  <2>2. v.node[c[k]].next = c[k + 1] /\ v.node[c[k]].prev = c[k - 1]
    BY <1>1
  <2>3. Unlinked(v, w, c[k], c[k + 1], c[k - 1])
    BY <2>1, <2>2
  <2> QED  BY <2>3 DEF Unlinked
<1>3. DOMAIN w.node = DOMAIN v.node /\ w.waiting = v.waiting
  BY <1>2 DEF SameRuns, SameBut, Typed, Fields
<1>4. /\ n - 1 \in Nat
      /\ e \in [0..n -> DOMAIN v.node \cup {NULL}]
      /\ \A i \in 0..n : e[i] = IF i < k THEN c[i] ELSE c[i + 1]
  BY <1>1, SMTT(20), SMTT(30) DEF Drop
<1> HIDE DEF e
<1>5. Rail(w.node, w.buckets, n - 1, e)
  <2>1. e[0] = NULL /\ e[(n - 1) + 1] = NULL
    BY <1>1, <1>4, SMTT(20), SMTT(30)
  <2>2. e[1] = w.buckets
    <3>1. CASE k = 1
      BY <3>1, <1>1, <1>2, <1>4, SMTT(20), SMTT(30)
    <3>2. CASE k # 1
      BY <3>2, <1>1, <1>2, <1>4, SMTT(20), SMTT(30)
    <3> QED  BY <3>1, <3>2
  <2>3. ASSUME NEW i \in 1..(n - 1)
        PROVE  e[i] \in DOMAIN w.node /\ w.node[e[i]].next = e[i + 1] /\ w.node[e[i]].prev = e[i - 1]
    <3>1. CASE i < k
      <4>1. e[i] = c[i] /\ e[i - 1] = c[i - 1] /\ i \in 1..n
        BY <3>1, <1>b, <1>4, SMTT(20), SMTT(30)
      <4>2. c[i] # c[k]
        BY <3>1, <1>a, <1>b, <4>1, SMTT(20), SMTT(30)
      <4>3. c[i] # c[k + 1]
        BY <3>1, <1>1, <1>a, <1>b, <4>1, SMTT(20), SMTT(30)
      <4>4. CASE i = k - 1
        <5>1. e[i + 1] = c[k + 1] /\ c[i] = c[k - 1]
          BY <4>4, <1>b, <1>4, SMTT(20), SMTT(30)
        <5>2. w.node[c[i]].next = c[k + 1] /\ w.node[c[i]].prev = v.node[c[i]].prev
          BY <4>1, <4>2, <4>3, <5>1, <1>1, <1>2
        <5> QED  BY <4>1, <5>1, <5>2, <1>1, <1>3
      <4>5. CASE i # k - 1
        <5>1. e[i + 1] = c[i + 1]
          BY <4>5, <3>1, <1>b, <1>4, SMTT(20), SMTT(30)
        <5>2. c[i] # c[k - 1]
          BY <4>1, <4>5, <1>1, <1>a, <1>b, SMTT(20), SMTT(30)
        <5>3. w.node[c[i]].next = v.node[c[i]].next /\ w.node[c[i]].prev = v.node[c[i]].prev
          BY <4>1, <4>2, <4>3, <5>2, <1>1, <1>2
        <5> QED  BY <4>1, <5>1, <5>3, <1>1, <1>3
      <4> QED  BY <4>4, <4>5
    <3>2. CASE i >= k
      <4> DEFINE h == i + 1
      <4>1. h \in 1..n /\ h > k /\ e[i] = c[h] /\ e[i + 1] = c[h + 1]
        BY <3>2, <1>b, <1>4, SMTT(20), SMTT(30)
      <4>2. c[h] # c[k]
        BY <1>a, <1>b, <4>1, SMTT(20), SMTT(30)
      <4>3. c[h] # c[k - 1]
        BY <1>1, <1>a, <1>b, <4>1, SMTT(20), SMTT(30)
      <4>4. CASE i = k
        <5>1. e[i - 1] = c[k - 1] /\ c[h] = c[k + 1]
          BY <4>4, <1>b, <1>4, SMTT(20), SMTT(30)
        <5> HIDE DEF h
        <5>2. w.node[c[h]].next = v.node[c[h]].next /\ w.node[c[h]].prev = c[k - 1]
          BY <4>1, <4>2, <4>3, <5>1, <1>1, <1>2
        <5> QED  BY <4>1, <5>1, <5>2, <1>1, <1>3
      <4>5. CASE i # k
        <5>1. e[i - 1] = c[h - 1]
          BY <4>5, <3>2, <1>b, <1>4, SMTT(20), SMTT(30)
        <5>2. c[h] # c[k + 1]
          BY <4>1, <4>5, <3>2, <1>1, <1>a, <1>b, SMTT(20), SMTT(30)
        <5> HIDE DEF h
        <5>3. w.node[c[h]].next = v.node[c[h]].next /\ w.node[c[h]].prev = v.node[c[h]].prev
          BY <4>1, <4>2, <4>3, <5>2, <1>1, <1>2
        <5> QED  BY <4>1, <5>1, <5>3, <1>1, <1>3
      <4> QED  BY <4>4, <4>5
    <3> QED  BY <3>1, <3>2, <1>1, SMTT(20), SMTT(30)
  <2>4. \A i, j \in 1..(n - 1) : e[i] = e[j] => i = j
    <3> SUFFICES ASSUME NEW i \in 1..(n - 1), NEW j \in 1..(n - 1), e[i] = e[j] PROVE i = j
      OBVIOUS
    <3>1. /\ i < k => i \in 1..n /\ e[i] = c[i]
          /\ ~ (i < k) => i + 1 \in 1..n /\ e[i] = c[i + 1]
          /\ j < k => j \in 1..n /\ e[j] = c[j]
          /\ ~ (j < k) => j + 1 \in 1..n /\ e[j] = c[j + 1]
      BY <1>b, <1>4, SMTT(20), SMTT(30)
    <3>2. (IF i < k THEN i ELSE i + 1) = (IF j < k THEN j ELSE j + 1)
      BY <1>a, <3>1
    <3> QED  BY <1>b, <3>2, SMTT(20), SMTT(30)
  <2>5. e \in [0..((n - 1) + 1) -> DOMAIN w.node \cup {NULL}]
    BY <1>1, <1>3, <1>4, SMTT(20), SMTT(30)
  <2> QED  BY <1>4, <2>1, <2>2, <2>3, <2>4, <2>5 DEF Rail, Track
<1>6. Track(w.node, w.waiting, m, d)
  <2>1. \A j \in 1..m : d[j] \in DOMAIN v.node /\ d[j] # c[k] /\ d[j] # c[k - 1]
    BY <1>1, SMTT(20), SMTT(30) DEF Lists, Track
  <2>2. \A j \in 1..m : w.node[d[j]].next = v.node[d[j]].next
    BY <2>1, <1>2
  <2> QED  BY <2>1, <2>2, <1>3 DEF Lists, Track
<1>7. \A i \in 1..(n - 1) : \E j \in 1..n : e[i] = c[j] /\ j # k
  <2> TAKE i \in 1..(n - 1)
  <2>1. (IF i < k THEN i ELSE i + 1) \in 1..n /\ (IF i < k THEN i ELSE i + 1) # k
    BY <1>b, SMTT(20), SMTT(30)
  <2>2. e[i] = c[IF i < k THEN i ELSE i + 1]
    BY <1>b, <1>4, SMTT(20), SMTT(30)
  <2> QED  BY <2>1, <2>2
<1>8. \A j \in 1..n : j # k => \E i \in 1..(n - 1) : e[i] = c[j]
  <2> TAKE j \in 1..n
  <2> HAVE j # k
  <2>1. (IF j < k THEN j ELSE j - 1) \in 1..(n - 1)
    BY <1>b, SMTT(20), SMTT(30)
  <2>2. e[IF j < k THEN j ELSE j - 1] = c[j]
    BY <1>b, <1>4, SMTT(20), SMTT(30)
  <2> QED  BY <2>1, <2>2
<1>9. \A a \in DOMAIN w.node \ (out \cup {c[k]}) :
        (\E i \in 1..(n - 1) : e[i] = a) \/ (\E j \in 1..m : d[j] = a)
  BY <1>3, <1>8, SMTT(20), SMTT(30) DEF Lists
<1>10. /\ \A i \in 1..(n - 1) : e[i] \notin out \cup {c[k]}
       /\ \A i \in 1..(n - 1), j \in 1..m : e[i] # d[j]
  <2>1. \A j \in 1..n : j # k => c[j] \notin out \cup {c[k]}
    BY <1>a DEF Lists
  <2>2. \A i \in 1..n, j \in 1..m : c[i] # d[j]
    BY DEF Lists
  <2> QED  BY <1>7, <2>1, <2>2, SMTT(20), SMTT(30)
<1>11. Lists(w, n - 1, e, m, d, out \cup {c[k]})
  BY <1>1, <1>3, <1>5, <1>6, <1>9, <1>10 DEF Lists
<1> QED  BY <1>1, <1>2, <1>11 DEF e

\* What ll_push_item assigns on the waiting list.
Pushed(v, w, item) ==
  /\ Typed(w)
  /\ SameBut(v, w, {"node", "waiting"})
  /\ SameRuns(v, w)
  /\ w.waiting = item
  /\ \A a \in DOMAIN v.node :
       /\ w.node[a].next = IF a = item THEN v.waiting ELSE v.node[a].next
       /\ w.node[a].prev = IF a = v.waiting THEN item ELSE v.node[a].prev

\* The effect of ll_push_item on the waiting list, field by field.  The ASSERT
\* on the links of the item holds.
LEMMA PushFields ==
  ASSUME NEW v, Typed(v), NEW item \in DOMAIN v.node,
         v.node[item].next = NULL, v.node[item].prev = NULL, v.waiting # item
  PROVE  Pushed(v, ll_push_item(v, "waiting", item), item)
<1> DEFINE w   == ll_push_item(v, "waiting", item)
           old == v.waiting
           v1  == [v EXCEPT !["waiting"] = item]
           v2  == [v1 EXCEPT !.node[old].prev = item]
           v3  == [v2 EXCEPT !.node[item].next = old]
<1>0. Fields \subseteq DOMAIN v /\ NULL \notin DOMAIN v.node /\ old \in DOMAIN v.node \cup {NULL}
  BY DEF Typed
<1>1. SetsHead(v, v1, "waiting", item)
  BY SetHead
<1>2. CASE old = NULL
  <2>1. w = v1
    BY <1>2 DEF ll_push_item
  <2> HIDE DEF v1, w
  <2>2. Typed(v1) /\ SameBut(v, v1, {"node", "waiting"}) /\ v1.waiting = item /\ v1.node = v.node
    BY <1>0, <1>1 DEF SetsHead, SameBut, Fields
  <2>3. Pushed(v, v1, item)
    BY <2>2, <1>0, <1>2 DEF Pushed, SameRuns
  <2> QED  BY <2>1, <2>3 DEF w
<1>3. CASE old # NULL
  <2>1. w = v3
    BY <1>3 DEF ll_push_item
  <2> HIDE DEF w, v1, old
  <2>2. /\ Typed(v1) /\ SameBut(v, v1, {"waiting"}) /\ v1.waiting = item
        /\ v1.node = v.node /\ old \in DOMAIN v.node /\ item # old
    BY <1>0, <1>1, <1>3 DEF SetsHead, SameBut, Fields, old
  <2>3. Sets(v1, v2, old, v1.node[old].pageno, v1.node[old].size, v1.node[old].next, item)
    BY <2>2, SetPrev
  <2> HIDE DEF v2
  <2>4. Sets(v2, v3, item, v2.node[item].pageno, v2.node[item].size, old, v2.node[item].prev)
    <3>1. Typed(v2) /\ item \in DOMAIN v2.node /\ old \in DOMAIN v2.node \cup {NULL}
      BY <2>2, <2>3 DEF Sets
    <3> QED  BY <3>1, SetNext
  <2> HIDE DEF v3
  <2>5. SameBut(v, v3, {"node", "waiting"}) /\ v3.waiting = item
    BY <1>0, <2>2, <2>3, <2>4, SMTT(20), SMTT(30) DEF Sets, SameBut, Fields
  <2>6. /\ DOMAIN v3.node = DOMAIN v.node
        /\ \A a \in DOMAIN v.node : a \notin {item, old} => v3.node[a] = v.node[a]
        /\ v3.node[old] = v2.node[old]
        /\ v2.node[item] = v.node[item]
    BY <2>2, <2>3, <2>4 DEF Sets
  <2>7. SameRuns(v, v3)
    BY <2>2, <2>3, <2>4, <2>6 DEF Sets, SameRuns
  <2>8. \A a \in DOMAIN v.node :
          /\ v3.node[a].next = IF a = item THEN old ELSE v.node[a].next
          /\ v3.node[a].prev = IF a = old THEN item ELSE v.node[a].prev
    BY <2>2, <2>3, <2>4, <2>6, SMTT(20), SMTT(30) DEF Sets
  <2>9. Pushed(v, v3, item)
    BY <2>4, <2>5, <2>7, <2>8 DEF Pushed, Sets, old
  <2> QED  BY <2>1, <2>9 DEF w
<1> QED  BY <1>2, <1>3

\* ll_push_item puts a node that is in no list at the head of the waiting
\* list.
LEMMA PushWaiting ==
  ASSUME NEW v, Typed(v), NEW n, NEW c, NEW m, NEW d, NEW out, Lists(v, n, c, m, d, out),
         NEW item \in out, v.node[item].next = NULL, v.node[item].prev = NULL,
         NEW w, w = ll_push_item(v, "waiting", item)
  PROVE  /\ Typed(w)
         /\ SameBut(v, w, {"node", "waiting"})
         /\ SameRuns(v, w)
         /\ Lists(w, n, c, m + 1, Push(m, d, item), out \ {item})
<1> DEFINE e == Push(m, d, item)
<1>1. /\ m \in Nat /\ d \in [0..(m + 1) -> DOMAIN v.node \cup {NULL}]
      /\ d[0] = NULL /\ d[m + 1] = NULL /\ d[1] = v.waiting
      /\ \A j \in 1..m : d[j] \in DOMAIN v.node /\ v.node[d[j]].next = d[j + 1]
      /\ NULL \notin DOMAIN v.node
      /\ item \in DOMAIN v.node
  BY DEF Lists, Track, Typed
<1>a. \A i, j \in 1..m : d[i] = d[j] => i = j
  BY DEF Lists, Track
<1>b. \A j \in 1..m : d[j] # item
  BY DEF Lists
<1>c. v.waiting # item
  BY <1>1, <1>b, SMTT(20), SMTT(30)
<1>2. Pushed(v, w, item)
  BY <1>1, <1>c, PushFields
<1>3. DOMAIN w.node = DOMAIN v.node /\ w.buckets = v.buckets
  BY <1>2 DEF Pushed, SameRuns, SameBut, Typed, Fields
<1>4. /\ m + 1 \in Nat
      /\ e \in [0..((m + 1) + 1) -> DOMAIN v.node \cup {NULL}]
      /\ e[0] = NULL /\ e[1] = item
      /\ \A j \in 1..(m + 1) : e[j + 1] = d[j]
  BY <1>1, SMTT(20), SMTT(30) DEF Push
<1> HIDE DEF e
<1>5. Track(w.node, w.waiting, m + 1, e)
  <2>1. ASSUME NEW j \in 1..(m + 1)
        PROVE  e[j] \in DOMAIN w.node /\ w.node[e[j]].next = e[j + 1]
    <3>1. CASE j = 1
      <4>1. e[j + 1] = v.waiting
        BY <3>1, <1>1, <1>4
      <4> QED  BY <3>1, <4>1, <1>1, <1>2, <1>3, <1>4 DEF Pushed
    <3>2. CASE j # 1
      <4> DEFINE h == j - 1
      <4>1. h \in 1..m /\ e[j] = d[h] /\ e[j + 1] = d[h + 1]
        BY <3>2, <1>1, <1>4, SMTT(20), SMTT(30)
      <4> HIDE DEF h
      <4>2. w.node[d[h]].next = v.node[d[h]].next
        BY <4>1, <1>1, <1>2, <1>b DEF Pushed
      <4> QED  BY <4>1, <4>2, <1>1, <1>3
    <3> QED  BY <3>1, <3>2
  <2>2. ASSUME NEW i \in 1..(m + 1), NEW j \in 1..(m + 1), e[i] = e[j]
        PROVE  i = j
    <3>1. i > 1 => i - 1 \in 1..m /\ e[i] = d[i - 1]
      BY <1>1, <1>4, SMTT(20), SMTT(30)
    <3>2. j > 1 => j - 1 \in 1..m /\ e[j] = d[j - 1]
      BY <1>1, <1>4, SMTT(20), SMTT(30)
    <3>3. CASE i = 1 \/ j = 1
      BY <2>2, <3>1, <3>2, <3>3, <1>1, <1>4, <1>b, SMTT(20), SMTT(30)
    <3>4. CASE i > 1 /\ j > 1
      <4>1. i - 1 = j - 1
        BY <2>2, <3>1, <3>2, <3>4, <1>a
      <4> QED  BY <4>1, <1>1, SMTT(20), SMTT(30)
    <3> QED  BY <3>3, <3>4, <1>1, SMTT(20), SMTT(30)
  <2>3. e[(m + 1) + 1] = NULL /\ e[1] = w.waiting
    BY <1>1, <1>2, <1>4, SMTT(20), SMTT(30) DEF Pushed
  <2> QED  BY <1>3, <1>4, <2>1, <2>2, <2>3 DEF Track
<1>6. Rail(w.node, w.buckets, n, c)
  <2>1. \A i \in 1..n : c[i] \in DOMAIN v.node /\ c[i] # item /\ c[i] # v.waiting
    <3>1. v.waiting = NULL \/ \E j \in 1..m : v.waiting = d[j]
      BY <1>1, SMTT(20), SMTT(30)
    <3> QED  BY <3>1, <1>1, SMTT(20), SMTT(30) DEF Lists, Rail, Track
  <2>2. \A i \in 1..n : /\ w.node[c[i]].next = v.node[c[i]].next
                        /\ w.node[c[i]].prev = v.node[c[i]].prev
    BY <2>1, <1>2 DEF Pushed
  <2> QED  BY <2>1, <2>2, <1>3 DEF Lists, Rail, Track
<1>7. \A j \in 1..(m + 1) : j = 1 \/ \E i \in 1..m : e[j] = d[i]
  <2> TAKE j \in 1..(m + 1)
  <2>1. j # 1 => j - 1 \in 1..m /\ e[j] = d[j - 1]
    BY <1>1, <1>4, SMTT(20), SMTT(30)
  <2> QED  BY <2>1
<1>8. \A j \in 1..m : \E i \in 1..(m + 1) : e[i] = d[j]
  <2> TAKE j \in 1..m
  <2>1. j + 1 \in 1..(m + 1) /\ e[j + 1] = d[j]
    BY <1>1, <1>4, SMTT(20), SMTT(30)
  <2> QED  BY <2>1
<1>9. 1 \in 1..(m + 1)
  BY <1>1, SMTT(20), SMTT(30)
<1>10. \A a \in DOMAIN w.node \ (out \ {item}) :
         (\E i \in 1..n : c[i] = a) \/ (\E j \in 1..(m + 1) : e[j] = a)
  BY <1>3, <1>4, <1>8, <1>9, SMTT(20), SMTT(30) DEF Lists
<1>11. /\ \A i \in 1..n, j \in 1..(m + 1) : c[i] # e[j]
       /\ \A j \in 1..(m + 1) : e[j] \notin out \ {item}
       /\ \A i \in 1..n : c[i] \notin out \ {item}
  BY <1>4, <1>7, SMTT(20), SMTT(30) DEF Lists
<1>12. Lists(w, n, c, m + 1, e, out \ {item})
  BY <1>3, <1>5, <1>6, <1>10, <1>11 DEF Lists
<1> QED  BY <1>2, <1>12 DEF Pushed, e

\* The removal of a bucket followed by the push of its node to the waiting
\* list, as vm_reserve_pages and vm_optimize do it: no node is lost on the way
\* and the ASSERT of ll_push_item does not fail.
LEMMA ToWaiting ==
  ASSUME NEW v, Typed(v), NEW n, NEW c, NEW m, NEW d, Lists(v, n, c, m, d, {}),
         NEW k \in 1..n,
         NEW w, w = ll_push_item(ll_remove_item(v, "buckets", c[k]), "waiting", c[k])
  PROVE  /\ Typed(w)
         /\ SameBut(v, w, {"node", "buckets", "waiting"})
         /\ SameRuns(v, w)
         /\ Lists(w, n - 1, Drop(n, c, k), m + 1, Push(m, d, c[k]), {})
<1> DEFINE u == ll_remove_item(v, "buckets", c[k])
<1>1. /\ Typed(u)
      /\ SameBut(v, u, {"node", "buckets"})
      /\ SameRuns(v, u)
      /\ u.node[c[k]].next = NULL /\ u.node[c[k]].prev = NULL
      /\ Lists(u, n - 1, Drop(n, c, k), m, d, {} \cup {c[k]})
  BY Remove
<1> HIDE DEF u
<1>2. /\ Typed(w)
      /\ SameBut(u, w, {"node", "waiting"})
      /\ SameRuns(u, w)
      /\ Lists(w, n - 1, Drop(n, c, k), m + 1, Push(m, d, c[k]), ({} \cup {c[k]}) \ {c[k]})
  <2>1. c[k] \in {} \cup {c[k]} /\ w = ll_push_item(u, "waiting", c[k])
    BY DEF u
  <2> QED  BY <1>1, <2>1, PushWaiting
<1>3. ({} \cup {c[k]}) \ {c[k]} = {}
  OBVIOUS
<1>4. SameBut(v, w, {"node", "buckets", "waiting"}) /\ SameRuns(v, w)
  BY <1>1, <1>2 DEF SameBut, SameRuns
<1> QED  BY <1>2, <1>3, <1>4

\* ll_pop_item takes the head off the waiting list when its ASSERT holds; the
\* node is then in neither list.
LEMMA PopWaiting ==
  ASSUME NEW v, Typed(v), NEW n, NEW c, NEW m, NEW d, Lists(v, n, c, m, d, {}),
         v.waiting # NULL, v.node[v.waiting].prev = NULL,
         NEW w, w = ll_pop_item(v, "waiting")
  PROVE  /\ Typed(w)
         /\ SameBut(v, w, {"node", "waiting"})
         /\ SameRuns(v, w)
         /\ v.waiting \in DOMAIN v.node
         /\ w.node[v.waiting].next = NULL /\ w.node[v.waiting].prev = NULL
         /\ Lists(w, n, c, m - 1, Drop(m, d, 1), {v.waiting})
<1> DEFINE e    == Drop(m, d, 1)
           item == v.waiting
           u    == [v EXCEPT !["waiting"] = v.node[item].next]
<1>1. /\ m \in Nat /\ d \in [0..(m + 1) -> DOMAIN v.node \cup {NULL}]
      /\ d[0] = NULL /\ d[m + 1] = NULL /\ d[1] = item
      /\ \A j \in 1..m : d[j] \in DOMAIN v.node /\ v.node[d[j]].next = d[j + 1]
      /\ NULL \notin DOMAIN v.node /\ Fields \subseteq DOMAIN v
  BY DEF Lists, Track, Typed
<1>a. \A i, j \in 1..m : d[i] = d[j] => i = j
  BY DEF Lists, Track
<1>b. m >= 1 /\ item \in DOMAIN v.node /\ v.node[item].next = d[2]
  BY <1>1, SMTT(20), SMTT(30)
<1>2. SetsHead(v, u, "waiting", v.node[item].next)
  <2>1. v.node[item].next \in DOMAIN v.node \cup {NULL}
    BY <1>b DEF Typed, NodeType
  <2> QED  BY <2>1, SetHead
<1>3. w = [u EXCEPT !.node[item].next = NULL]
  BY DEF ll_pop_item
<1> HIDE DEF u
<1>4. Typed(u) /\ u.node = v.node /\ SameBut(v, u, {"node", "waiting"}) /\ u.waiting = d[2]
  BY <1>1, <1>2, <1>b DEF SetsHead, SameBut, Fields
<1>5. Sets(u, w, item, u.node[item].pageno, u.node[item].size, NULL, u.node[item].prev)
  BY <1>3, <1>4, <1>b, SetNext, SMTT(20), SMTT(30)
<1>6. /\ Typed(w) /\ SameBut(v, w, {"node", "waiting"}) /\ w.waiting = d[2]
      /\ DOMAIN w.node = DOMAIN v.node /\ w.buckets = v.buckets
  BY <1>1, <1>4, <1>5, SMTT(20), SMTT(30) DEF Sets, SameBut, Fields
<1>7. /\ SameRuns(v, w) /\ w.node[item].next = NULL /\ w.node[item].prev = NULL
      /\ \A a \in DOMAIN v.node : a # item => w.node[a] = v.node[a]
  BY <1>4, <1>5, <1>b DEF Sets, SameRuns
<1> HIDE DEF item
<1>8. /\ m - 1 \in Nat
      /\ e \in [0..((m - 1) + 1) -> DOMAIN v.node \cup {NULL}]
      /\ e[0] = NULL
      /\ \A j \in 1..m : e[j] = d[j + 1]
  BY <1>1, <1>b, SMTT(20), SMTT(30) DEF Drop
<1> HIDE DEF e
<1>9. \A j \in 1..(m - 1) : j + 1 \in 1..m /\ e[j] = d[j + 1] /\ d[j + 1] # item
  BY <1>1, <1>8, <1>a, <1>b, SMTT(20), SMTT(30)
<1>10. Track(w.node, w.waiting, m - 1, e)
  <2>1. ASSUME NEW j \in 1..(m - 1)
        PROVE  e[j] \in DOMAIN w.node /\ w.node[e[j]].next = e[j + 1]
    <3>1. e[j] = d[j + 1] /\ e[j + 1] = d[(j + 1) + 1] /\ j + 1 \in 1..m /\ d[j + 1] # item
      BY <1>1, <1>8, <1>9
    <3> QED  BY <3>1, <1>1, <1>6, <1>7, SMTT(20), SMTT(30)
  <2>2. ASSUME NEW i \in 1..(m - 1), NEW j \in 1..(m - 1), e[i] = e[j]
        PROVE  i = j
    <3>1. i + 1 = j + 1
      BY <2>2, <1>9, <1>a
    <3> QED  BY <3>1, SMTT(20), SMTT(30)
  <2>3. e[(m - 1) + 1] = NULL /\ e[1] = w.waiting
    BY <1>1, <1>6, <1>8, <1>b, SMTT(20), SMTT(30)
  <2> QED  BY <1>6, <1>8, <2>1, <2>2, <2>3 DEF Track
<1>11. Rail(w.node, w.buckets, n, c)
  <2>1. \A i \in 1..n : c[i] \in DOMAIN v.node /\ c[i] # item
    BY <1>1, <1>b, SMTT(20), SMTT(30) DEF Lists, Rail, Track
  <2> QED  BY <2>1, <1>6, <1>7, SMTT(20), SMTT(30) DEF Lists, Rail, Track
<1>12. /\ \A i \in 1..n, j \in 1..(m - 1) : c[i] # e[j]
       /\ \A j \in 1..(m - 1) : e[j] \notin {item}
       /\ \A i \in 1..n : c[i] \notin {item}
  BY <1>1, <1>9, <1>b, SMTT(20), SMTT(30) DEF Lists
<1>13. \A a \in DOMAIN w.node \ {item} :
         (\E i \in 1..n : c[i] = a) \/ (\E j \in 1..(m - 1) : e[j] = a)
  <2> TAKE a \in DOMAIN w.node \ {item}
  <2>1. CASE \E i \in 1..n : c[i] = a
    BY <2>1
  <2>2. CASE \E j \in 1..m : d[j] = a
    <3>1. PICK j \in 1..m : d[j] = a
      BY <2>2
    <3>2. j # 1
      BY <3>1, <1>1
    <3>3. j - 1 \in 1..(m - 1) /\ e[j - 1] = a
      BY <3>1, <3>2, <1>1, <1>8, SMTT(20), SMTT(30)
    <3> QED  BY <3>3
  <2> QED  BY <2>1, <2>2, <1>6 DEF Lists
<1>14. Lists(w, n, c, m - 1, e, {item})
  BY <1>6, <1>10, <1>11, <1>12, <1>13, <1>b DEF Lists
<1> QED  BY <1>6, <1>7, <1>14, <1>b DEF item, e

\* The rail c with a put in at k.
Insert(n, c, k, a) ==
  [i \in 0..(n + 2) |-> IF i < k THEN c[i] ELSE IF i = k THEN a ELSE c[i - 1]]

\* What ll_insert_before assigns: item goes between `before' and old.
Inserted(v, w, item, old, before) ==
  /\ Typed(w)
  /\ SameBut(v, w, {"node", "buckets"})
  /\ SameRuns(v, w)
  /\ w.buckets = IF before = NULL THEN item ELSE v.buckets
  /\ \A a \in DOMAIN v.node :
       /\ w.node[a].next = IF a = item THEN old ELSE IF a = before THEN item ELSE v.node[a].next
       /\ w.node[a].prev = IF a = item THEN before ELSE IF a = old THEN item ELSE v.node[a].prev

\* The effect of ll_insert_before, field by field.
LEMMA InsertFields ==
  ASSUME NEW v, Typed(v), NEW item \in DOMAIN v.node, NEW old \in DOMAIN v.node,
         item # old, item # v.node[old].prev
  PROVE  Inserted(v, ll_insert_before(v, "buckets", item, old), item, old, v.node[old].prev)
<1> DEFINE w  == ll_insert_before(v, "buckets", item, old)
           pv == v.node[old].prev
           v1 == [v EXCEPT !.node[item].next = old]
           v2 == [v1 EXCEPT !.node[item].prev = pv]
           v3 == IF pv = NULL THEN [v2 EXCEPT !["buckets"] = item]
                              ELSE [v2 EXCEPT !.node[pv].next = item]
           v4 == [v3 EXCEPT !.node[old].prev = item]
<1>0. /\ pv \in DOMAIN v.node \cup {NULL} /\ NULL \notin DOMAIN v.node
      /\ Fields \subseteq DOMAIN v
  BY DEF Typed, NodeType
<1>1. w = v4
  BY DEF ll_insert_before
<1> HIDE DEF w, pv
<1>2. Sets(v, v1, item, v.node[item].pageno, v.node[item].size, old, v.node[item].prev)
  BY SetNext
<1> HIDE DEF v1
<1>3. Sets(v1, v2, item, v1.node[item].pageno, v1.node[item].size, v1.node[item].next, pv)
  <2>1. Typed(v1) /\ item \in DOMAIN v1.node /\ pv \in DOMAIN v1.node \cup {NULL}
    BY <1>0, <1>2 DEF Sets
  <2> QED  BY <2>1, SetPrev
<1> HIDE DEF v2
<1>4. /\ Typed(v2) /\ SameBut(v, v2, {"node"}) /\ SameRuns(v, v2)
      /\ \A a \in DOMAIN v.node :
           /\ v2.node[a].next = IF a = item THEN old ELSE v.node[a].next
           /\ v2.node[a].prev = IF a = item THEN pv ELSE v.node[a].prev
  BY <1>2, <1>3 DEF Sets, SameBut, SameRuns
<1>5. /\ Typed(v3) /\ SameBut(v, v3, {"node", "buckets"}) /\ SameRuns(v, v3)
      /\ v3.buckets = IF pv = NULL THEN item ELSE v.buckets
      /\ \A a \in DOMAIN v.node :
           /\ v3.node[a].next = IF a = item THEN old ELSE IF a = pv THEN item ELSE v.node[a].next
           /\ v3.node[a].prev = IF a = item THEN pv ELSE v.node[a].prev
  <2>a. DOMAIN v2.node = DOMAIN v.node
    BY <1>4 DEF SameRuns
  <2>1. CASE pv = NULL
    <3>1. SetsHead(v2, v3, "buckets", item)
      BY <2>1, <1>4, <2>a, SetHead
    <3> HIDE DEF v3
    <3>2. Typed(v3) /\ SameBut(v2, v3, {"buckets"}) /\ v3.buckets = item
      BY <3>1 DEF SetsHead
    <3>3. v3.node = v2.node /\ SameBut(v, v3, {"node", "buckets"})
      BY <3>2, <1>4, <1>0 DEF SameBut, Fields
    <3> QED  BY <3>2, <3>3, <2>1, <1>0, <1>4 DEF SameRuns
  <2>2. CASE pv # NULL
    <3>1. Sets(v2, v3, pv, v2.node[pv].pageno, v2.node[pv].size, item, v2.node[pv].prev)
      BY <2>2, <1>0, <1>4, <2>a, SetNext
    <3> HIDE DEF v3
    <3>2. SameBut(v, v3, {"node", "buckets"}) /\ v3.buckets = v.buckets
      BY <3>1, <1>4, <1>0 DEF Sets, SameBut, Fields
    <3>3. pv # item
      BY DEF pv
    <3> QED  BY <3>1, <3>2, <3>3, <2>2, <1>4, SMTT(20), SMTT(30) DEF Sets, SameRuns
  <2> QED  BY <2>1, <2>2
<1> HIDE DEF v3
<1>6. Sets(v3, w, old, v3.node[old].pageno, v3.node[old].size, v3.node[old].next, item)
  <2>1. Typed(v3) /\ item \in DOMAIN v3.node /\ old \in DOMAIN v3.node
    BY <1>5 DEF SameRuns
  <2> QED  BY <1>1, <2>1, SetPrev
<1> HIDE DEF v4
<1>7. SameBut(v, w, {"node", "buckets"}) /\ w.buckets = v3.buckets
  BY <1>0, <1>5, <1>6 DEF Sets, SameBut, Fields
<1>8. SameRuns(v, w)
  BY <1>5, <1>6, SMTT(20), SMTT(30) DEF Sets, SameRuns
<1>9. \A a \in DOMAIN v.node :
       /\ w.node[a].next = IF a = item THEN old ELSE IF a = pv THEN item ELSE v.node[a].next
       /\ w.node[a].prev = IF a = item THEN pv ELSE IF a = old THEN item ELSE v.node[a].prev
  BY <1>5, <1>6, SMTT(20), SMTT(30) DEF Sets, SameRuns
<1>10. Inserted(v, w, item, old, pv)
  BY <1>5, <1>6, <1>7, <1>8, <1>9 DEF Inserted, Sets
<1> QED  BY <1>10 DEF w, pv

\* e is c with a put in at k, spelled out by index.
Spliced(e, n, c, k, a, S) ==
  /\ e \in [0..((n + 1) + 1) -> S]
  /\ \A i \in 0..(k - 1) : e[i] = c[i]
  /\ e[k] = a
  /\ \A i \in k..(n + 1) : e[i + 1] = c[i]
  /\ \A i, j \in 1..(n + 1) : e[i] = e[j] => i = j
  /\ \A i \in 1..(n + 1) : i = k \/ \E j \in 1..n : e[i] = c[j]
  /\ \A j \in 1..n : \E i \in 1..(n + 1) : e[i] = c[j]

\* Insert puts one node in and moves the later ones up by one.
LEMMA InsertIndex ==
  ASSUME NEW n \in Nat, NEW c, NEW k \in 1..(n + 1), NEW a, NEW S,
         c \in [0..(n + 1) -> S], a \in S,
         \A i \in 1..n : c[i] # a,
         \A i, j \in 1..n : c[i] = c[j] => i = j
  PROVE  Spliced(Insert(n, c, k, a), n, c, k, a, S)
<1> DEFINE e == Insert(n, c, k, a)
<1>1. e \in [0..((n + 1) + 1) -> S]
  BY SMTT(20), SMTT(30) DEF Insert
<1>2. /\ \A i \in 0..(k - 1) : e[i] = c[i]
      /\ e[k] = a
      /\ \A i \in k..(n + 1) : e[i + 1] = c[i]
  BY SMTT(20), SMTT(30) DEF Insert
<1> HIDE DEF e
<1>3. \A i \in 1..(n + 1) :
        i # k => LET h == IF i < k THEN i ELSE i - 1 IN h \in 1..n /\ e[i] = c[h]
  <2> SUFFICES ASSUME NEW i \in 1..(n + 1), i # k
               PROVE  LET h == IF i < k THEN i ELSE i - 1 IN h \in 1..n /\ e[i] = c[h]
    OBVIOUS
  <2>1. CASE i < k
    BY <2>1, <1>2, SMTT(20), SMTT(30)
  <2>2. CASE ~ (i < k)
    <3>1. i - 1 \in k..(n + 1) /\ i - 1 \in 1..n
      BY <2>2, SMTT(20), SMTT(30)
    <3>2. e[(i - 1) + 1] = c[i - 1]
      BY <3>1, <1>2
    <3> QED  BY <2>2, <3>1, <3>2, SMTT(20), SMTT(30)
  <2> QED  BY <2>1, <2>2
<1>4. ASSUME NEW i \in 1..(n + 1), NEW j \in 1..(n + 1), e[i] = e[j]
      PROVE  i = j
  <2>1. CASE i = k \/ j = k
    BY <2>1, <1>2, <1>3, <1>4, SMTT(20), SMTT(30)
  <2>2. CASE i # k /\ j # k
    <3>1. (IF i < k THEN i ELSE i - 1) = (IF j < k THEN j ELSE j - 1)
      BY <2>2, <1>3, <1>4
    <3> QED  BY <2>2, <3>1, SMTT(20), SMTT(30)
  <2> QED  BY <2>1, <2>2
<1>5. \A i \in 1..(n + 1) : i = k \/ \E j \in 1..n : e[i] = c[j]
  BY <1>3
<1>6. \A j \in 1..n : \E i \in 1..(n + 1) : e[i] = c[j]
  <2> TAKE j \in 1..n
  <2>1. CASE j < k
    BY <2>1, <1>2, SMTT(20), SMTT(30)
  <2>2. CASE ~ (j < k)
    <3>1. j \in k..(n + 1) /\ j + 1 \in 1..(n + 1)
      BY <2>2, SMTT(20), SMTT(30)
    <3> QED  BY <3>1, <1>2
  <2> QED  BY <2>1, <2>2
<1>7. \A i, j \in 1..(n + 1) : e[i] = e[j] => i = j
  BY <1>4
<1>8. Spliced(e, n, c, k, a, S)
  BY <1>1, <1>2, <1>5, <1>6, <1>7 DEF Spliced
<1> QED  BY <1>8 DEF e

\* ll_insert_before puts a node that is in no list before the k-th bucket, at
\* the head included, and keeps both directions of the links in agreement.
LEMMA InsertBefore ==
  ASSUME NEW v, Typed(v), NEW n, NEW c, NEW m, NEW d, NEW item, Lists(v, n, c, m, d, {item}),
         NEW k \in 1..n,
         NEW w, w = ll_insert_before(v, "buckets", item, c[k])
  PROVE  /\ Typed(w)
         /\ SameBut(v, w, {"node", "buckets"})
         /\ SameRuns(v, w)
         /\ Lists(w, n + 1, Insert(n, c, k, item), m, d, {})
<1> DEFINE e == Insert(n, c, k, item)
<1>1. /\ n \in Nat /\ c \in [0..(n + 1) -> DOMAIN v.node \cup {NULL}]
      /\ c[0] = NULL /\ c[n + 1] = NULL /\ c[1] = v.buckets
      /\ \A i \in 1..n : c[i] \in DOMAIN v.node /\ v.node[c[i]].next = c[i + 1]
                                                /\ v.node[c[i]].prev = c[i - 1]
      /\ NULL \notin DOMAIN v.node
      /\ item \in DOMAIN v.node
  BY DEF Lists, Rail, Track, Typed
<1>a. \A i, j \in 1..n : c[i] = c[j] => i = j
  BY DEF Lists, Rail, Track
<1>b. \A i \in 0..(n + 1) : c[i] # item
  <2>1. \A i \in 1..n : c[i] # item
    BY DEF Lists
  <2>2. \A i \in 0..(n + 1) : i = 0 \/ i = n + 1 \/ i \in 1..n
    BY <1>1, SMTT(20), SMTT(30)
  <2>3. c[0] # item /\ c[n + 1] # item
    BY <1>1
  <2> QED  BY <2>1, <2>2, <2>3
<1>c. n \in Nat /\ k \in Nat /\ 1 <= k /\ k <= n /\ k \in 1..(n + 1)
  BY <1>1, SMTT(20), SMTT(30)
<1>2. Inserted(v, w, item, c[k], c[k - 1])
  <2>1. item # c[k] /\ item # c[k - 1] /\ v.node[c[k]].prev = c[k - 1] /\ c[k] \in DOMAIN v.node
    BY <1>1, <1>b, <1>c, SMTT(20), SMTT(30)
  <2>2. Inserted(v, w, item, c[k], v.node[c[k]].prev)
    BY <2>1, <1>1, InsertFields
  <2> QED  BY <2>1, <2>2
<1>3. DOMAIN w.node = DOMAIN v.node /\ w.waiting = v.waiting
  BY <1>2 DEF Inserted, SameRuns, SameBut, Typed, Fields
<1>4. Spliced(e, n, c, k, item, DOMAIN v.node \cup {NULL})
  <2>1. \A i \in 1..n : c[i] # item
    BY DEF Lists
  <2>2. item \in DOMAIN v.node \cup {NULL}
    BY <1>1
  <2>3. n \in Nat /\ k \in 1..(n + 1) /\ c \in [0..(n + 1) -> DOMAIN v.node \cup {NULL}]
    BY <1>1, <1>c
  <2> QED  BY <2>1, <2>2, <2>3, <1>a, InsertIndex
<1> HIDE DEF e
<1>d. /\ \A i \in 0..(k - 1) : e[i] = c[i]
      /\ e[k] = item
      /\ \A i \in k..(n + 1) : e[i + 1] = c[i]
  BY <1>4 DEF Spliced
<1>5. Rail(w.node, w.buckets, n + 1, e)
  <2>1. e[0] = NULL /\ e[(n + 1) + 1] = NULL
    <3>1. 0 \in 0..(k - 1) /\ n + 1 \in k..(n + 1)
      BY <1>c, SMTT(20), SMTT(30)
    <3> QED  BY <3>1, <1>1, <1>d
  <2>2. e[1] = w.buckets
    <3>1. CASE k = 1
      BY <3>1, <1>1, <1>2, <1>d, SMTT(20), SMTT(30) DEF Inserted
    <3>2. CASE k # 1
      <4>1. k - 1 \in 1..n /\ 1 \in 0..(k - 1)
        BY <3>2, <1>c, SMTT(20), SMTT(30)
      <4> QED  BY <4>1, <1>1, <1>2, <1>d DEF Inserted
    <3> QED  BY <3>1, <3>2
  <2>3. ASSUME NEW i \in 1..(n + 1)
        PROVE  e[i] \in DOMAIN w.node /\ w.node[e[i]].next = e[i + 1] /\ w.node[e[i]].prev = e[i - 1]
    <3>1. CASE i < k
      <4>1. e[i] = c[i] /\ e[i - 1] = c[i - 1] /\ i \in 1..n
        BY <3>1, <1>c, <1>d, SMTT(20), SMTT(30)
      <4>2. c[i] # c[k] /\ c[i] # item
        BY <3>1, <1>a, <1>b, <1>c, <4>1, SMTT(20), SMTT(30)
      <4>3. CASE i = k - 1
        <5>1. e[i + 1] = item /\ c[i] = c[k - 1]
          BY <4>3, <1>c, <1>d, SMTT(20), SMTT(30)
        <5>2. w.node[c[i]].next = item /\ w.node[c[i]].prev = v.node[c[i]].prev
          BY <4>1, <4>2, <5>1, <1>1, <1>2 DEF Inserted
        <5> QED  BY <4>1, <5>1, <5>2, <1>1, <1>3
      <4>4. CASE i # k - 1
        <5>1. e[i + 1] = c[i + 1]
          BY <4>4, <3>1, <1>c, <1>d, SMTT(20), SMTT(30)
        <5>2. c[i] # c[k - 1]
          BY <4>1, <4>4, <1>1, <1>a, <1>c, SMTT(20), SMTT(30)
        <5>3. w.node[c[i]].next = v.node[c[i]].next /\ w.node[c[i]].prev = v.node[c[i]].prev
          BY <4>1, <4>2, <5>2, <1>1, <1>2 DEF Inserted
        <5> QED  BY <4>1, <5>1, <5>3, <1>1, <1>3
      <4> QED  BY <4>3, <4>4
    <3>2. CASE i = k
      <4>1. e[i] = item /\ e[i + 1] = c[k] /\ e[i - 1] = c[k - 1]
        BY <3>2, <1>c, <1>d, SMTT(20), SMTT(30)
      <4> QED  BY <4>1, <1>1, <1>2, <1>3 DEF Inserted
    <3>3. CASE i > k
      <4> DEFINE h == i - 1
      <4>1. h \in 1..n /\ h \in k..(n + 1) /\ h + 1 \in k..(n + 1) /\ h + 1 = i
        BY <3>3, <1>c, SMTT(20), SMTT(30)
      <4>2. e[i] = c[h] /\ e[i + 1] = c[h + 1]
        BY <4>1, <1>d, SMTT(20), SMTT(30)
      <4> HIDE DEF h
      <4>3. c[h] # item /\ c[h] # c[k - 1]
        <5>1. k - 1 # h
          BY <4>1, <1>c, SMTT(20), SMTT(30)
        <5> QED  BY <4>1, <5>1, <1>1, <1>a, <1>b, <1>c, SMTT(20), SMTT(30)
      <4>4. w.node[c[h]].next = v.node[c[h]].next
        BY <4>1, <4>3, <1>1, <1>2 DEF Inserted
      <4>5. CASE h = k
        <5>1. e[i - 1] = item /\ i - 1 = h
          BY <4>1, <4>5, <1>d, SMTT(20), SMTT(30)
        <5>2. w.node[c[h]].prev = item
          BY <4>1, <4>3, <4>5, <1>1, <1>2 DEF Inserted
        <5> QED  BY <4>1, <4>2, <4>4, <5>1, <5>2, <1>1, <1>3
      <4>6. CASE h # k
        <5>1. h - 1 \in k..(n + 1) /\ (h - 1) + 1 = i - 1
          BY <4>1, <4>6, <1>c, SMTT(20), SMTT(30)
        <5>2. e[i - 1] = c[h - 1]
          BY <5>1, <1>d
        <5>3. c[h] # c[k]
          BY <4>1, <4>6, <1>a, <1>c
        <5>4. w.node[c[h]].prev = v.node[c[h]].prev
          BY <4>1, <4>3, <5>3, <1>1, <1>2 DEF Inserted
        <5> QED  BY <4>1, <4>2, <4>4, <5>2, <5>4, <1>1, <1>3
      <4> QED  BY <4>5, <4>6
    <3> QED  BY <3>1, <3>2, <3>3, <1>c, SMTT(20), SMTT(30)
  <2>4. n + 1 \in Nat /\ e \in [0..((n + 1) + 1) -> DOMAIN w.node \cup {NULL}]
    <3>1. e \in [0..((n + 1) + 1) -> DOMAIN v.node \cup {NULL}]
      BY <1>4 DEF Spliced
    <3> QED  BY <3>1, <1>1, <1>3, SMTT(20), SMTT(30)
  <2>5. \A i, j \in 1..(n + 1) : e[i] = e[j] => i = j
    BY <1>4 DEF Spliced
  <2> QED  BY <2>1, <2>2, <2>3, <2>4, <2>5 DEF Rail, Track
<1>6. Track(w.node, w.waiting, m, d)
  <2>1. \A j \in 1..m : d[j] \in DOMAIN v.node /\ d[j] # item /\ d[j] # c[k - 1]
    <3>1. c[k - 1] = NULL \/ k - 1 \in 1..n
      BY <1>1, <1>c, SMTT(20), SMTT(30)
    <3> QED  BY <3>1, <1>1, SMTT(20), SMTT(30) DEF Lists, Track
  <2>2. \A j \in 1..m : w.node[d[j]].next = v.node[d[j]].next
    BY <2>1, <1>2 DEF Inserted
  <2> QED  BY <2>1, <2>2, <1>3 DEF Lists, Track
<1>7. \A a \in DOMAIN w.node \ {} :
        (\E i \in 1..(n + 1) : e[i] = a) \/ (\E j \in 1..m : d[j] = a)
  <2>1. k \in 1..(n + 1) /\ e[k] = item
    BY <1>c, <1>d
  <2>2. \A j \in 1..n : \E i \in 1..(n + 1) : e[i] = c[j]
    BY <1>4 DEF Spliced
  <2> QED  BY <2>1, <2>2, <1>3, SMTT(20), SMTT(30) DEF Lists
<1>8. \A i \in 1..(n + 1), j \in 1..m : e[i] # d[j]
  <2>1. \A i \in 1..(n + 1) : e[i] = item \/ \E j \in 1..n : e[i] = c[j]
    BY <1>4, <1>d DEF Spliced
  <2> QED  BY <2>1, SMTT(20), SMTT(30) DEF Lists
<1>9. Lists(w, n + 1, e, m, d, {})
  BY <1>5, <1>6, <1>7, <1>8 DEF Lists
<1> QED  BY <1>2, <1>9 DEF Inserted, e

\* ll_push_item on the empty bucket list.
PushedFirst(v, w, n, c, m, d, item) ==
  /\ Typed(w)
  /\ SameBut(v, w, {"node", "buckets"})
  /\ SameRuns(v, w)
  /\ n = 0
  /\ Lists(w, 1, Insert(0, c, 1, item), m, d, {})

\* ll_push_item makes its item the only bucket when the list was empty.
LEMMA PushEmpty ==
  ASSUME NEW v, Typed(v), NEW n, NEW c, NEW m, NEW d, NEW item, Lists(v, n, c, m, d, {item}),
         v.node[item].next = NULL, v.node[item].prev = NULL, v.buckets = NULL,
         NEW w, w = ll_push_item(v, "buckets", item)
  PROVE  PushedFirst(v, w, n, c, m, d, item)
<1> DEFINE e == Insert(0, c, 1, item)
<1>1. /\ n \in Nat /\ c \in [0..(n + 1) -> DOMAIN v.node \cup {NULL}]
      /\ c[0] = NULL /\ c[n + 1] = NULL /\ c[1] = NULL
      /\ \A i \in 1..n : c[i] \in DOMAIN v.node
      /\ NULL \notin DOMAIN v.node
      /\ item \in DOMAIN v.node
      /\ Fields \subseteq DOMAIN v
  BY DEF Lists, Rail, Track, Typed
<1>2. n = 0
  BY <1>1, SMTT(20), SMTT(30)
<1>3. w = [v EXCEPT !["buckets"] = item]
  BY DEF ll_push_item
<1>4. SetsHead(v, w, "buckets", item)
  BY <1>1, <1>3, SetHead, SMTT(20), SMTT(30)
<1>5. /\ Typed(w) /\ SameBut(v, w, {"node", "buckets"}) /\ w.node = v.node
      /\ w.waiting = v.waiting /\ w.buckets = item
  BY <1>1, <1>4 DEF SetsHead, SameBut, Fields
<1>6. e \in [0..2 -> DOMAIN v.node \cup {NULL}] /\ e[0] = NULL /\ e[1] = item /\ e[2] = NULL
  BY <1>1, <1>2, SMTT(20), SMTT(30) DEF Insert
<1> HIDE DEF e
<1>7. Rail(w.node, w.buckets, 1, e)
  BY <1>1, <1>5, <1>6, SMTT(20), SMTT(30) DEF Rail, Track
<1>8. Lists(w, 1, e, m, d, {})
  <2>1. Track(w.node, w.waiting, m, d)
    BY <1>5 DEF Lists
  <2>2. \A a \in DOMAIN w.node \ {} :
          (\E i \in 1..1 : e[i] = a) \/ (\E j \in 1..m : d[j] = a)
    BY <1>2, <1>5, <1>6, SMTT(20), SMTT(30) DEF Lists
  <2>3. \A i \in 1..1, j \in 1..m : e[i] # d[j]
    BY <1>6, SMTT(20), SMTT(30) DEF Lists
  <2> QED  BY <1>7, <2>1, <2>2, <2>3 DEF Lists
<1> QED  BY <1>2, <1>5, <1>8 DEF PushedFirst, SameRuns, e

-----------------------------------------------------------------------------
\* at is the sequence of nodes a while loop visits, starting at head and
\* following next.
Walk(v, head, N, at) ==
  at = [i \in 0..N |-> IF i = 0 THEN head ELSE successor(v, at[i - 1])]

\* at runs through the track c and then stays at NULL.
Visits(at, N, n, c) == \A i \in 0..N : at[i] = IF i < n THEN c[i + 1] ELSE NULL

\* The loop along a track can be described by a function.
LEMMA WalkExists ==
  ASSUME NEW v, NEW head, NEW n, NEW c, Track(v.node, head, n, c), NEW N \in Nat,
         NULL \notin DOMAIN v.node,
         NEW g, g = [i \in 0..N |-> IF i < n THEN c[i + 1] ELSE NULL]
  PROVE  Walk(v, head, N, g)
<1>1. /\ n \in Nat /\ c[n + 1] = NULL /\ c[1] = head
      /\ \A i \in 1..n : c[i] \in DOMAIN v.node /\ v.node[c[i]].next = c[i + 1]
  BY DEF Track
<1>2. ASSUME NEW i \in 0..N
      PROVE  g[i] = IF i = 0 THEN head ELSE successor(v, g[i - 1])
  <2>1. CASE i = 0
    BY <2>1, <1>1, SMTT(20), SMTT(30)
  <2>2. CASE i # 0
    <3>1. i - 1 \in 0..N /\ g[i - 1] = IF i - 1 < n THEN c[(i - 1) + 1] ELSE NULL
      BY <2>2, SMTT(20), SMTT(30)
    <3>2. CASE i <= n
      <4>1. i \in 1..n /\ g[i - 1] = c[i]
        BY <2>2, <3>1, <3>2, <1>1, SMTT(20), SMTT(30)
      <4>2. successor(v, g[i - 1]) = c[i + 1]
        BY <4>1, <1>1 DEF successor
      <4>3. g[i] = c[i + 1]
        <5>1. i = n => c[i + 1] = NULL
          BY <1>1
        <5> QED  BY <3>2, <5>1, <1>1, SMTT(20), SMTT(30)
      <4> QED  BY <2>2, <4>2, <4>3
    <3>3. CASE i > n
      <4>1. g[i - 1] = NULL
        BY <3>1, <3>3, <1>1, SMTT(20), SMTT(30)
      <4>2. g[i] = NULL
        BY <3>3, <1>1, SMTT(20), SMTT(30)
      <4> QED  BY <2>2, <4>1, <4>2 DEF successor
    <3> QED  BY <3>2, <3>3, <1>1, SMTT(20), SMTT(30)
  <2> QED  BY <2>1, <2>2
<1>3. g = [i \in 0..N |-> g[i]]
  OBVIOUS
<1> QED  BY <1>2, <1>3 DEF Walk

\* A loop along a track visits exactly its nodes, in order: the least position
\* where it did not would have a right predecessor.
LEMMA WalkIsTrack ==
  ASSUME Counting, NEW v, NEW head, NEW n, NEW c, Track(v.node, head, n, c), NEW N \in Nat,
         NULL \notin DOMAIN v.node, NEW at, Walk(v, head, N, at)
  PROVE  Visits(at, N, n, c)
<1> DEFINE g == [i \in 0..N |-> IF i < n THEN c[i + 1] ELSE NULL]
           T == {i \in 0..N : at[i] # g[i]}
<1>0. g = [i \in 0..N |-> IF i < n THEN c[i + 1] ELSE NULL]
  OBVIOUS
<1>1. Walk(v, head, N, g)
  <2> HIDE DEF g
  <2> QED  BY <1>0, WalkExists
<1>2. /\ \A i \in 0..N : g[i] = IF i = 0 THEN head ELSE successor(v, g[i - 1])
      /\ \A i \in 0..N : at[i] = IF i = 0 THEN head ELSE successor(v, at[i - 1])
  <2> HIDE DEF g
  <2> QED  BY <1>1 DEF Walk
<1>3. T = {}
  <2> SUFFICES ASSUME T # {} PROVE FALSE
    OBVIOUS
  <2>1. T \subseteq Nat
    BY SMTT(20), SMTT(30)
  <2> HIDE DEF T
  <2>2. PICK x \in T : \A y \in T : x <= y
    BY <2>1, LeastNat
  <2>3. x \in 0..N /\ at[x] # g[x]
    BY <2>2 DEF T
  <2> HIDE DEF g
  <2>4. x # 0
    BY <2>3, <1>2
  <2>5. x - 1 \in 0..N /\ x - 1 \notin T
    BY <2>2, <2>3, <2>4, SMTT(20), SMTT(30)
  <2>6. at[x - 1] = g[x - 1]
    BY <2>5 DEF T
  <2> QED  BY <2>3, <2>4, <2>6, <1>2
<1> QED  BY <1>3 DEF Visits

-----------------------------------------------------------------------------
\* The run of a bucket is [Start, End).
Start(v, a) == v.node[a].pageno

End(v, a)   == v.node[a].pageno + v.node[a].size

\* The buckets are nonempty, in increasing order and with gaps between them.
Apart(v, n, c) ==
  /\ \A i \in 1..n : Start(v, c[i]) < End(v, c[i])
  /\ \A i, j \in 1..n : i < j => End(v, c[i]) < Start(v, c[j])

\* x is a page of the bucket a.
InRun(x, v, a) == Start(v, a) <= x /\ x < End(v, a)

\* The pages of the buckets on c.
Pages(v, n, c) == {x \in Nat : \E i \in 1..n : InRun(x, v, c[i])}


\* The bounds of a bucket are natural numbers.
LEMMA RunType ==
  ASSUME NEW v, Typed(v), NEW a \in DOMAIN v.node
  PROVE  /\ Start(v, a) \in Nat /\ End(v, a) \in Nat /\ v.node[a].size \in Nat
         /\ Start(v, a) = v.node[a].pageno
         /\ End(v, a) = Start(v, a) + v.node[a].size
  BY SMTT(20), SMTT(30) DEF Typed, NodeType, Start, End

\* The same for all buckets of c.
RunsTyped(v, n, c) ==
  \A i \in 1..n : /\ Start(v, c[i]) \in Nat /\ End(v, c[i]) \in Nat
                  /\ Start(v, c[i]) = v.node[c[i]].pageno
                  /\ v.node[c[i]].size \in Nat
                  /\ End(v, c[i]) = Start(v, c[i]) + v.node[c[i]].size

\* The bounds of all buckets on a list are natural numbers.
LEMMA RunTypes ==
  ASSUME NEW v, Typed(v), NEW head, NEW n, NEW c, Track(v.node, head, n, c)
  PROVE  RunsTyped(v, n, c)
  BY RunType DEF Track, RunsTyped

\* The bucket a has the same run in v and w.
SameRunAt(v, w, a) == Start(w, a) = Start(v, a) /\ End(w, a) = End(v, a)

\* A list operation leaves the run of each bucket alone.
LEMMA SameRunsAt ==
  ASSUME NEW v, NEW w, SameRuns(v, w), NEW a \in DOMAIN v.node
  PROVE  SameRunAt(v, w, a)
  BY DEF SameRuns, SameRunAt, Start, End

\* Changing the run of a node, as vm_reserve_pages does when it cuts pages off
\* a bucket, leaves both lists alone.
LEMMA RunChangeKeepsLists ==
  ASSUME NEW v, NEW n, NEW c, NEW m, NEW d, NEW out, Lists(v, n, c, m, d, out), Typed(v),
         NEW a \in DOMAIN v.node, NEW w, NEW p, NEW s,
         Sets(v, w, a, p, s, v.node[a].next, v.node[a].prev)
  PROVE  Lists(w, n, c, m, d, out)
<1>1. w.buckets = v.buckets /\ w.waiting = v.waiting /\ DOMAIN w.node = DOMAIN v.node
  BY DEF Sets, SameBut, Typed, Fields
<1>2. \A b \in DOMAIN v.node : w.node[b].next = v.node[b].next /\ w.node[b].prev = v.node[b].prev
  BY DEF Sets
<1>3. Rail(w.node, w.buckets, n, c) /\ Track(w.node, w.waiting, m, d)
  BY <1>1, <1>2 DEF Lists, Rail, Track
<1> QED  BY <1>1, <1>3 DEF Lists

\* Indices of c and of c without its node at k.
Skip(k, i)   == IF i < k THEN i ELSE i + 1

Unskip(k, j) == IF j < k THEN j ELSE j - 1

\* e is c without its node at k, spelled out by index.
Thinned(e, n, c, k) ==
  /\ \A i \in 1..(n - 1) : Skip(k, i) \in 1..n /\ Skip(k, i) # k /\ e[i] = c[Skip(k, i)]
  /\ \A i, j \in 1..(n - 1) : i < j => Skip(k, i) < Skip(k, j)
  /\ \A j \in 1..n : j # k => Unskip(k, j) \in 1..(n - 1) /\ e[Unskip(k, j)] = c[j]

\* Drop takes one node out and moves the later ones down by one.
LEMMA DropThins ==
  ASSUME NEW n \in Nat, NEW c, NEW k \in 1..n
  PROVE  Thinned(Drop(n, c, k), n, c, k)
<1> DEFINE e == Drop(n, c, k)
<1>1. \A i \in 0..n : e[i] = IF i < k THEN c[i] ELSE c[i + 1]
  BY DEF Drop
<1> HIDE DEF e
<1>2. \A i \in 1..(n - 1) : Skip(k, i) \in 1..n /\ Skip(k, i) # k /\ e[i] = c[Skip(k, i)]
  BY <1>1, SMTT(20), SMTT(30) DEF Skip
<1>3. \A i, j \in 1..(n - 1) : i < j => Skip(k, i) < Skip(k, j)
  BY SMTT(20), SMTT(30) DEF Skip
<1>4. ASSUME NEW j \in 1..n, j # k
      PROVE  Unskip(k, j) \in 1..(n - 1) /\ e[Unskip(k, j)] = c[j]
  BY <1>1, <1>4, SMTT(20), SMTT(30) DEF Unskip
<1> QED  BY <1>2, <1>3, <1>4 DEF Thinned, e

\* Buckets stay apart when one of them is taken from the list.
LEMMA ThinnedApart ==
  ASSUME NEW n \in Nat, NEW c, NEW k \in 1..n, NEW e, Thinned(e, n, c, k), NEW w,
         \A i \in 1..n : i # k => Start(w, c[i]) < End(w, c[i]),
         \A i, j \in 1..n : i < j /\ i # k /\ j # k => End(w, c[i]) < Start(w, c[j])
  PROVE  Apart(w, n - 1, e)
<1>1. \A i \in 1..(n - 1) : Start(w, e[i]) < End(w, e[i])
  BY DEF Thinned
<1>2. ASSUME NEW i \in 1..(n - 1), NEW j \in 1..(n - 1), i < j
      PROVE  End(w, e[i]) < Start(w, e[j])
  <2> DEFINE x == Skip(k, i)
             y == Skip(k, j)
  <2>1. x \in 1..n /\ y \in 1..n /\ x < y /\ x # k /\ y # k /\ e[i] = c[x] /\ e[j] = c[y]
    BY <1>2 DEF Thinned
  <2> HIDE DEF x, y
  <2> QED  BY <2>1
<1> QED  BY <1>1, <1>2 DEF Apart

\* The list without its k-th bucket stands for the pages of the others.
LEMMA ThinnedPages ==
  ASSUME NEW n \in Nat, NEW c, NEW k \in 1..n, NEW e, Thinned(e, n, c, k), NEW w, NEW x \in Nat
  PROVE  x \in Pages(w, n - 1, e) <=> \E j \in 1..n : j # k /\ InRun(x, w, c[j])
<1>1. ASSUME NEW i \in 1..(n - 1), InRun(x, w, e[i])
      PROVE  \E j \in 1..n : j # k /\ InRun(x, w, c[j])
  BY <1>1 DEF Thinned
<1>2. ASSUME NEW j \in 1..n, j # k, InRun(x, w, c[j])
      PROVE  \E i \in 1..(n - 1) : InRun(x, w, e[i])
  BY <1>2 DEF Thinned
<1> QED  BY <1>1, <1>2 DEF Pages

-----------------------------------------------------------------------------
\* The buckets are apart, except that the one at k may touch its neighbours.
Loose(v, n, c, k) ==
  /\ \A i \in 1..n : Start(v, c[i]) < End(v, c[i])
  /\ \A i, j \in 1..n : i < j => End(v, c[i]) <= Start(v, c[j])
  /\ \A i, j \in 1..n : i < j /\ i # k /\ j # k => End(v, c[i]) < Start(v, c[j])

\* The merge tests of vm_optimize fail for the bucket at k.
FrontApart(v, c, k)   == k = 1 \/ End(v, c[k - 1]) # Start(v, c[k])

BackApart(v, n, c, k) == k = n \/ End(v, c[k]) # Start(v, c[k + 1])

\* If neither test of vm_optimize finds a neighbour to join, the buckets are
\* all apart.
LEMMA LooseApart ==
  ASSUME NEW v, NEW n \in Nat, NEW c, NEW k \in 1..n, RunsTyped(v, n, c),
         Loose(v, n, c, k), FrontApart(v, c, k), BackApart(v, n, c, k)
  PROVE  Apart(v, n, c)
<1>1. ASSUME NEW i \in 1..n, NEW j \in 1..n, i < j
      PROVE  End(v, c[i]) < Start(v, c[j])
  <2>0. \A h \in 1..n : Start(v, c[h]) \in Nat /\ End(v, c[h]) \in Nat
    BY DEF RunsTyped
  <2>1. End(v, c[i]) <= Start(v, c[j])
    BY <1>1 DEF Loose
  <2>2. CASE i # k /\ j # k
    BY <1>1, <2>2 DEF Loose
  <2>3. CASE j = k /\ i = k - 1
    BY <2>0, <2>1, <2>3, <1>1, SMTT(20), SMTT(30) DEF FrontApart
  <2>4. CASE i = k /\ j = k + 1
    BY <2>0, <2>1, <2>4, <1>1, SMTT(20), SMTT(30) DEF BackApart
  <2>5. CASE j = k /\ i # k - 1
    <3>1. k - 1 \in 1..n /\ i < k - 1 /\ k - 1 < k
      BY <2>5, <1>1, SMTT(20), SMTT(30)
    <3>2. End(v, c[i]) <= Start(v, c[k - 1]) /\ Start(v, c[k - 1]) < End(v, c[k - 1])
          /\ End(v, c[k - 1]) <= Start(v, c[k])
      BY <3>1 DEF Loose
    <3> QED  BY <3>1, <3>2, <2>0, <2>5, SMTT(20), SMTT(30)
  <2>6. CASE i = k /\ j # k + 1
    <3>1. k + 1 \in 1..n /\ k < k + 1 /\ k + 1 < j
      BY <2>6, <1>1, SMTT(20), SMTT(30)
    <3>2. End(v, c[k]) <= Start(v, c[k + 1]) /\ Start(v, c[k + 1]) < End(v, c[k + 1])
          /\ End(v, c[k + 1]) <= Start(v, c[j])
      BY <3>1 DEF Loose
    <3> QED  BY <3>1, <3>2, <2>0, <2>6, SMTT(20), SMTT(30)
  <2> QED  BY <2>2, <2>3, <2>4, <2>5, <2>6
<1> QED  BY <1>1 DEF Apart, Loose

\* The bucket at k takes over the run of its neighbour at h, which then goes
\* to the waiting list.
Absorbed(v, w, n, c, m, d, k, h, p, s) ==
  /\ Typed(w)
  /\ SameBut(v, w, {"node", "buckets", "waiting"})
  /\ DOMAIN w.node = DOMAIN v.node
  /\ Lists(w, n - 1, Drop(n, c, h), m + 1, Push(m, d, c[h]), {})
  /\ \A i \in 1..n : i # k => SameRunAt(v, w, c[i])
  /\ Start(w, c[k]) = p /\ End(w, c[k]) = p + s

\* The body of either merge in vm_optimize, with the joined run as a parameter:
\* the neighbour leaves the list, its node waits, and only the bucket at k has
\* another run.
LEMMA Absorb ==
  ASSUME NEW v, Typed(v), NEW n, NEW c, NEW m, NEW d, Lists(v, n, c, m, d, {}),
         NEW k \in 1..n, NEW h \in 1..n, h # k, NEW p \in Nat, NEW s \in Nat,
         NEW u, u = [v EXCEPT !.node[c[k]].pageno = p, !.node[c[k]].size = s],
         NEW w, w = ll_push_item(ll_remove_item(u, "buckets", c[h]), "waiting", c[h])
  PROVE  Absorbed(v, w, n, c, m, d, k, h, p, s)
<1>1. /\ n \in Nat
      /\ \A i \in 1..n : c[i] \in DOMAIN v.node
      /\ \A i, j \in 1..n : c[i] = c[j] => i = j
  BY DEF Lists, Rail, Track
<1>2. Sets(v, u, c[k], p, s, v.node[c[k]].next, v.node[c[k]].prev)
  BY <1>1, SetRun
<1>3. Typed(u) /\ SameBut(v, u, {"node"}) /\ DOMAIN u.node = DOMAIN v.node
  BY <1>2 DEF Sets
<1>4. Lists(u, n, c, m, d, {})
  BY <1>1, <1>2, RunChangeKeepsLists
<1>5. /\ Typed(w)
      /\ SameBut(u, w, {"node", "buckets", "waiting"})
      /\ SameRuns(u, w)
      /\ Lists(w, n - 1, Drop(n, c, h), m + 1, Push(m, d, c[h]), {})
  BY <1>3, <1>4, ToWaiting
<1>6. \A i \in 1..n : i # k => SameRunAt(v, w, c[i])
  <2> TAKE i \in 1..n
  <2> HAVE i # k
  <2>1. c[i] # c[k] /\ c[i] \in DOMAIN v.node
    BY <1>1
  <2>2. u.node[c[i]] = v.node[c[i]]
    BY <2>1, <1>2 DEF Sets
  <2>3. SameRunAt(u, w, c[i])
    BY <2>1, <1>3, <1>5, SameRunsAt
  <2> QED  BY <2>2, <2>3 DEF SameRunAt, Start, End
<1>7. Start(w, c[k]) = p /\ End(w, c[k]) = p + s
  <2>0. c[k] \in DOMAIN u.node
    BY <1>1, <1>3
  <2>1. SameRunAt(u, w, c[k])
    BY <2>0, <1>5, SameRunsAt
  <2>2. Start(u, c[k]) = p /\ End(u, c[k]) = p + s
    BY <1>2 DEF Sets, Start, End
  <2> QED  BY <2>1, <2>2 DEF SameRunAt
<1>8. SameBut(v, w, {"node", "buckets", "waiting"}) /\ DOMAIN w.node = DOMAIN v.node
  BY <1>3, <1>5 DEF SameBut, SameRuns
<1> QED  BY <1>5, <1>6, <1>7, <1>8 DEF Absorbed

\* A list that is loose at k stays so when another of its buckets is taken
\* out.
LEMMA ThinnedLoose ==
  ASSUME NEW n \in Nat, NEW c, NEW h \in 1..n, NEW k \in 1..n, h # k,
         NEW e, Thinned(e, n, c, h), NEW w,
         \A i \in 1..n : i # h => Start(w, c[i]) < End(w, c[i]),
         \A i, j \in 1..n : i < j /\ i # h /\ j # h => End(w, c[i]) <= Start(w, c[j]),
         \A i, j \in 1..n : i < j /\ i # h /\ j # h /\ i # k /\ j # k
                              => End(w, c[i]) < Start(w, c[j])
  PROVE  Loose(w, n - 1, e, Unskip(h, k))
<1>1. \A i \in 1..(n - 1) : Start(w, e[i]) < End(w, e[i])
  BY DEF Thinned
<1>2. ASSUME NEW i \in 1..(n - 1), NEW j \in 1..(n - 1), i < j
      PROVE  /\ End(w, e[i]) <= Start(w, e[j])
             /\ i # Unskip(h, k) /\ j # Unskip(h, k) => End(w, e[i]) < Start(w, e[j])
  <2> DEFINE x == Skip(h, i)
             y == Skip(h, j)
  <2>1. x \in 1..n /\ y \in 1..n /\ x < y /\ x # h /\ y # h /\ e[i] = c[x] /\ e[j] = c[y]
    BY <1>2 DEF Thinned
  <2>2. (i # Unskip(h, k) => x # k) /\ (j # Unskip(h, k) => y # k)
    BY SMTT(20), SMTT(30) DEF Skip, Unskip
  <2> HIDE DEF x, y
  <2> QED  BY <2>1, <2>2
<1> QED  BY <1>1, <1>2 DEF Loose

-----------------------------------------------------------------------------
\* No page of the run [p, p + s) is in a bucket of c.
Disjoint(v, n, c, p, s) == \A x \in Nat : p <= x /\ x < p + s => x \notin Pages(v, n, c)

\* P is Q with the run [p, p + s).
Adds(P, Q, p, s) == P = Q \cup Run(p, s)

\* Putting a bucket into the list adds the pages of its run.
LEMMA SplicedPages ==
  ASSUME NEW v, NEW n \in Nat, NEW c, NEW k \in 1..(n + 1), NEW a, NEW S, NEW e,
         Spliced(e, n, c, k, a, S), NEW w,
         \A i \in 1..n : SameRunAt(v, w, c[i]),
         NEW p \in Nat, NEW s \in Nat, Start(w, a) = p, End(w, a) = p + s
  PROVE  Adds(Pages(w, n + 1, e), Pages(v, n, c), p, s)
<1>1. \A x : x \in Run(p, s) <=> x \in Nat /\ InRun(x, w, a)
  BY SMTT(20), SMTT(30) DEF Run, InRun
<1>2. \A i \in 1..n, x \in Nat : InRun(x, w, c[i]) <=> InRun(x, v, c[i])
  BY DEF SameRunAt, InRun
<1>3. /\ e[k] = a /\ k \in 1..(n + 1)
      /\ \A i \in 1..(n + 1) : i = k \/ \E j \in 1..n : e[i] = c[j]
      /\ \A j \in 1..n : \E i \in 1..(n + 1) : e[i] = c[j]
  BY DEF Spliced
<1>4. ASSUME NEW x, x \in Pages(w, n + 1, e)
      PROVE  x \in Pages(v, n, c) \cup Run(p, s)
  <2>1. x \in Nat
    BY <1>4 DEF Pages
  <2>2. PICK i \in 1..(n + 1) : InRun(x, w, e[i])
    BY <1>4 DEF Pages
  <2>3. CASE i = k
    BY <2>1, <2>2, <2>3, <1>1, <1>3
  <2>4. CASE \E j \in 1..n : e[i] = c[j]
    BY <2>1, <2>2, <2>4, <1>2 DEF Pages
  <2> QED  BY <2>3, <2>4, <1>3
<1>5. ASSUME NEW x, x \in Pages(v, n, c) \cup Run(p, s)
      PROVE  x \in Pages(w, n + 1, e)
  <2>1. CASE x \in Run(p, s)
    BY <2>1, <1>1, <1>3 DEF Pages
  <2>2. CASE x \in Pages(v, n, c)
    <3>1. x \in Nat
      BY <2>2 DEF Pages
    <3>2. PICK j \in 1..n : InRun(x, v, c[j])
      BY <2>2 DEF Pages
    <3>3. PICK i \in 1..(n + 1) : e[i] = c[j]
      BY <1>3
    <3> QED  BY <3>1, <3>2, <3>3, <1>2 DEF Pages
  <2> QED  BY <1>5, <2>1, <2>2
<1> QED  BY <1>4, <1>5 DEF Adds

\* A bucket put between those that end before it and those that start behind
\* it leaves the list sorted; it is the only one that may touch another.
LEMMA SplicedLoose ==
  ASSUME NEW v, NEW n \in Nat, NEW c, NEW k \in 1..(n + 1), NEW a, NEW S, NEW e,
         Spliced(e, n, c, k, a, S), NEW w, Apart(v, n, c), RunsTyped(v, n, c),
         \A i \in 1..n : SameRunAt(v, w, c[i]),
         NEW p \in Nat, NEW s \in Nat, s > 0, Start(w, a) = p, End(w, a) = p + s,
         \A i \in 1..n : i < k => End(v, c[i]) <= p,
         \A i \in 1..n : k <= i => p + s <= Start(v, c[i])
  PROVE  Loose(w, n + 1, e, k)
<1>1. \A i \in 1..n : /\ Start(w, c[i]) = Start(v, c[i]) /\ Start(v, c[i]) \in Nat
                      /\ End(w, c[i]) = End(v, c[i]) /\ End(v, c[i]) \in Nat
  BY DEF SameRunAt, RunsTyped
<1>2. /\ \A i \in 1..n : Start(v, c[i]) < End(v, c[i])
      /\ \A i, j \in 1..n : i < j => End(v, c[i]) < Start(v, c[j])
  BY DEF Apart
<1>3. /\ \A i \in 1..(n + 1) : i < k => i \in 1..n /\ e[i] = c[i]
      /\ e[k] = a
      /\ \A i \in 1..(n + 1) : k < i => i - 1 \in 1..n /\ e[i] = c[i - 1]
  <2>1. ASSUME NEW i \in 1..(n + 1), i < k
        PROVE  i \in 1..n /\ e[i] = c[i]
    BY <2>1, SMTT(20), SMTT(30) DEF Spliced
  <2>2. ASSUME NEW i \in 1..(n + 1), k < i
        PROVE  i - 1 \in 1..n /\ e[i] = c[i - 1]
    <3>1. i - 1 \in k..(n + 1) /\ i - 1 \in 1..n /\ (i - 1) + 1 = i
      BY <2>2, IndexBefore
    <3> QED  BY <3>1 DEF Spliced
  <2> QED  BY <2>1, <2>2 DEF Spliced
<1>4. ASSUME NEW i \in 1..(n + 1) PROVE Start(w, e[i]) < End(w, e[i])
  <2>1. CASE i < k
    BY <2>1, <1>1, <1>2, <1>3
  <2>2. CASE i = k
    BY <2>2, <1>3, SMTT(20), SMTT(30)
  <2>3. CASE k < i
    BY <2>3, <1>1, <1>2, <1>3
  <2> QED  BY <2>1, <2>2, <2>3, SMTT(20), SMTT(30)
<1>5. ASSUME NEW i \in 1..(n + 1), NEW j \in 1..(n + 1), i < j
      PROVE  /\ End(w, e[i]) <= Start(w, e[j])
             /\ i # k /\ j # k => End(w, e[i]) < Start(w, e[j])
  <2>1. CASE j < k
    <3>1. i < k /\ i \in 1..n /\ j \in 1..n
      BY <1>5, <2>1, <1>3, SMTT(20), SMTT(30)
    <3>2. e[i] = c[i] /\ e[j] = c[j]
      BY <3>1, <2>1, <1>3
    <3>3. End(v, c[i]) < Start(v, c[j])
      BY <3>1, <1>5, <1>2
    <3> QED  BY <3>1, <3>2, <3>3, <1>1, SMTT(20), SMTT(30)
  <2>2. CASE j = k
    <3>1. i < k
      BY <1>5, <2>2
    <3> QED  BY <3>1, <2>2, <1>1, <1>3
  <2>3. CASE i = k
    <3>1. k < j
      BY <1>5, <2>3
    <3>2. j - 1 \in 1..n /\ e[j] = c[j - 1] /\ k <= j - 1
      BY <3>1, <1>3, SMTT(20), SMTT(30)
    <3> QED  BY <3>2, <2>3, <1>1, <1>3
  <2>4. CASE i < k /\ k < j
    <3>1. i \in 1..n /\ e[i] = c[i] /\ j - 1 \in 1..n /\ e[j] = c[j - 1] /\ k <= j - 1
      BY <2>4, <1>3, SMTT(20), SMTT(30)
    <3>2. End(v, c[i]) <= p /\ p + s <= Start(v, c[j - 1])
      BY <3>1, <2>4
    <3> QED  BY <3>1, <3>2, <1>1, SMTT(20), SMTT(30)
  <2>5. CASE k < i
    <3>1. k < j /\ i - 1 < j - 1
      BY <1>5, <2>5, SMTT(20), SMTT(30)
    <3>2. i - 1 \in 1..n /\ e[i] = c[i - 1] /\ j - 1 \in 1..n /\ e[j] = c[j - 1]
      BY <3>1, <2>5, <1>3
    <3>3. End(v, c[i - 1]) < Start(v, c[j - 1])
      BY <3>1, <3>2, <1>2
    <3> QED  BY <3>2, <3>3, <1>1, SMTT(20), SMTT(30)
  <2>6. j < k \/ j = k \/ i = k \/ (i < k /\ k < j) \/ k < i
    BY SMTT(20), SMTT(30)
  <2> QED  BY <2>1, <2>2, <2>3, <2>4, <2>5, <2>6
<1> QED  BY <1>4, <1>5 DEF Loose

-----------------------------------------------------------------------------
\* vm_kernel_stealmem makes a node at an address where there was none, which
\* is in neither list; the lists are as before.
LEMMA StealNode ==
  ASSUME Counting, NEW v, Typed(v), NEW n, NEW c, NEW m, NEW d, Lists(v, n, c, m, d, {}),
         v.steal_next \in Nat \ {NULL}, v.steal_next \notin DOMAIN v.node,
         NEW w, w = vm_kernel_stealmem(v)
  PROVE  /\ Typed(w)
         /\ SameBut(v, w, {"node", "steal_next", "steal_remaining"})
         /\ w.steal_next = v.steal_next + 1 /\ w.steal_remaining = v.steal_remaining - 1
         /\ DOMAIN w.node = DOMAIN v.node \cup {v.steal_next}
         /\ \A a \in DOMAIN v.node : w.node[a] = v.node[a]
         /\ w.node[v.steal_next].next = NULL /\ w.node[v.steal_next].prev = NULL
         /\ Lists(w, n, c, m, d, {v.steal_next})
<1> DEFINE item == v.steal_next
<1>0. Fields \subseteq DOMAIN v /\ IsFiniteSet(DOMAIN v.node)
  BY DEF Typed
<1>1. /\ SameBut(v, w, {"node", "steal_next", "steal_remaining"})
      /\ w.steal_next = item + 1 /\ w.steal_remaining = v.steal_remaining - 1
      /\ w.node = [a \in DOMAIN v.node \cup {item} |-> IF a = item THEN ZeroNode ELSE v.node[a]]
      /\ w = [f \in DOMAIN w |-> w[f]]
  BY <1>0 DEF vm_kernel_stealmem, SameBut, Fields
<1> HIDE DEF item
<1>2. /\ DOMAIN w.node = DOMAIN v.node \cup {item}
      /\ \A a \in DOMAIN v.node : w.node[a] = v.node[a]
      /\ w.node[item] = ZeroNode
  BY <1>1 DEF item
<1>3. IsFiniteSet(DOMAIN v.node \cup {item})
  BY <1>0, OneMore
<1>4. w.buckets = v.buckets /\ w.waiting = v.waiting /\ DOMAIN w = DOMAIN v
  BY <1>0, <1>1 DEF SameBut, Fields
<1>5. w.node \in [DOMAIN w.node -> NodeType(DOMAIN w.node)]
  <2>1. ZeroNode \in NodeType(DOMAIN w.node)
    BY DEF ZeroNode, NodeType, NULL
  <2>2. \A a \in DOMAIN v.node : w.node[a] \in NodeType(DOMAIN w.node)
    <3>1. \A a \in DOMAIN v.node : v.node[a] \in NodeType(DOMAIN v.node)
      BY DEF Typed
    <3>2. NodeType(DOMAIN v.node) \subseteq NodeType(DOMAIN w.node)
      BY <1>2 DEF NodeType
    <3> QED  BY <3>1, <3>2, <1>2
  <2>3. \A a \in DOMAIN w.node : w.node[a] \in NodeType(DOMAIN w.node)
    BY <2>1, <2>2, <1>2
  <2>4. w.node = [a \in DOMAIN w.node |-> w.node[a]]
    BY <1>1
  <2> QED  BY <2>3, <2>4
<1>6. Typed(w)
  <2>1. /\ DOMAIN w.node \subseteq Nat \ {NULL}
        /\ {w.buckets, w.waiting} \subseteq DOMAIN w.node \cup {NULL}
    BY <1>2, <1>4 DEF Typed, item
  <2>2. IsFiniteSet(DOMAIN w.node)
    BY <1>2, <1>3
  <2>3. w = [f \in DOMAIN w |-> w[f]] /\ Fields \subseteq DOMAIN w
    BY <1>0, <1>1, <1>4
  <2> QED  BY <2>1, <2>2, <2>3, <1>5 DEF Typed
<1>7. w.node[item].next = NULL /\ w.node[item].prev = NULL
  BY <1>2, SMTT(20), SMTT(30) DEF ZeroNode
<1>8. Rail(w.node, w.buckets, n, c) /\ Track(w.node, w.waiting, m, d)
  BY <1>2, <1>4, SMTT(20), SMTT(30) DEF Lists, Rail, Track
<1>9. /\ \A i \in 1..n : c[i] \notin {item}
      /\ \A j \in 1..m : d[j] \notin {item}
  BY DEF Lists, Rail, Track, item
<1>10. Lists(w, n, c, m, d, {item})
  BY <1>2, <1>8, <1>9 DEF Lists
<1> QED  BY <1>1, <1>2, <1>6, <1>7, <1>10 DEF item

\* A track is no longer than there are nodes, so the loops end.
LEMMA WalkBound ==
  ASSUME Counting, NEW v, Typed(v), NEW head, NEW n, NEW c, Track(v.node, head, n, c)
  PROVE  Cardinality(DOMAIN v.node) \in Nat /\ n <= Cardinality(DOMAIN v.node)
<1>1. n \in Nat /\ IsFiniteSet(DOMAIN v.node)
  BY DEF Track, Typed
<1>2. /\ \A i \in 1..n : c[i] \in DOMAIN v.node
      /\ \A i, j \in 1..n : c[i] = c[j] => i = j
  BY DEF Track
<1> QED  BY <1>1, <1>2, NoMoreThanAll

\* a is the first node of c that is wanted, or NULL if none is.
Search(a, n, c, wanted) ==
  \/ a = NULL /\ \A i \in 1..n : c[i] \notin wanted
  \/ \E k \in 1..n : /\ a = c[k] /\ c[k] \in wanted
                     /\ \A i \in 1..(k - 1) : c[i] \notin wanted

\* The search loops of vm_reserve_pages and vm_return_pages end at the first
\* bucket that passes their test, or at NULL when none does.
LEMMA FirstBucketFound ==
  ASSUME Counting, NEW v, Typed(v), NEW n, NEW c, Track(v.node, v.buckets, n, c),
         NEW wanted, NULL \notin wanted
  PROVE  Search(FirstBucket(v, wanted), n, c, wanted)
<1> DEFINE N == Cardinality(DOMAIN v.node)
           at == CHOOSE at : Walk(v, v.buckets, N, at)
           hits == {i \in DOMAIN at : at[i] \in wanted}
<1>0. NULL \notin DOMAIN v.node /\ n \in Nat
  BY DEF Typed, Track
<1>1. N \in Nat /\ n <= N
  BY WalkBound
<1>2. FirstBucket(v, wanted) =
        IF hits = {} THEN NULL ELSE at[CHOOSE i \in hits : \A j \in hits : i <= j]
  BY DEF FirstBucket, Walk
<1> HIDE DEF N
<1>3. Walk(v, v.buckets, N, at)
  <2>1. \E g : Walk(v, v.buckets, N, g)
    BY <1>0, <1>1, WalkExists
  <2> QED  BY <2>1, Zenon
<1> HIDE DEF at
<1>4. \A i \in 0..N : at[i] = IF i < n THEN c[i + 1] ELSE NULL
  <2>1. Visits(at, N, n, c)
    BY <1>0, <1>1, <1>3, WalkIsTrack
  <2> QED  BY <2>1 DEF Visits
<1>5. DOMAIN at = 0..N
  BY <1>3 DEF Walk
<1>6. \A i \in hits : i \in 0..N /\ i < n /\ c[i + 1] \in wanted
  BY <1>4, <1>5, SMTT(20), SMTT(30)
<1>7. \A i \in 1..n : c[i] \in wanted => i - 1 \in hits
  <2> TAKE i \in 1..n
  <2>1. i - 1 \in 0..N /\ at[i - 1] = c[i]
    BY <1>0, <1>1, <1>4, SMTT(20), SMTT(30)
  <2> QED  BY <2>1, <1>5
<1>8. CASE hits = {}
  BY <1>2, <1>7, <1>8 DEF Search
<1>9. CASE hits # {}
  <2>1. hits \subseteq Nat
    BY <1>1, <1>6, SMTT(20), SMTT(30)
  <2>2. PICK x \in hits : \A j \in hits : x <= j
    <3> HIDE DEF hits
    <3> QED  BY <1>9, <2>1, LeastNat
  <2> DEFINE least == CHOOSE i \in hits : \A j \in hits : i <= j
  <2>3. least \in hits /\ \A j \in hits : least <= j
    <3> HIDE DEF hits
    <3> QED  BY <2>2, Zenon
  <2>4. FirstBucket(v, wanted) = at[least]
    BY <1>2, <1>9
  <2> HIDE DEF hits, least
  <2>5. least \in 0..N /\ least < n /\ c[least + 1] \in wanted /\ at[least] = c[least + 1]
    BY <1>4, <1>6, <2>3
  <2>6. least + 1 \in 1..n
    BY <2>5, <1>0, SMTT(20), SMTT(30)
  <2>7. \A i \in 1..((least + 1) - 1) : c[i] \notin wanted
    <3> SUFFICES ASSUME NEW i \in 1..((least + 1) - 1), c[i] \in wanted PROVE FALSE
      OBVIOUS
    <3>1. i \in 1..n /\ i - 1 < least
      BY <2>5, <1>0, SMTT(20), SMTT(30)
    <3> QED  BY <3>1, <1>7, <2>3, <2>5, SMTT(20), SMTT(30)
  <2> QED  BY <2>4, <2>5, <2>6, <2>7 DEF Search
<1> QED  BY <1>8, <1>9

\* ch is the track c as a sequence.
Lines(ch, n, c) == ch = [i \in 1..n |-> c[i]]

\* Chain lists the nodes of a track in order.
LEMMA ChainIsTrack ==
  ASSUME Counting, NEW v, Typed(v), NEW head, NEW n, NEW c, Track(v.node, head, n, c)
  PROVE  Lines(Chain(v, head), n, c)
<1> DEFINE N  == Cardinality(DOMAIN v.node) + 1
           at == CHOOSE at : Walk(v, head, N, at)
           on == {i \in DOMAIN at : at[i] # NULL}
<1>0. /\ NULL \notin DOMAIN v.node /\ n \in Nat
      /\ \A i \in 1..n : c[i] \in DOMAIN v.node
  BY DEF Typed, Track
<1>1. N \in Nat /\ n <= N
  BY <1>0, WalkBound, SMTT(20), SMTT(30)
<1>2. Chain(v, head) = [i \in 1..Cardinality(on) |-> at[i - 1]]
  BY DEF Chain, Walk
<1> HIDE DEF N
<1>3. Walk(v, head, N, at)
  <2>1. \E g : Walk(v, head, N, g)
    BY <1>0, <1>1, WalkExists
  <2> QED  BY <2>1, Zenon
<1> HIDE DEF at
<1>4. \A i \in 0..N : at[i] = IF i < n THEN c[i + 1] ELSE NULL
  <2>1. Visits(at, N, n, c)
    BY <1>0, <1>1, <1>3, WalkIsTrack
  <2> QED  BY <2>1 DEF Visits
<1>5. on = 0..(n - 1)
  <2>1. DOMAIN at = 0..N
    BY <1>3 DEF Walk
  <2>2. \A i \in 0..N : i < n => c[i + 1] # NULL
    BY <1>0, SMTT(20), SMTT(30)
  <2> QED  BY <2>1, <2>2, <1>0, <1>1, <1>4, SMTT(20), SMTT(30)
<1> HIDE DEF on
<1>6. Cardinality(on) = n
  BY <1>0, <1>5, Positions
<1>7. \A i \in 1..n : at[i - 1] = c[i]
  BY <1>0, <1>1, <1>4, SMTT(20), SMTT(30)
<1> QED  BY <1>2, <1>6, <1>7 DEF Lines

\* The free pages are the pages of the buckets on the list.
LEMMA FreePagesAre ==
  ASSUME Counting, NEW v, Typed(v), NEW n, NEW c, Track(v.node, v.buckets, n, c)
  PROVE  FreePages(v) = Pages(v, n, c)
<1> DEFINE ch == Chain(v, v.buckets)
<1>1. ch = [i \in 1..n |-> c[i]]
  <2>1. Lines(ch, n, c)
    BY ChainIsTrack
  <2> QED  BY <2>1 DEF Lines
<1> HIDE DEF ch
<1>2. FreePages(v) = UNION {Run(v.node[ch[i]].pageno, v.node[ch[i]].size) : i \in DOMAIN ch}
  BY DEF FreePages, ch
<1>3. DOMAIN ch = 1..n /\ \A i \in 1..n : ch[i] = c[i]
  BY <1>1
<1>4. FreePages(v) = UNION {Run(v.node[c[i]].pageno, v.node[c[i]].size) : i \in 1..n}
  BY <1>2, <1>3
<1>5. \A i \in 1..n : v.node[c[i]].pageno \in Nat /\ v.node[c[i]].size \in Nat
  BY DEF Track, Typed, NodeType
<1>6. \A i \in 1..n : \A x : x \in Run(v.node[c[i]].pageno, v.node[c[i]].size)
                               <=> x \in Nat /\ InRun(x, v, c[i])
  BY <1>5, SMTT(20), SMTT(30) DEF Run, InRun, Start, End
<1>7. \A x : x \in FreePages(v) <=> x \in Pages(v, n, c)
  BY <1>4, <1>6 DEF Pages
<1> QED  BY <1>7

-----------------------------------------------------------------------------
\* What holds between two calls of vm.c: every node is in one of the lists,
\* and the buckets are apart.
WellKept(v) == \E n, c, m, d : Lists(v, n, c, m, d, {}) /\ Apart(v, n, c)

\* w is v after a reservation of the run [p, p + pages), all of it free before.
Takes(v, w, p, pages) ==
  /\ Typed(w) /\ WellKept(w)
  /\ SameBut(v, w, {"node", "buckets", "waiting"})
  /\ DOMAIN w.node = DOMAIN v.node
  /\ p \in Nat
  /\ Run(p, pages) \subseteq FreePages(v)
  /\ FreePages(w) = FreePages(v) \ Run(p, pages)

\* vm_reserve_pages, when it finds a bucket: the run it hands out was free,
\* exactly these pages stop being free, no node is lost when the bucket is
\* used up, and the buckets stay sorted with gaps.
LEMMA Reserve ==
  ASSUME Counting, NEW v, Typed(v), WellKept(v), NEW pages \in Nat \ {0},
         bucket_for(v, pages) # NULL
  PROVE  Takes(v, vm_reserve_pages(v, pages), reserved_pageno(v, pages), pages)
<1> DEFINE w == vm_reserve_pages(v, pages)
           p == reserved_pageno(v, pages)
<1>1. PICK n, c, m, d : Lists(v, n, c, m, d, {}) /\ Apart(v, n, c)
  BY DEF WellKept
<1>2. /\ Track(v.node, v.buckets, n, c) /\ n \in Nat
      /\ \A i \in 1..n : c[i] \in DOMAIN v.node
      /\ \A i, j \in 1..n : c[i] = c[j] => i = j
  BY <1>1 DEF Lists, Rail, Track
<1>3. NULL \notin Fitting(v, pages)
  BY DEF Typed, Fitting
<1>4. PICK k \in 1..n : bucket_for(v, pages) = c[k] /\ c[k] \in Fitting(v, pages)
  <2>1. Search(bucket_for(v, pages), n, c, Fitting(v, pages))
    BY <1>2, <1>3, FirstBucketFound DEF bucket_for
  <2> QED  BY <2>1 DEF Search
<1>5. \A i \in 1..n : /\ Start(v, c[i]) \in Nat /\ End(v, c[i]) \in Nat
                      /\ Start(v, c[i]) = v.node[c[i]].pageno
                      /\ v.node[c[i]].size \in Nat
                      /\ End(v, c[i]) = Start(v, c[i]) + v.node[c[i]].size
  <2>1. RunsTyped(v, n, c)
    BY <1>2, RunTypes
  <2> QED  BY <2>1 DEF RunsTyped
<1>6. p = Start(v, c[k]) /\ p \in Nat /\ v.node[c[k]].size >= pages /\ p + pages <= End(v, c[k])
  BY <1>4, <1>5, SMTT(20), SMTT(30) DEF reserved_pageno, Fitting
<1>7. \A x : x \in Run(p, pages) <=> x \in Nat /\ p <= x /\ x < p + pages
  <2> HIDE DEF p
  <2> QED  BY <1>6, SMTT(20), SMTT(30) DEF Run
<1> HIDE DEF p
<1>8. FreePages(v) = Pages(v, n, c)
  BY <1>2, FreePagesAre
<1>9. Run(p, pages) \subseteq Pages(v, n, c)
  BY <1>5, <1>6, <1>7, SMTT(20), SMTT(30) DEF Pages, InRun
<1>10. \A i, j \in 1..n : i < j => End(v, c[i]) < Start(v, c[j])
  BY <1>1 DEF Apart
<1>11. \A i \in 1..n : Start(v, c[i]) < End(v, c[i])
  BY <1>1 DEF Apart
<1>12. CASE v.node[c[k]].size = pages
  <2> DEFINE u == [v EXCEPT !.node[c[k]].pageno = 0, !.node[c[k]].size = 0]
             e == Drop(n, c, k)
  <2>1. w = ll_push_item(ll_remove_item(u, "buckets", c[k]), "waiting", c[k])
    BY <1>4, <1>12, <1>2 DEF vm_reserve_pages
  <2>2. Sets(v, u, c[k], 0, 0, v.node[c[k]].next, v.node[c[k]].prev)
    BY <1>2, SetRun
  <2> HIDE DEF u, w
  <2>3. Typed(u) /\ Lists(u, n, c, m, d, {}) /\ SameBut(v, u, {"node"}) /\ DOMAIN u.node = DOMAIN v.node
    <3>1. Lists(u, n, c, m, d, {})
      BY <2>2, <1>1, <1>2, RunChangeKeepsLists
    <3> QED  BY <3>1, <2>2 DEF Sets
  <2>4. /\ Typed(w)
        /\ SameBut(u, w, {"node", "buckets", "waiting"})
        /\ SameRuns(u, w)
        /\ Lists(w, n - 1, e, m + 1, Push(m, d, c[k]), {})
    BY <2>1, <2>3, ToWaiting
  <2>5. Thinned(e, n, c, k)
    BY <1>2, DropThins
  <2> HIDE DEF e
  <2>6. \A i \in 1..n : i # k => SameRunAt(v, w, c[i])
    <3> TAKE i \in 1..n
    <3> HAVE i # k
    <3>1. c[i] # c[k] /\ c[i] \in DOMAIN v.node
      BY <1>2
    <3>2. u.node[c[i]] = v.node[c[i]]
      BY <3>1, <2>2 DEF Sets
    <3>3. SameRunAt(v, u, c[i])
      BY <3>2 DEF SameRunAt, Start, End
    <3>4. SameRunAt(u, w, c[i])
      BY <3>1, <2>3, <2>4, SameRunsAt
    <3> QED  BY <3>3, <3>4 DEF SameRunAt
  <2>7. Apart(w, n - 1, e)
    <3>1. \A i \in 1..n : i # k => Start(w, c[i]) < End(w, c[i])
      BY <2>6, <1>11 DEF SameRunAt
    <3>2. \A i, j \in 1..n : i < j /\ i # k /\ j # k => End(w, c[i]) < Start(w, c[j])
      BY <2>6, <1>10 DEF SameRunAt
    <3> QED  BY <3>1, <3>2, <2>5, <1>2, ThinnedApart
  <2>8. FreePages(w) = Pages(w, n - 1, e)
    BY <2>4, FreePagesAre DEF Lists, Rail
  <2>9. p + pages = End(v, c[k])
    BY <1>5, <1>6, <1>12
  <2>10. ASSUME NEW x \in Nat
         PROVE  x \in Pages(w, n - 1, e) <=> x \in Pages(v, n, c) \ Run(p, pages)
    <3>1. x \in Pages(w, n - 1, e) <=> \E j \in 1..n : j # k /\ InRun(x, w, c[j])
      BY <2>5, <1>2, ThinnedPages
    <3>2. \A j \in 1..n : j # k => (InRun(x, w, c[j]) <=> InRun(x, v, c[j]))
      BY <2>6 DEF InRun, SameRunAt
    <3>3. x \in Run(p, pages) <=> InRun(x, v, c[k])
      BY <1>6, <1>7, <2>9 DEF InRun
    <3>4. \A j \in 1..n : j # k => ~ (InRun(x, v, c[j]) /\ InRun(x, v, c[k]))
      BY <1>2, <1>5, <1>10, SMTT(20), SMTT(30) DEF InRun
    <3> QED  BY <3>1, <3>2, <3>3, <3>4 DEF Pages
  <2>11. Pages(w, n - 1, e) = Pages(v, n, c) \ Run(p, pages)
    BY <2>10 DEF Pages
  <2>12. SameBut(v, w, {"node", "buckets", "waiting"}) /\ DOMAIN w.node = DOMAIN v.node
    BY <2>3, <2>4 DEF SameBut, SameRuns
  <2>13. WellKept(w)
    BY <2>4, <2>7 DEF WellKept
  <2> QED  BY <2>4, <2>8, <2>11, <2>12, <2>13, <1>6, <1>8, <1>9 DEF Takes, w, p
<1>13. CASE v.node[c[k]].size # pages
  <2> DEFINE np == v.node[c[k]].pageno + pages
             ns == v.node[c[k]].size - pages
  <2>1. w = [v EXCEPT !.node[c[k]].pageno = np, !.node[c[k]].size = ns]
    BY <1>4, <1>13, <1>2 DEF vm_reserve_pages
  <2>2. np \in Nat /\ ns \in Nat /\ ns > 0 /\ np = p + pages /\ np + ns = End(v, c[k])
    BY <1>5, <1>6, <1>13, SMTT(20), SMTT(30)
  <2> HIDE DEF np, ns, w
  <2>3. Sets(v, w, c[k], np, ns, v.node[c[k]].next, v.node[c[k]].prev)
    BY <1>2, <2>1, <2>2, SetRun
  <2>4. Typed(w) /\ Lists(w, n, c, m, d, {}) /\ SameBut(v, w, {"node"}) /\ DOMAIN w.node = DOMAIN v.node
    <3>1. Lists(w, n, c, m, d, {})
      BY <2>3, <1>1, <1>2, RunChangeKeepsLists
    <3> QED  BY <3>1, <2>3 DEF Sets
  <2>5. Start(w, c[k]) = p + pages /\ End(w, c[k]) = End(v, c[k])
    BY <2>2, <2>3 DEF Sets, Start, End
  <2>6. \A i \in 1..n : i # k => SameRunAt(v, w, c[i])
    <3> TAKE i \in 1..n
    <3> HAVE i # k
    <3>1. c[i] # c[k] /\ c[i] \in DOMAIN v.node
      BY <1>2
    <3>2. w.node[c[i]] = v.node[c[i]]
      BY <3>1, <2>3 DEF Sets
    <3> QED  BY <3>2 DEF SameRunAt, Start, End
  <2>7. Apart(w, n, c)
    <3>1. \A i \in 1..n : Start(w, c[i]) < End(w, c[i])
      BY <2>2, <2>5, <2>6, <1>11, SMTT(20), SMTT(30) DEF SameRunAt
    <3>2. ASSUME NEW i \in 1..n, NEW j \in 1..n, i < j
          PROVE  End(w, c[i]) < Start(w, c[j])
      <4>1. End(w, c[i]) = End(v, c[i]) /\ Start(v, c[j]) <= Start(w, c[j])
        BY <2>5, <2>6, <1>5, <1>6, SMTT(20), SMTT(30) DEF SameRunAt
      <4>2. End(v, c[i]) < Start(v, c[j])
        BY <3>2, <1>10
      <4>3. Start(w, c[j]) \in Nat
        BY <2>2, <2>5, <2>6, <1>5 DEF SameRunAt
      <4> QED  BY <4>1, <4>2, <4>3, <1>5, SMTT(20), SMTT(30)
    <3> QED  BY <3>1, <3>2 DEF Apart
  <2>8. FreePages(w) = Pages(w, n, c)
    BY <2>4, FreePagesAre DEF Lists, Rail
  <2>9. ASSUME NEW x \in Nat
        PROVE  x \in Pages(w, n, c) <=> x \in Pages(v, n, c) \ Run(p, pages)
    <3>1. \A j \in 1..n : j # k => (InRun(x, w, c[j]) <=> InRun(x, v, c[j]))
      BY <2>6 DEF InRun, SameRunAt
    <3>2. InRun(x, w, c[k]) <=> InRun(x, v, c[k]) /\ x \notin Run(p, pages)
      BY <1>5, <1>6, <1>7, <2>5, SMTT(20), SMTT(30) DEF InRun
    <3>3. \A j \in 1..n : j # k => ~ (InRun(x, v, c[j]) /\ InRun(x, v, c[k]))
      BY <1>2, <1>5, <1>10, SMTT(20), SMTT(30) DEF InRun
    <3>4. x \in Run(p, pages) => InRun(x, v, c[k])
      BY <1>5, <1>6, <1>7, SMTT(20), SMTT(30) DEF InRun
    <3> QED  BY <3>1, <3>2, <3>3, <3>4 DEF Pages
  <2>10. Pages(w, n, c) = Pages(v, n, c) \ Run(p, pages)
    BY <2>9 DEF Pages
  <2>11. SameBut(v, w, {"node", "buckets", "waiting"})
    BY <2>4 DEF SameBut
  <2>12. WellKept(w)
    BY <2>4, <2>7 DEF WellKept
  <2> QED  BY <2>4, <2>8, <2>10, <2>11, <2>12, <1>6, <1>8, <1>9 DEF Takes, w, p
<1> QED  BY <1>12, <1>13

\* In w the bucket at k has the runs of the ones at k and h, which adjoin.
Adjoining(v, w, c, k, h) ==
  \/ /\ End(v, c[h]) = Start(v, c[k])
     /\ Start(w, c[k]) = Start(v, c[h]) /\ End(w, c[k]) = End(v, c[k])
  \/ /\ End(v, c[k]) = Start(v, c[h])
     /\ Start(w, c[k]) = Start(v, c[k]) /\ End(w, c[k]) = End(v, c[h])

\* A merge of two adjoining buckets keeps the free pages: the joined run is
\* their union.
LEMMA AbsorbedPages ==
  ASSUME Counting, NEW v, Typed(v), NEW n, NEW c, NEW m, NEW d, Lists(v, n, c, m, d, {}),
         NEW k \in 1..n, NEW h \in 1..n, h # k, NEW p, NEW s,
         NEW w, Absorbed(v, w, n, c, m, d, k, h, p, s), Adjoining(v, w, c, k, h),
         Start(v, c[h]) <= End(v, c[h]), Start(v, c[k]) <= End(v, c[k])
  PROVE  FreePages(w) = FreePages(v)
<1> DEFINE e == Drop(n, c, h)
<1>1. n \in Nat /\ Track(v.node, v.buckets, n, c)
  BY DEF Lists, Rail, Track
<1>2. FreePages(v) = Pages(v, n, c)
  BY <1>1, FreePagesAre
<1>3. FreePages(w) = Pages(w, n - 1, e)
  <2>1. Typed(w) /\ Track(w.node, w.buckets, n - 1, e)
    BY DEF Absorbed, Lists, Rail
  <2> HIDE DEF e
  <2> QED  BY <2>1, FreePagesAre
<1>4. Thinned(e, n, c, h)
  BY <1>1, DropThins
<1> HIDE DEF e
<1>5. \A i \in 1..n : Start(v, c[i]) \in Nat /\ End(v, c[i]) \in Nat
  <2>1. RunsTyped(v, n, c)
    BY <1>1, RunTypes
  <2> QED  BY <2>1 DEF RunsTyped
<1>6. ASSUME NEW x \in Nat
      PROVE  x \in Pages(w, n - 1, e) <=> x \in Pages(v, n, c)
  <2>1. x \in Pages(w, n - 1, e) <=> \E j \in 1..n : j # h /\ InRun(x, w, c[j])
    BY <1>1, <1>4, ThinnedPages
  <2>2. \A j \in 1..n : j # k => (InRun(x, w, c[j]) <=> InRun(x, v, c[j]))
    BY DEF Absorbed, InRun, SameRunAt
  <2>3. InRun(x, w, c[k]) <=> InRun(x, v, c[k]) \/ InRun(x, v, c[h])
    BY <1>5, SMTT(20), SMTT(30) DEF InRun, Adjoining
  <2> QED  BY <2>1, <2>2, <2>3 DEF Pages
<1>7. Pages(w, n - 1, e) = Pages(v, n, c)
  BY <1>6 DEF Pages
<1> QED  BY <1>2, <1>3, <1>7

\* One merge of vm_optimize: a list one shorter, the same pages.
Joined(v, w, n, e, k) ==
  /\ Typed(w)
  /\ SameBut(v, w, {"node", "buckets", "waiting"})
  /\ DOMAIN w.node = DOMAIN v.node
  /\ \E m, d : Lists(w, n, e, m, d, {})
  /\ Loose(w, n, e, k)
  /\ FreePages(w) = FreePages(v)

\* After merge_front the bucket is apart from what is before it, and the test
\* made earlier for the bucket behind still has the same outcome.
FrontMerged(v, w, n, c, e, k) ==
  /\ Joined(v, w, n - 1, e, k - 1)
  /\ FrontApart(w, e, k - 1)
  /\ k - 1 \in 1..(n - 1) /\ e[k - 1] = c[k]
  /\ BackApart(w, n - 1, e, k - 1) <=> BackApart(v, n, c, k)

\* vm_optimize as a whole.
Optimized(v, w) ==
  /\ Typed(w) /\ WellKept(w)
  /\ SameBut(v, w, {"node", "buckets", "waiting"})
  /\ DOMAIN w.node = DOMAIN v.node
  /\ FreePages(w) = FreePages(v)

\* merge_front joins the bucket at k with the one before it.  vm_optimize made
\* its second test before this merge; the last conjunct of FrontMerged is why
\* that is no stale value.
LEMMA MergeFront ==
  ASSUME Counting, NEW v, Typed(v), NEW n, NEW c, NEW m, NEW d, Lists(v, n, c, m, d, {}),
         NEW k \in 1..n, k # 1, Loose(v, n, c, k), End(v, c[k - 1]) = Start(v, c[k]),
         NEW w, w = merge_front(v, c[k]), NEW e, e = Drop(n, c, k - 1)
  PROVE  FrontMerged(v, w, n, c, e, k)
<1> DEFINE h == k - 1
           p == v.node[c[h]].pageno
           s == v.node[c[k]].size + v.node[c[h]].size
           u == [v EXCEPT !.node[c[k]].pageno = p, !.node[c[k]].size = s]
<1>1. /\ n \in Nat /\ Track(v.node, v.buckets, n, c)
      /\ h \in 1..n /\ h # k /\ h < k
      /\ \A i \in 1..n : c[i] \in DOMAIN v.node /\ v.node[c[i]].prev = c[i - 1]
  BY SMTT(20), SMTT(30) DEF Lists, Rail, Track
<1>2. \A i \in 1..n : /\ Start(v, c[i]) \in Nat /\ End(v, c[i]) \in Nat
                      /\ Start(v, c[i]) = v.node[c[i]].pageno
                      /\ v.node[c[i]].size \in Nat
                      /\ End(v, c[i]) = Start(v, c[i]) + v.node[c[i]].size
  <2>1. RunsTyped(v, n, c)
    BY <1>1, RunTypes
  <2> QED  BY <2>1 DEF RunsTyped
<1>3. w = ll_push_item(ll_remove_item(u, "buckets", c[h]), "waiting", c[h])
  <2>1. v.node[c[k]].prev = c[h]
    BY <1>1
  <2> QED  BY <2>1, <1>1 DEF merge_front, Typed, Fields
<1>4. p \in Nat /\ s \in Nat /\ p = Start(v, c[h]) /\ p + s = End(v, c[k])
  <2>1. /\ p \in Nat /\ p = Start(v, c[h])
        /\ v.node[c[h]].size \in Nat /\ End(v, c[h]) = p + v.node[c[h]].size
    BY <1>1, <1>2
  <2>2. v.node[c[k]].size \in Nat /\ End(v, c[k]) = Start(v, c[k]) + v.node[c[k]].size
    BY <1>2
  <2>3. Start(v, c[k]) = p + v.node[c[h]].size
    BY <2>1
  <2>4. s \in Nat /\ p + s = End(v, c[k])
    BY <2>1, <2>2, <2>3, TwoRuns, SMTT(20), SMTT(30)
  <2> QED  BY <2>1, <2>4
<1>5. u = [v EXCEPT !.node[c[k]].pageno = p, !.node[c[k]].size = s]
  OBVIOUS
<1>6. k - 1 = h
  OBVIOUS
<1> HIDE DEF h, p, s, u
<1>7. Absorbed(v, w, n, c, m, d, k, h, p, s)
  BY <1>1, <1>3, <1>4, <1>5, Absorb
<1>8. Start(w, c[k]) = Start(v, c[h]) /\ End(w, c[k]) = End(v, c[k])
  BY <1>4, <1>7 DEF Absorbed
<1>9. \A i \in 1..n : i # k => Start(w, c[i]) = Start(v, c[i]) /\ End(w, c[i]) = End(v, c[i])
  BY <1>7 DEF Absorbed, SameRunAt
<1>10. /\ \A i \in 1..n : Start(v, c[i]) < End(v, c[i])
       /\ \A i, j \in 1..n : i < j => End(v, c[i]) <= Start(v, c[j])
       /\ \A i, j \in 1..n : i < j /\ i # k /\ j # k => End(v, c[i]) < Start(v, c[j])
  BY DEF Loose
<1>11. Thinned(e, n, c, h)
  BY <1>1, <1>6, DropThins
<1>12. Unskip(h, k) = h
  BY <1>1, <1>6, SMTT(20), SMTT(30) DEF Unskip
<1>13. Loose(w, n - 1, e, h)
  <2>1. ASSUME NEW i \in 1..n, i # h PROVE Start(w, c[i]) < End(w, c[i])
    <3>1. CASE i # k
      BY <3>1, <1>9, <1>10
    <3>2. CASE i = k
      <4>1. /\ Start(v, c[h]) \in Nat /\ End(v, c[h]) \in Nat /\ End(v, c[k]) \in Nat
            /\ Start(v, c[h]) < End(v, c[h]) /\ Start(v, c[k]) < End(v, c[k])
            /\ End(v, c[h]) = Start(v, c[k])
        BY <1>1, <1>2, <1>6, <1>10
      <4>2. Start(v, c[h]) < End(v, c[k])
        BY <4>1, LessThanTwice
      <4> QED  BY <4>2, <3>2, <1>8
    <3> QED  BY <3>1, <3>2
  <2>2. ASSUME NEW i \in 1..n, NEW j \in 1..n, i < j, i # h, j # h
        PROVE  End(w, c[i]) <= Start(w, c[j])
    <3>1. CASE i # k /\ j # k
      BY <3>1, <2>2, <1>9, <1>10
    <3>2. CASE i = k
      BY <3>2, <2>2, <1>8, <1>9, <1>10, SMTT(20), SMTT(30)
    <3>3. CASE j = k
      <4>1. i < h /\ i # k /\ h # k
        BY <3>3, <2>2, <1>6, SMTT(20), SMTT(30)
      <4>2. End(v, c[i]) < Start(v, c[h])
        BY <4>1, <1>1, <1>10
      <4> QED  BY <4>1, <4>2, <3>3, <1>1, <1>2, <1>8, <1>9, LessThan
    <3> QED  BY <3>1, <3>2, <3>3
  <2>3. \A i, j \in 1..n : i < j /\ i # h /\ j # h /\ i # k /\ j # k
                             => End(w, c[i]) < Start(w, c[j])
    BY <1>9, <1>10
  <2>4. Loose(w, n - 1, e, Unskip(h, k))
    BY <2>1, <2>2, <2>3, <1>1, <1>11, ThinnedLoose
  <2> QED  BY <2>4, <1>12
<1>14. FreePages(w) = FreePages(v)
  <2>1. Start(v, c[h]) <= End(v, c[h]) /\ Start(v, c[k]) <= End(v, c[k])
    BY <1>1, <1>2, <1>10, LessThan
  <2>2. Adjoining(v, w, c, k, h)
    BY <1>6, <1>8 DEF Adjoining
  <2>3. h \in 1..n /\ h # k
    BY <1>1
  <2> QED  BY <2>1, <2>2, <2>3, <1>7, AbsorbedPages, SMTT(20), SMTT(30)
<1>15. Joined(v, w, n - 1, e, h)
  <2>1. Lists(w, n - 1, e, m + 1, Push(m, d, c[h]), {})
    BY <1>6, <1>7 DEF Absorbed
  <2> QED  BY <2>1, <1>7, <1>13, <1>14 DEF Absorbed, Joined
<1>16. e[h] = c[k] /\ h \in 1..(n - 1) /\ (h # 1 => h - 1 \in 1..n /\ e[h - 1] = c[h - 1])
       /\ (k # n => k + 1 \in 1..n /\ e[h + 1] = c[k + 1])
  <2>1. n \in Nat /\ h \in 1..n
    BY <1>1
  <2> QED  BY <2>1, <1>6, SMTT(20), SMTT(30) DEF Drop
<1>17. FrontApart(w, e, h)
  <2>1. CASE h = 1
    BY <2>1 DEF FrontApart
  <2>2. CASE h # 1
    <3>1. h - 1 \in 1..n /\ h - 1 < h /\ h - 1 # k /\ e[h - 1] = c[h - 1]
      <4>1. h \in Int
        BY <1>6, SMTT(20), SMTT(30)
      <4>2. h - 1 < h /\ h - 1 # k
        BY <4>1, <1>6, SMTT(20), SMTT(30)
      <4> QED  BY <4>2, <2>2, <1>16
    <3>2. End(v, c[h - 1]) < Start(v, c[h])
      BY <3>1, <1>1, <1>10
    <3>3. End(w, e[h - 1]) = End(v, c[h - 1]) /\ Start(w, e[h]) = Start(v, c[h])
      BY <3>1, <1>8, <1>9, <1>16
    <3> QED  BY <3>1, <3>2, <3>3, <1>1, <1>2, LessThan DEF FrontApart
  <2> QED  BY <2>1, <2>2
<1>18. BackApart(w, n - 1, e, h) <=> BackApart(v, n, c, k)
  <2>1. CASE k = n
    BY <2>1, <1>6 DEF BackApart
  <2>2. CASE k # n
    <3>1. k + 1 \in 1..n /\ k + 1 # k /\ e[h + 1] = c[k + 1] /\ h # n - 1
      BY <2>2, <1>1, <1>6, <1>16, SMTT(20), SMTT(30)
    <3>2. End(w, e[h]) = End(v, c[k]) /\ Start(w, e[h + 1]) = Start(v, c[k + 1])
      BY <3>1, <1>8, <1>9, <1>16
    <3> QED  BY <3>1, <3>2, <2>2 DEF BackApart
  <2> QED  BY <2>1, <2>2
<1> QED  BY <1>6, <1>15, <1>16, <1>17, <1>18 DEF FrontMerged

\* merge_back, which assigns only the size, is Absorb with the page number
\* assigned to itself.
LEMMA KeepPageno ==
  ASSUME NEW v, Typed(v), NEW a \in DOMAIN v.node, NEW s
  PROVE  [v EXCEPT !.node[a].pageno = v.node[a].pageno, !.node[a].size = s]
           = [v EXCEPT !.node[a].size = s]
<1> DEFINE x == v.node[a]
           y == [x EXCEPT !.pageno = x.pageno]
<1>1. x \in NodeType(DOMAIN v.node)
  BY DEF Typed
<1>2. y = x
  BY <1>1 DEF NodeType
<1>3. [v EXCEPT !.node[a].pageno = v.node[a].pageno, !.node[a].size = s]
        = [v EXCEPT !.node = [@ EXCEPT ![a] = [y EXCEPT !.size = s]]]
  BY DEF Typed, Fields
<1>4. [v EXCEPT !.node[a].size = s]
        = [v EXCEPT !.node = [@ EXCEPT ![a] = [x EXCEPT !.size = s]]]
  BY DEF Typed, Fields
<1> QED  BY <1>2, <1>3, <1>4

\* merge_back joins the bucket at k with the one behind it, after which all
\* buckets are apart.
LEMMA MergeBack ==
  ASSUME Counting, NEW v, Typed(v), NEW n, NEW c, NEW m, NEW d, Lists(v, n, c, m, d, {}),
         NEW k \in 1..n, k # n, Loose(v, n, c, k), End(v, c[k]) = Start(v, c[k + 1]),
         FrontApart(v, c, k), NEW w, w = merge_back(v, c[k])
  PROVE  Optimized(v, w)
<1> DEFINE h == k + 1
           p == v.node[c[k]].pageno
           s == v.node[c[k]].size + v.node[c[h]].size
           u == [v EXCEPT !.node[c[k]].pageno = p, !.node[c[k]].size = s]
           e == Drop(n, c, h)
<1>1. /\ n \in Nat /\ Track(v.node, v.buckets, n, c)
      /\ h \in 1..n /\ h # k /\ k < h
      /\ \A i \in 1..n : c[i] \in DOMAIN v.node /\ v.node[c[i]].next = c[i + 1]
  BY SMTT(20), SMTT(30) DEF Lists, Rail, Track
<1>2. \A i \in 1..n : /\ Start(v, c[i]) \in Nat /\ End(v, c[i]) \in Nat
                      /\ Start(v, c[i]) = v.node[c[i]].pageno
                      /\ v.node[c[i]].size \in Nat
                      /\ End(v, c[i]) = Start(v, c[i]) + v.node[c[i]].size
  <2>1. RunsTyped(v, n, c)
    BY <1>1, RunTypes
  <2> QED  BY <2>1 DEF RunsTyped
<1>3. w = ll_push_item(ll_remove_item(u, "buckets", c[h]), "waiting", c[h])
  <2>1. v.node[c[k]].next = c[h]
    BY <1>1
  <2>2. u = [v EXCEPT !.node[c[k]].size = v.node[c[k]].size + v.node[c[h]].size]
    BY <1>1, KeepPageno, ZenonT(40)
  <2> QED  BY <2>1, <2>2, <1>1 DEF merge_back, Typed, Fields
<1>4. p \in Nat /\ s \in Nat /\ p = Start(v, c[k]) /\ p + s = End(v, c[h])
  <2>1. /\ p \in Nat /\ p = Start(v, c[k])
        /\ v.node[c[k]].size \in Nat /\ End(v, c[k]) = p + v.node[c[k]].size
    BY <1>2
  <2>2. v.node[c[h]].size \in Nat /\ End(v, c[h]) = Start(v, c[h]) + v.node[c[h]].size
    BY <1>1, <1>2
  <2>3. Start(v, c[h]) = p + v.node[c[k]].size
    BY <2>1
  <2>4. s \in Nat /\ p + s = End(v, c[h])
    BY <2>1, <2>2, <2>3, TwoRuns, SMTT(20), SMTT(30)
  <2> QED  BY <2>1, <2>4
<1>5. u = [v EXCEPT !.node[c[k]].pageno = p, !.node[c[k]].size = s]
  OBVIOUS
<1>6. h = k + 1 /\ e = Drop(n, c, h)
  OBVIOUS
<1> HIDE DEF h, p, s, u, e
<1>7. Absorbed(v, w, n, c, m, d, k, h, p, s)
  BY <1>1, <1>3, <1>4, <1>5, Absorb
<1>8. Start(w, c[k]) = Start(v, c[k]) /\ End(w, c[k]) = End(v, c[h])
  BY <1>4, <1>7 DEF Absorbed
<1>9. \A i \in 1..n : i # k => Start(w, c[i]) = Start(v, c[i]) /\ End(w, c[i]) = End(v, c[i])
  BY <1>7 DEF Absorbed, SameRunAt
<1>10. /\ \A i \in 1..n : Start(v, c[i]) < End(v, c[i])
       /\ \A i, j \in 1..n : i < j => End(v, c[i]) <= Start(v, c[j])
       /\ \A i, j \in 1..n : i < j /\ i # k /\ j # k => End(v, c[i]) < Start(v, c[j])
  BY DEF Loose
<1>11. Thinned(e, n, c, h)
  BY <1>1, <1>6, DropThins
<1>12. Unskip(h, k) = k
  BY <1>1, <1>6 DEF Unskip
<1>13. Loose(w, n - 1, e, k)
  <2>1. ASSUME NEW i \in 1..n, i # h PROVE Start(w, c[i]) < End(w, c[i])
    <3>1. CASE i # k
      BY <3>1, <1>9, <1>10
    <3>2. CASE i = k
      <4>1. /\ Start(v, c[k]) \in Nat /\ End(v, c[k]) \in Nat /\ End(v, c[h]) \in Nat
            /\ Start(v, c[k]) < End(v, c[k]) /\ Start(v, c[h]) < End(v, c[h])
            /\ End(v, c[k]) = Start(v, c[h])
        BY <1>1, <1>2, <1>6, <1>10
      <4>2. Start(v, c[k]) < End(v, c[h])
        BY <4>1, LessThanTwice
      <4> QED  BY <4>2, <3>2, <1>8
    <3> QED  BY <3>1, <3>2
  <2>2. ASSUME NEW i \in 1..n, NEW j \in 1..n, i < j, i # h, j # h
        PROVE  End(w, c[i]) <= Start(w, c[j])
    <3>1. CASE i # k /\ j # k
      BY <3>1, <2>2, <1>9, <1>10
    <3>2. CASE j = k
      BY <3>2, <2>2, <1>8, <1>9, <1>10, SMTT(20), SMTT(30)
    <3>3. CASE i = k
      <4>1. h < j /\ j # k /\ h # k
        BY <3>3, <2>2, <1>6, SMTT(20), SMTT(30)
      <4>2. End(v, c[h]) < Start(v, c[j])
        BY <4>1, <1>1, <1>10
      <4> QED  BY <4>1, <4>2, <3>3, <1>1, <1>2, <1>8, <1>9, LessThan
    <3> QED  BY <3>1, <3>2, <3>3
  <2>3. \A i, j \in 1..n : i < j /\ i # h /\ j # h /\ i # k /\ j # k
                             => End(w, c[i]) < Start(w, c[j])
    BY <1>9, <1>10
  <2>4. Loose(w, n - 1, e, Unskip(h, k))
    BY <2>1, <2>2, <2>3, <1>1, <1>11, ThinnedLoose
  <2> QED  BY <2>4, <1>12
<1>14. FreePages(w) = FreePages(v)
  <2>1. Start(v, c[h]) <= End(v, c[h]) /\ Start(v, c[k]) <= End(v, c[k])
    BY <1>1, <1>2, <1>10, LessThan
  <2>2. Adjoining(v, w, c, k, h)
    BY <1>6, <1>8 DEF Adjoining
  <2>3. h \in 1..n /\ h # k
    BY <1>1
  <2> QED  BY <2>1, <2>2, <2>3, <1>7, AbsorbedPages, SMTT(20), SMTT(30)
<1>15. /\ e[k] = c[k] /\ k \in 1..(n - 1) /\ n - 1 \in Nat
       /\ k # 1 => k - 1 \in 1..n /\ e[k - 1] = c[k - 1]
       /\ k # n - 1 => h + 1 \in 1..n /\ e[k + 1] = c[h + 1]
  <2>1. n \in Nat /\ h \in 1..n
    BY <1>1
  <2> QED  BY <2>1, <1>6, SMTT(20), SMTT(30) DEF Drop
<1>16. FrontApart(w, e, k)
  <2>1. CASE k = 1
    BY <2>1 DEF FrontApart
  <2>2. CASE k # 1
    <3>1. k - 1 \in 1..n /\ k - 1 # k /\ e[k - 1] = c[k - 1]
      BY <2>2, <1>15, SMTT(20), SMTT(30)
    <3>2. End(w, e[k - 1]) = End(v, c[k - 1]) /\ Start(w, e[k]) = Start(v, c[k])
      BY <3>1, <1>8, <1>9, <1>15
    <3> QED  BY <3>2, <2>2 DEF FrontApart
  <2> QED  BY <2>1, <2>2
<1>17. BackApart(w, n - 1, e, k)
  <2>1. CASE k = n - 1
    BY <2>1 DEF BackApart
  <2>2. CASE k # n - 1
    <3>1. h + 1 \in 1..n /\ h < h + 1 /\ h + 1 # k /\ e[k + 1] = c[h + 1]
      <4>1. h < h + 1 /\ h + 1 # k
        BY <1>6, SMTT(20), SMTT(30)
      <4> QED  BY <4>1, <2>2, <1>15
    <3>2. End(v, c[h]) < Start(v, c[h + 1])
      BY <3>1, <1>1, <1>10
    <3>3. End(w, e[k]) = End(v, c[h]) /\ Start(w, e[k + 1]) = Start(v, c[h + 1])
      BY <3>1, <1>8, <1>9, <1>15
    <3> QED  BY <3>1, <3>2, <3>3, <1>1, <1>2, LessThan DEF BackApart
  <2> QED  BY <2>1, <2>2
<1>18. Lists(w, n - 1, e, m + 1, Push(m, d, c[h]), {}) /\ Typed(w)
  BY <1>6, <1>7 DEF Absorbed
<1>19. Apart(w, n - 1, e)
  <2>1. RunsTyped(w, n - 1, e)
    BY <1>18, RunTypes DEF Lists, Rail
  <2> QED  BY <2>1, <1>13, <1>15, <1>16, <1>17, LooseApart
<1>20. WellKept(w)
  BY <1>18, <1>19 DEF WellKept
<1> QED  BY <1>7, <1>14, <1>18, <1>20 DEF Absorbed, Optimized

\* vm_optimize, called for the one bucket that may touch its neighbours, leaves
\* the buckets apart and the free pages as they were, and no ASSERT fails in
\* either merge.
LEMMA Optimize ==
  ASSUME Counting,
         NEW v, Typed(v), Running(v), NEW n, NEW c, NEW m, NEW d, Lists(v, n, c, m, d, {}),
         NEW k \in 1..n, Loose(v, n, c, k)
  PROVE  Optimized(v, vm_optimize(v, c[k]))
<1> DEFINE it == v.node[c[k]]
           front == it.prev # NULL /\ Adjoin(v.node[it.prev], it)
           back  == it.next # NULL /\ Adjoin(it, v.node[it.next])
           u == merge_front(v, c[k])
           e == Drop(n, c, k - 1)
<1>1. /\ n \in Nat /\ Track(v.node, v.buckets, n, c)
      /\ \A i \in 1..n : /\ c[i] \in DOMAIN v.node /\ v.node[c[i]].next = c[i + 1]
                         /\ v.node[c[i]].prev = c[i - 1]
      /\ NULL \notin DOMAIN v.node /\ c[0] = NULL /\ c[n + 1] = NULL
  BY DEF Lists, Rail, Track, Typed
<1>2. RunsTyped(v, n, c)
  BY <1>1, RunTypes
<1>3. front <=> ~ FrontApart(v, c, k)
  <2>1. CASE k = 1
    <3>1. k - 1 = 0
      BY <2>1, SMTT(20), SMTT(30)
    <3>2. it.prev = NULL
      BY <3>1, <1>1
    <3> QED  BY <3>2, <2>1 DEF FrontApart
  <2>2. CASE k # 1
    <3>1. k - 1 \in 1..n
      BY <2>2, <1>1, SMTT(20), SMTT(30)
    <3> QED  BY <3>1, <2>2, <1>1 DEF FrontApart, Adjoin, Start, End
  <2> QED  BY <2>1, <2>2
<1>4. back <=> ~ BackApart(v, n, c, k)
  <2>1. CASE k = n
    BY <2>1, <1>1 DEF BackApart
  <2>2. CASE k # n
    <3>1. k + 1 \in 1..n
      BY <2>2, <1>1, SMTT(20), SMTT(30)
    <3> QED  BY <3>1, <2>2, <1>1 DEF BackApart, Adjoin, Start, End
  <2> QED  BY <2>1, <2>2
<1>5. vm_optimize(v, c[k]) = LET v1 == IF front THEN u ELSE v
                             IN  IF back /\ Running(v1) THEN merge_back(v1, c[k]) ELSE v1
  BY DEF vm_optimize
<1>6. e = Drop(n, c, k - 1) /\ u = merge_front(v, c[k])
  OBVIOUS
<1> HIDE DEF front, back, u, e, it
<1>7. CASE ~ front
  <2>1. FrontApart(v, c, k)
    BY <1>3, <1>7
  <2>2. CASE back
    <3>1. k # n /\ End(v, c[k]) = Start(v, c[k + 1])
      BY <2>2, <1>4 DEF BackApart
    <3>2. vm_optimize(v, c[k]) = merge_back(v, c[k])
      BY <1>5, <1>7, <2>2
    <3>3. Optimized(v, merge_back(v, c[k]))
      BY <2>1, <3>1, MergeBack
    <3> QED  BY <3>2, <3>3
  <2>3. CASE ~ back
    <3>1. BackApart(v, n, c, k)
      BY <2>3, <1>4
    <3>2. vm_optimize(v, c[k]) = v
      BY <1>5, <1>7, <2>3
    <3>3. Apart(v, n, c)
      BY <2>1, <3>1, <1>1, <1>2, LooseApart
    <3> QED  BY <3>2, <3>3 DEF Optimized, WellKept, SameBut
  <2> QED  BY <2>2, <2>3
<1>8. CASE front
  <2>1. k # 1 /\ End(v, c[k - 1]) = Start(v, c[k])
    BY <1>3, <1>8 DEF FrontApart
  <2>2. FrontMerged(v, u, n, c, e, k)
    BY <2>1, <1>6, MergeFront
  <2>3. /\ Typed(u) /\ SameBut(v, u, {"node", "buckets", "waiting"})
        /\ DOMAIN u.node = DOMAIN v.node
        /\ Loose(u, n - 1, e, k - 1) /\ FreePages(u) = FreePages(v)
        /\ FrontApart(u, e, k - 1) /\ k - 1 \in 1..(n - 1) /\ e[k - 1] = c[k]
        /\ BackApart(u, n - 1, e, k - 1) <=> BackApart(v, n, c, k)
    BY <2>2 DEF FrontMerged, Joined
  <2>4. PICK x, y : Lists(u, n - 1, e, x, y, {})
    BY <2>2 DEF FrontMerged, Joined
  <2>5. Running(u)
    BY <2>3 DEF Running, SameBut, Typed, Fields
  <2>6. CASE back
    <3>1. k - 1 # n - 1 /\ End(u, e[k - 1]) = Start(u, e[(k - 1) + 1])
      BY <2>3, <2>6, <1>4 DEF BackApart
    <3>2. vm_optimize(v, c[k]) = merge_back(u, e[k - 1])
      BY <1>5, <1>8, <2>3, <2>5, <2>6
    <3>3. Optimized(u, merge_back(u, e[k - 1]))
      BY <2>3, <2>4, <3>1, MergeBack
    <3> QED  BY <2>3, <3>2, <3>3 DEF Optimized, SameBut
  <2>7. CASE ~ back
    <3>1. BackApart(u, n - 1, e, k - 1)
      BY <2>3, <2>7, <1>4
    <3>2. vm_optimize(v, c[k]) = u
      BY <1>5, <1>8, <2>7
    <3>3. RunsTyped(u, n - 1, e)
      BY <2>3, <2>4, RunTypes DEF Lists, Rail
    <3>4. Apart(u, n - 1, e)
      <4>1. n - 1 \in Nat
        BY <2>4 DEF Lists, Rail, Track
      <4> QED  BY <2>3, <3>1, <3>3, <4>1, LooseApart
    <3> QED  BY <2>3, <2>4, <3>2, <3>4 DEF Optimized, WellKept
  <2> QED  BY <2>6, <2>7
<1> QED  BY <1>7, <1>8

\* A single page comes from the first bucket: it is the lowest free page, and
\* there is none to be had only when no page is free.
LEMMA ReserveFirst ==
  ASSUME Counting, NEW v, Typed(v), WellKept(v)
  PROVE  /\ bucket_for(v, 1) = NULL => FreePages(v) = {}
         /\ bucket_for(v, 1) # NULL => \A x \in FreePages(v) : reserved_pageno(v, 1) <= x
<1>1. PICK n, c, m, d : Lists(v, n, c, m, d, {}) /\ Apart(v, n, c)
  BY DEF WellKept
<1>2. n \in Nat /\ Track(v.node, v.buckets, n, c) /\ \A i \in 1..n : c[i] \in DOMAIN v.node
  BY <1>1 DEF Lists, Rail, Track
<1>3. RunsTyped(v, n, c)
  BY <1>2, RunTypes
<1>4. FreePages(v) = Pages(v, n, c)
  BY <1>2, FreePagesAre
<1>5. \A i \in 1..n : c[i] \in Fitting(v, 1)
  BY <1>1, <1>2, <1>3, SMTT(20), SMTT(30) DEF Fitting, Apart, RunsTyped
<1>6. Search(bucket_for(v, 1), n, c, Fitting(v, 1))
  <2>1. NULL \notin Fitting(v, 1)
    BY DEF Typed, Fitting
  <2> QED  BY <2>1, <1>2, FirstBucketFound DEF bucket_for
<1>7. ASSUME bucket_for(v, 1) = NULL PROVE FreePages(v) = {}
  <2>1. \A i \in 1..n : FALSE
    BY <1>2, <1>5, <1>6, <1>7 DEF Search, Typed
  <2> QED  BY <2>1, <1>4 DEF Pages
<1>8. ASSUME bucket_for(v, 1) # NULL, NEW x \in FreePages(v) PROVE reserved_pageno(v, 1) <= x
  <2>1. PICK k \in 1..n : /\ bucket_for(v, 1) = c[k]
                          /\ \A i \in 1..(k - 1) : c[i] \notin Fitting(v, 1)
    BY <1>6, <1>8 DEF Search
  <2>2. ~ (1 < k)
    <3>1. ASSUME 1 < k PROVE 1 \in 1..n /\ 1 \in 1..(k - 1)
      BY <1>2, <3>1, SMTT(20), SMTT(30)
    <3> QED  BY <3>1, <2>1, <1>5
  <2>3. k = 1
    BY <1>2, <2>2, SMTT(20), SMTT(30)
  <2>4. reserved_pageno(v, 1) = Start(v, c[1]) /\ 1 \in 1..n
    BY <2>1, <2>3 DEF reserved_pageno, Start
  <2>5. PICK i \in 1..n : InRun(x, v, c[i])
    BY <1>4 DEF Pages
  <2>6. i = 1 \/ 1 < i
    BY <1>2, SMTT(20), SMTT(30)
  <2>7. x \in Nat
    BY <1>4 DEF Pages
  <2>8. 1 < i => End(v, c[1]) < Start(v, c[i])
    BY <1>1, <2>4 DEF Apart
  <2>9. Start(v, c[1]) < End(v, c[1])
    BY <1>1, <2>4 DEF Apart
  <2> QED  BY <2>4, <2>5, <2>6, <2>7, <2>8, <2>9, <1>3, SMTT(20), SMTT(30) DEF InRun, RunsTyped
<1> QED  BY <1>7, <1>8

-----------------------------------------------------------------------------
\* The run [p, p + s) goes in before the first bucket that starts behind p.
Placed(v, w, n, c, k, item, p, s) ==
  /\ Typed(w)
  /\ SameBut(v, w, {"node", "buckets"})
  /\ DOMAIN w.node = DOMAIN v.node
  /\ \E m, d : Lists(w, n + 1, Insert(n, c, k, item), m, d, {})
  /\ Loose(w, n + 1, Insert(n, c, k, item), k)
  /\ FreePages(w) = Pages(v, n, c) \cup Run(p, s)
  /\ Insert(n, c, k, item)[k] = item

\* ll_insert_before at the place that vm_return_pages searches, for a run with
\* no free page in it: the list stays sorted and has the pages of the run
\* added.  Nothing of the run overlaps a neighbour, because the bucket before
\* starts at or before p and does not contain p.
LEMMA Place ==
  ASSUME Counting,
         NEW v, Typed(v), NEW n, NEW c, NEW m, NEW d, NEW item, Lists(v, n, c, m, d, {item}),
         Apart(v, n, c), NEW p \in Nat, NEW s \in Nat, s > 0,
         Start(v, item) = p, End(v, item) = p + s, Disjoint(v, n, c, p, s),
         NEW k \in 1..n, Start(v, c[k]) > p, \A i \in 1..n : i < k => Start(v, c[i]) <= p,
         NEW w, w = ll_insert_before(v, "buckets", item, c[k])
  PROVE  Placed(v, w, n, c, k, item, p, s)
<1> DEFINE e == Insert(n, c, k, item)
           S == DOMAIN v.node \cup {NULL}
<1>1. /\ n \in Nat /\ c \in [0..(n + 1) -> S] /\ Track(v.node, v.buckets, n, c)
      /\ \A i \in 1..n : c[i] \in DOMAIN v.node /\ c[i] # item
      /\ \A i, j \in 1..n : c[i] = c[j] => i = j
      /\ item \in DOMAIN v.node /\ item \in S /\ k \in 1..(n + 1)
  <2>1. /\ Track(v.node, v.buckets, n, c) /\ {item} \subseteq DOMAIN v.node
        /\ \A i \in 1..n : c[i] \notin {item}
    BY DEF Lists, Rail
  <2>2. /\ n \in Nat /\ c \in [0..(n + 1) -> S]
        /\ \A i \in 1..n : c[i] \in DOMAIN v.node
        /\ \A i, j \in 1..n : c[i] = c[j] => i = j
    BY <2>1 DEF Track
  <2>3. k \in 1..(n + 1)
    BY <2>2, SMTT(20), SMTT(30)
  <2> QED  BY <2>1, <2>2, <2>3
<1>2. Spliced(e, n, c, k, item, S)
  BY <1>1, InsertIndex
<1>3. /\ Typed(w) /\ SameBut(v, w, {"node", "buckets"}) /\ SameRuns(v, w)
      /\ Lists(w, n + 1, e, m, d, {})
  BY InsertBefore
<1> HIDE DEF e, S
<1>4. RunsTyped(v, n, c)
  BY <1>1, RunTypes
<1>5. \A i \in 1..n : Start(v, c[i]) \in Nat /\ End(v, c[i]) \in Nat
  BY <1>4 DEF RunsTyped
<1>6. /\ \A i \in 1..n : Start(v, c[i]) < End(v, c[i])
      /\ \A i, j \in 1..n : i < j => End(v, c[i]) < Start(v, c[j])
  BY DEF Apart
<1>7. \A i \in 1..n : SameRunAt(v, w, c[i])
  BY <1>1, <1>3, SameRunsAt
<1>8. Start(w, item) = p /\ End(w, item) = p + s
  <2>1. SameRunAt(v, w, item)
    BY <1>1, <1>3, SameRunsAt
  <2> QED  BY <2>1 DEF SameRunAt
<1>9. \A i \in 1..n, x \in Nat : p <= x /\ x < p + s => ~ InRun(x, v, c[i])
  BY DEF Disjoint, Pages
<1>10. ASSUME NEW i \in 1..n, i < k PROVE End(v, c[i]) <= p
  <2>1. ~ InRun(p, v, c[i])
    BY <1>9, SMTT(20), SMTT(30)
  <2> QED  BY <2>1, <1>5, <1>10, SMTT(20), SMTT(30) DEF InRun
<1>11. p + s <= Start(v, c[k])
  <2>1. p <= Start(v, c[k]) /\ Start(v, c[k]) < p + s => ~ InRun(Start(v, c[k]), v, c[k])
    BY <1>5, <1>9
  <2>2. InRun(Start(v, c[k]), v, c[k])
    BY <1>5, <1>6, SMTT(20), SMTT(30) DEF InRun
  <2> QED  BY <2>1, <2>2, <1>5, SMTT(20), SMTT(30)
<1>12. ASSUME NEW i \in 1..n, k <= i PROVE p + s <= Start(v, c[i])
  <2>1. CASE i = k
    BY <2>1, <1>11
  <2>2. CASE i # k
    <3>1. Start(v, c[k]) < End(v, c[k]) /\ End(v, c[k]) < Start(v, c[i])
      BY <1>6, <1>12, <2>2, SMTT(20), SMTT(30)
    <3> QED  BY <3>1, <1>5, <1>11, SMTT(20), SMTT(30)
  <2> QED  BY <2>1, <2>2
<1>13. Loose(w, n + 1, e, k)
  BY <1>1, <1>2, <1>4, <1>7, <1>8, <1>10, <1>12, SplicedLoose
<1>14. FreePages(w) = Pages(w, n + 1, e)
  <2>1. Track(w.node, w.buckets, n + 1, e)
    BY <1>3 DEF Lists, Rail
  <2> QED  BY <2>1, <1>3, FreePagesAre
<1>15. Adds(Pages(w, n + 1, e), Pages(v, n, c), p, s)
  BY <1>1, <1>2, <1>7, <1>8, SplicedPages
<1>16. e[k] = item
  BY <1>2 DEF Spliced
<1> QED  BY <1>3, <1>13, <1>14, <1>15, <1>16 DEF Placed, Adds, SameRuns, e

\* The node that vm_item returned is given the run.
Prepared(v, w, n, c, item, p, s) ==
  /\ Typed(w) /\ SameBut(v, w, {"node"}) /\ DOMAIN w.node = DOMAIN v.node
  /\ Running(w)
  /\ w.node[item].next = NULL /\ w.node[item].prev = NULL
  /\ Start(w, item) = p /\ End(w, item) = p + s
  /\ \A i \in 1..n : SameRunAt(v, w, c[i])
  /\ \E m, d : Lists(w, n, c, m, d, {item})

\* Giving the run to the node that vm_item returned changes no list and no
\* other bucket.
LEMMA Prepare ==
  ASSUME NEW v, Typed(v), Running(v), NEW n, NEW c, NEW m, NEW d, NEW item \in DOMAIN v.node,
         Lists(v, n, c, m, d, {item}), v.node[item].next = NULL, v.node[item].prev = NULL,
         NEW p \in Nat, NEW s \in Nat,
         NEW w, w = [v EXCEPT !.node[item].pageno = p, !.node[item].size = s]
  PROVE  Prepared(v, w, n, c, item, p, s)
<1>1. Sets(v, w, item, p, s, v.node[item].next, v.node[item].prev)
  BY SetRun
<1>2. Lists(w, n, c, m, d, {item})
  BY <1>1, RunChangeKeepsLists
<1>3. \A i \in 1..n : c[i] \in DOMAIN v.node /\ c[i] # item
  BY DEF Lists, Rail, Track
<1>4. \A i \in 1..n : SameRunAt(v, w, c[i])
  <2> TAKE i \in 1..n
  <2>1. w.node[c[i]] = v.node[c[i]]
    BY <1>1, <1>3 DEF Sets
  <2> QED  BY <2>1 DEF SameRunAt, Start, End
<1>5. Running(w)
  BY <1>1 DEF Sets, SameBut, Running, Typed, Fields
<1>6. Start(w, item) = p /\ End(w, item) = p + s
  BY <1>1 DEF Sets, Start, End
<1> QED  BY <1>1, <1>2, <1>4, <1>5, <1>6 DEF Prepared, Sets

\* Where vm_return_pages of a run at p can stop the kernel: in ll_pop_item, or
\* in ll_append_notempty when there are free pages, Q, and none is behind p.
Stops(w, Q, p) ==
  /\ w.status \in Statuses
  /\ \/ Running(w)
     \/ w.status = "ASSERT(item->prev == NULL)"
     \/ w.status = "ASSERT(olditem)" /\ Q # {} /\ \A x \in Q : x < p

\* What vm_return_pages does once it has a node: the run [p, p + s) is added
\* to the pages Q of the buckets, unless the kernel stops.
Returned(v, w, Q, p, s) ==
  /\ Stops(w, Q, p)
  /\ Running(w) => /\ Typed(w) /\ WellKept(w)
                   /\ SameBut(v, w, {"node", "buckets", "waiting"})
                   /\ DOMAIN w.node = DOMAIN v.node
                   /\ FreePages(w) = Q \cup Run(p, s)

\* The part of vm_return_pages after vm_item.
Puts(v, w, item, p) ==
  w = LET node == FirstBucket(v, Behind(v, p))
      IN  IF v.buckets = NULL THEN ll_push_item(v, "buckets", item)
          ELSE IF node = NULL THEN ll_append_notempty(v, item, node)
          ELSE vm_optimize(ll_insert_before(v, "buckets", item, node), item)

\* vm_return_pages with its node at hand: on all three ways, the empty list,
\* the end of the list and before a bucket, the kernel stops or the run is
\* added to the free pages with the lists well kept.
LEMMA ReturnItem ==
  ASSUME Counting, NEW v, Typed(v), Running(v), NEW n, NEW c, NEW m, NEW d, NEW item,
         Lists(v, n, c, m, d, {item}), Apart(v, n, c),
         v.node[item].next = NULL, v.node[item].prev = NULL,
         NEW p \in Nat, NEW s \in Nat, s > 0,
         Start(v, item) = p, End(v, item) = p + s, Disjoint(v, n, c, p, s),
         NEW w, Puts(v, w, item, p)
  PROVE  Returned(v, w, Pages(v, n, c), p, s)
<1> DEFINE b == FirstBucket(v, Behind(v, p))
<1>0. /\ b = FirstBucket(v, Behind(v, p))
      /\ w = IF v.buckets = NULL THEN ll_push_item(v, "buckets", item)
             ELSE IF b = NULL THEN ll_append_notempty(v, item, b)
             ELSE vm_optimize(ll_insert_before(v, "buckets", item, b), item)
  BY DEF Puts
<1> HIDE DEF b
<1>1. /\ n \in Nat /\ Track(v.node, v.buckets, n, c)
      /\ \A i \in 1..n : c[i] \in DOMAIN v.node
      /\ item \in DOMAIN v.node
  BY DEF Lists, Rail, Track
<1>2. "status" \in DOMAIN v /\ v.status = "running"
  BY DEF Typed, Fields, Running
<1>3. CASE v.buckets = NULL
  <2> DEFINE e == Insert(0, c, 1, item)
  <2>1. w = ll_push_item(v, "buckets", item)
    BY <1>0, <1>3
  <2>2. /\ Typed(w) /\ SameBut(v, w, {"node", "buckets"}) /\ SameRuns(v, w)
        /\ n = 0 /\ Lists(w, 1, e, m, d, {})
    <3>1. PushedFirst(v, w, n, c, m, d, item)
      BY <2>1, <1>3, PushEmpty
    <3> QED  BY <3>1 DEF PushedFirst
  <2>3. e[1] = item
    BY SMTT(20), SMTT(30) DEF Insert
  <2> HIDE DEF e
  <2>4. Start(w, item) = p /\ End(w, item) = p + s
    <3>1. SameRunAt(v, w, item)
      BY <2>2, <1>1, SameRunsAt
    <3> QED  BY <3>1 DEF SameRunAt
  <2>5. Apart(w, 1, e)
    BY <2>3, <2>4, SMTT(20), SMTT(30) DEF Apart
  <2>6. FreePages(w) = Pages(w, 1, e)
    <3>1. Track(w.node, w.buckets, 1, e)
      BY <2>2 DEF Lists, Rail
    <3> QED  BY <3>1, <2>2, FreePagesAre
  <2>7. Pages(v, n, c) = {}
    BY <2>2, SMTT(20), SMTT(30) DEF Pages
  <2>8. Pages(w, 1, e) = Run(p, s)
    BY <2>3, <2>4, SMTT(20), SMTT(30) DEF Pages, InRun, Run
  <2>9. WellKept(w)
    BY <2>2, <2>5 DEF WellKept
  <2>10. w.status = v.status /\ SameBut(v, w, {"node", "buckets", "waiting"})
    BY <2>2, <1>2 DEF SameBut
  <2>11. Stops(w, Pages(v, n, c), p)
    BY <2>10, <1>2, Zenon DEF Stops, Running, Statuses
  <2>12. FreePages(w) = Pages(v, n, c) \cup Run(p, s) /\ DOMAIN w.node = DOMAIN v.node
    BY <2>2, <2>6, <2>7, <2>8 DEF SameRuns
  <2> QED  BY <2>2, <2>9, <2>10, <2>11, <2>12 DEF Returned
<1>4. CASE v.buckets # NULL /\ b = NULL
  <2>1. w.status = "ASSERT(olditem)"
    BY <1>0, <1>2, <1>4 DEF ll_append_notempty, PANIC
  <2>2. w.status \in Statuses /\ ~ Running(w)
    BY <2>1, Zenon DEF Running, Statuses
  <2>3. NULL \notin Behind(v, p)
    BY DEF Typed, Behind
  <2>4. Search(b, n, c, Behind(v, p))
    BY <2>3, <1>0, <1>1, FirstBucketFound
  <2>5. ASSUME NEW x \in Pages(v, n, c) PROVE x < p
    <3>1. PICK i \in 1..n : InRun(x, v, c[i])
      BY DEF Pages
    <3>2. c[i] \notin Behind(v, p)
      <4>1. c[i] # NULL
        BY <1>1 DEF Typed
      <4> QED  BY <4>1, <2>4, <1>1, <1>4 DEF Search, Typed
    <3>3. RunsTyped(v, n, c)
      BY <1>1, RunTypes
    <3>4. Start(v, c[i]) \in Nat /\ End(v, c[i]) \in Nat /\ Start(v, c[i]) = v.node[c[i]].pageno
      BY <3>3 DEF RunsTyped
    <3>5. ~ (Start(v, c[i]) > p)
      BY <3>2, <3>4, <1>1 DEF Behind
    <3>6. ~ InRun(p, v, c[i])
      <4>1. p <= p /\ p < p + s
        BY SMTT(20), SMTT(30)
      <4>2. p \notin Pages(v, n, c)
        BY <4>1 DEF Disjoint
      <4> QED  BY <4>2 DEF Pages
    <3>7. x \in Nat
      BY DEF Pages
    <3>8. ~ (Start(v, c[i]) <= p /\ p < End(v, c[i])) /\ x < End(v, c[i])
      BY <3>1, <3>6 DEF InRun
    <3> QED  BY <3>4, <3>5, <3>7, <3>8, BeforeEnd
  <2>6. Pages(v, n, c) # {}
    <3>1. 1 \in 1..n
      BY <1>1, <1>4, SMTT(20), SMTT(30) DEF Track
    <3>2. RunsTyped(v, n, c)
      BY <1>1, RunTypes
    <3>3. Start(v, c[1]) \in Nat /\ Start(v, c[1]) < End(v, c[1])
      BY <3>1, <3>2 DEF RunsTyped, Apart
    <3>4. InRun(Start(v, c[1]), v, c[1])
      BY <3>3, SMTT(20), SMTT(30) DEF InRun
    <3> QED  BY <3>1, <3>3, <3>4 DEF Pages
  <2>7. Stops(w, Pages(v, n, c), p)
    BY <2>1, <2>2, <2>5, <2>6 DEF Stops
  <2> QED  BY <2>2, <2>7 DEF Returned
<1>5. CASE v.buckets # NULL /\ b # NULL
  <2> DEFINE u == ll_insert_before(v, "buckets", item, b)
             e == Insert(n, c, 1, item)
  <2>1. NULL \notin Behind(v, p)
    BY DEF Typed, Behind
  <2>2. Search(b, n, c, Behind(v, p))
    BY <2>1, <1>0, <1>1, FirstBucketFound
  <2>3. PICK k \in 1..n : /\ b = c[k] /\ c[k] \in Behind(v, p)
                          /\ \A i \in 1..(k - 1) : c[i] \notin Behind(v, p)
    BY <2>2, <1>5 DEF Search
  <2>4. Start(v, c[k]) > p
    BY <2>3 DEF Behind, Start
  <2>5. ASSUME NEW i \in 1..n, i < k PROVE Start(v, c[i]) <= p
    <3>1. RunsTyped(v, n, c)
      BY <1>1, RunTypes
    <3>2. Start(v, c[i]) \in Nat /\ Start(v, c[i]) = v.node[c[i]].pageno
      BY <3>1 DEF RunsTyped
    <3>3. c[i] \notin Behind(v, p)
      BY <2>3, <2>5, SMTT(20), SMTT(30)
    <3> QED  BY <3>2, <3>3, <1>1, SMTT(20), SMTT(30) DEF Behind
  <2>6. u = ll_insert_before(v, "buckets", item, c[k])
    BY <2>3
  <2>7. w = vm_optimize(u, item)
    BY <1>0, <1>5
  <2> HIDE DEF u
  <2>8. Placed(v, u, n, c, k, item, p, s)
    BY <2>4, <2>5, <2>6, Place
  <2> DEFINE f == Insert(n, c, k, item)
  <2>9. /\ Typed(u) /\ SameBut(v, u, {"node", "buckets"}) /\ DOMAIN u.node = DOMAIN v.node
        /\ Loose(u, n + 1, f, k) /\ FreePages(u) = Pages(v, n, c) \cup Run(p, s)
        /\ f[k] = item
    BY <2>8 DEF Placed
  <2>10. PICK x, y : Lists(u, n + 1, f, x, y, {})
    BY <2>8 DEF Placed
  <2> HIDE DEF f
  <2>11. /\ Running(u)
         /\ k \in 1..(n + 1)
    <3>1. Running(u)
      BY <2>9, <1>2 DEF Running, SameBut
    <3>2. k \in 1..(n + 1)
      BY <1>1, <2>3, SMTT(20), SMTT(30)
    <3> QED  BY <3>1, <3>2
  <2>12. Optimized(u, vm_optimize(u, f[k]))
    BY <2>9, <2>10, <2>11, Optimize
  <2>13. Optimized(u, w)
    BY <2>7, <2>9, <2>12
  <2>14. w.status = "running" /\ SameBut(v, w, {"node", "buckets", "waiting"})
    BY <2>9, <2>13, <1>2 DEF Optimized, SameBut
  <2>15. Stops(w, Pages(v, n, c), p)
    BY <2>14, Zenon DEF Stops, Running, Statuses
  <2> QED  BY <2>9, <2>13, <2>14, <2>15 DEF Returned, Optimized
<1> QED  BY <1>3, <1>4, <1>5

\* vm_return_pages with a node from the waiting list.
LEMMA ReturnPopped ==
  ASSUME Counting, NEW v, Typed(v), WellKept(v), Running(v), v.waiting # NULL, NEW r,
         NEW pages \in Nat, pages > 0, NEW pageno \in Nat,
         Run(pageno, pages) \cap FreePages(v) = {}
  PROVE  Returned(v, vm_return_pages(v, r, pages, pageno), FreePages(v), pageno, pages)
<1> DEFINE w    == vm_return_pages(v, r, pages, pageno)
           item == v.waiting
           v1   == ll_pop_item(v, "waiting")
           v2   == [v1 EXCEPT !.node[item].pageno = pageno, !.node[item].size = pages]
           b    == FirstBucket(v2, Behind(v2, pageno))
           x    == IF v2.buckets = NULL THEN ll_push_item(v2, "buckets", item)
                   ELSE IF b = NULL THEN ll_append_notempty(v2, item, b)
                   ELSE vm_optimize(ll_insert_before(v2, "buckets", item, b), item)
<1>0. "status" \in DOMAIN v /\ v.status = "running"
  BY DEF Typed, Fields, Running
<1>1. w = IF ~ Running(v1) THEN v1 ELSE x
  BY SMTT(20), SMTT(30) DEF vm_return_pages, vm_item, item_address
<1>2. CASE v.node[item].prev # NULL
  <2>1. v1.status = "ASSERT(item->prev == NULL)"
    BY <1>0, <1>2 DEF ll_pop_item, PANIC
  <2>2. w = v1
    BY <2>1, <1>1 DEF Running
  <2>3. Stops(w, FreePages(v), pageno) /\ ~ Running(w)
    BY <2>1, <2>2, Zenon DEF Stops, Running, Statuses
  <2> HIDE DEF w
  <2>4. Returned(v, w, FreePages(v), pageno, pages)
    BY <2>3 DEF Returned
  <2> QED  BY <2>4 DEF w
<1>3. CASE v.node[item].prev = NULL
  <2>1. PICK n, c, m, d : Lists(v, n, c, m, d, {}) /\ Apart(v, n, c)
    BY DEF WellKept
  <2>2. /\ Typed(v1) /\ SameBut(v, v1, {"node", "waiting"}) /\ SameRuns(v, v1)
        /\ item \in DOMAIN v.node
        /\ v1.node[item].next = NULL /\ v1.node[item].prev = NULL
        /\ Lists(v1, n, c, m - 1, Drop(m, d, 1), {item})
    BY <2>1, <1>3, PopWaiting
  <2>3. Running(v1)
    BY <2>2, <1>0 DEF SameBut, Running
  <2>4. w = x
    BY <2>3, <1>1
  <2>5. v2 = [v1 EXCEPT !.node[item].pageno = pageno, !.node[item].size = pages]
    OBVIOUS
  <2>51. Puts(v2, x, item, pageno)
    BY DEF Puts
  <2> HIDE DEF w, v1, v2, b, x
  <2>6. Prepared(v1, v2, n, c, item, pageno, pages)
    <3>1. item \in DOMAIN v1.node
      BY <2>2 DEF SameRuns
    <3> QED  BY <3>1, <2>2, <2>3, <2>5, Prepare
  <2>7. /\ Typed(v2) /\ SameBut(v1, v2, {"node"}) /\ DOMAIN v2.node = DOMAIN v1.node
        /\ Running(v2) /\ v2.node[item].next = NULL /\ v2.node[item].prev = NULL
        /\ Start(v2, item) = pageno /\ End(v2, item) = pageno + pages
        /\ \A i \in 1..n : SameRunAt(v1, v2, c[i])
    BY <2>6 DEF Prepared
  <2>8. PICK mm, dd : Lists(v2, n, c, mm, dd, {item})
    BY <2>6 DEF Prepared
  <2>9. n \in Nat /\ Track(v.node, v.buckets, n, c) /\ \A i \in 1..n : c[i] \in DOMAIN v.node
    BY <2>1 DEF Lists, Rail, Track
  <2>10. \A i \in 1..n : SameRunAt(v, v1, c[i])
    BY <2>2, <2>9, SameRunsAt
  <2>11. \A i \in 1..n : SameRunAt(v, v2, c[i])
    BY <2>7, <2>10 DEF SameRunAt
  <2>12. Apart(v2, n, c) /\ Pages(v2, n, c) = Pages(v, n, c)
    BY <2>1, <2>11 DEF Apart, Pages, InRun, SameRunAt
  <2>13. FreePages(v) = Pages(v, n, c)
    BY <2>9, FreePagesAre
  <2>14. Disjoint(v2, n, c, pageno, pages)
    BY <2>12, <2>13, SMTT(20), SMTT(30) DEF Disjoint, Run
  <2>15. Returned(v2, x, Pages(v2, n, c), pageno, pages)
    BY <2>51, <2>7, <2>8, <2>12, <2>14, ReturnItem
  <2>16. SameBut(v, v2, {"node", "waiting"}) /\ DOMAIN v2.node = DOMAIN v.node
    BY <2>2, <2>7 DEF SameBut, SameRuns
  <2>17. Returned(v, x, FreePages(v), pageno, pages)
    BY <2>12, <2>13, <2>15, <2>16 DEF Returned, SameBut
  <2> QED  BY <2>4, <2>17 DEF w
<1> QED  BY <1>2, <1>3

\* The same with a node cut from the steal area of r.
ReturnedNew(r, w, Q, p, s) ==
  /\ Stops(w, Q, p)
  /\ Running(w) => /\ Typed(w) /\ WellKept(w)
                   /\ SameBut(r, w, {"node", "buckets", "waiting", "steal_next", "steal_remaining"})
                   /\ w.steal_next = r.steal_next + 1
                   /\ w.steal_remaining = r.steal_remaining - 1
                   /\ DOMAIN w.node = DOMAIN r.node \cup {r.steal_next}
                   /\ FreePages(w) = Q \cup Run(p, s)

\* vm_return_pages with a node cut from the steal area.  r is the state after
\* the page for it may have been reserved, so the walk reads the list as that
\* reservation left it.
LEMMA ReturnStolen ==
  ASSUME Counting, NEW v, v.waiting = NULL, NEW r, Typed(r), WellKept(r), Running(r),
         r.steal_next \in Nat \ {NULL}, r.steal_next \notin DOMAIN r.node,
         NEW pages \in Nat, pages > 0, NEW pageno \in Nat,
         Run(pageno, pages) \cap FreePages(r) = {}
  PROVE  ReturnedNew(r, vm_return_pages(v, r, pages, pageno), FreePages(r), pageno, pages)
<1> DEFINE w    == vm_return_pages(v, r, pages, pageno)
           item == r.steal_next
           v1   == vm_kernel_stealmem(r)
           v2   == [v1 EXCEPT !.node[item].pageno = pageno, !.node[item].size = pages]
           b    == FirstBucket(v2, Behind(v2, pageno))
           x    == IF v2.buckets = NULL THEN ll_push_item(v2, "buckets", item)
                   ELSE IF b = NULL THEN ll_append_notempty(v2, item, b)
                   ELSE vm_optimize(ll_insert_before(v2, "buckets", item, b), item)
<1>1. w = IF ~ Running(v1) THEN v1 ELSE x
  BY SMTT(20), SMTT(30) DEF vm_return_pages, vm_item, item_address
<1>2. PICK n, c, m, d : Lists(r, n, c, m, d, {}) /\ Apart(r, n, c)
  BY DEF WellKept
<1>3. /\ Typed(v1)
      /\ SameBut(r, v1, {"node", "steal_next", "steal_remaining"})
      /\ v1.steal_next = r.steal_next + 1 /\ v1.steal_remaining = r.steal_remaining - 1
      /\ DOMAIN v1.node = DOMAIN r.node \cup {item}
      /\ \A a \in DOMAIN r.node : v1.node[a] = r.node[a]
      /\ v1.node[item].next = NULL /\ v1.node[item].prev = NULL
      /\ Lists(v1, n, c, m, d, {item})
  BY <1>2, StealNode
<1>4. Running(v1)
  BY <1>3 DEF SameBut, Running, Typed, Fields
<1>5. w = x
  BY <1>1, <1>4
<1>6. v2 = [v1 EXCEPT !.node[item].pageno = pageno, !.node[item].size = pages]
  OBVIOUS
<1>7. Puts(v2, x, item, pageno)
  BY DEF Puts
<1> HIDE DEF w, v1, v2, b, x
<1>8. Prepared(v1, v2, n, c, item, pageno, pages)
  <2>1. item \in DOMAIN v1.node
    BY <1>3
  <2> HIDE DEF item
  <2> QED  BY <2>1, <1>3, <1>4, <1>6, Prepare
<1>9. /\ Typed(v2) /\ SameBut(v1, v2, {"node"}) /\ DOMAIN v2.node = DOMAIN v1.node
      /\ Running(v2) /\ v2.node[item].next = NULL /\ v2.node[item].prev = NULL
      /\ Start(v2, item) = pageno /\ End(v2, item) = pageno + pages
      /\ \A i \in 1..n : SameRunAt(v1, v2, c[i])
  BY <1>8 DEF Prepared
<1>10. PICK mm, dd : Lists(v2, n, c, mm, dd, {item})
  BY <1>8 DEF Prepared
<1>11. n \in Nat /\ Track(r.node, r.buckets, n, c) /\ \A i \in 1..n : c[i] \in DOMAIN r.node
  BY <1>2 DEF Lists, Rail, Track
<1>12. \A i \in 1..n : SameRunAt(r, v2, c[i])
  BY <1>3, <1>9, <1>11 DEF SameRunAt, Start, End
<1>13. Apart(v2, n, c) /\ Pages(v2, n, c) = Pages(r, n, c)
  BY <1>2, <1>12 DEF Apart, Pages, InRun, SameRunAt
<1>14. FreePages(r) = Pages(r, n, c)
  BY <1>11, FreePagesAre
<1>15. Disjoint(v2, n, c, pageno, pages)
  BY <1>13, <1>14, SMTT(20), SMTT(30) DEF Disjoint, Run
<1>16. Returned(v2, x, Pages(v2, n, c), pageno, pages)
  <2> HIDE DEF item
  <2> QED  BY <1>7, <1>9, <1>10, <1>13, <1>15, ReturnItem
<1>17. /\ SameBut(r, v2, {"node", "steal_next", "steal_remaining"})
       /\ v2.steal_next = r.steal_next + 1 /\ v2.steal_remaining = r.steal_remaining - 1
       /\ DOMAIN v2.node = DOMAIN r.node \cup {item}
       /\ {"steal_next", "steal_remaining"} \subseteq DOMAIN v2
  BY <1>3, <1>9 DEF SameBut, Typed, Fields
<1>18. ReturnedNew(r, x, FreePages(r), pageno, pages)
  <2>1. Stops(x, Pages(v2, n, c), pageno)
    BY <1>16 DEF Returned
  <2>2. ASSUME Running(x)
        PROVE  /\ Typed(x) /\ WellKept(x)
               /\ SameBut(v2, x, {"node", "buckets", "waiting"})
               /\ DOMAIN x.node = DOMAIN v2.node
               /\ FreePages(x) = Pages(v2, n, c) \cup Run(pageno, pages)
    BY <1>16, <2>2 DEF Returned
  <2>3. ASSUME SameBut(v2, x, {"node", "buckets", "waiting"})
        PROVE  /\ SameBut(r, x, {"node", "buckets", "waiting", "steal_next", "steal_remaining"})
               /\ x.steal_next = r.steal_next + 1 /\ x.steal_remaining = r.steal_remaining - 1
    BY <1>17, <2>3 DEF SameBut
  <2> QED  BY <1>13, <1>14, <1>17, <2>1, <2>2, <2>3 DEF ReturnedNew
<1> QED  BY <1>5, <1>18 DEF w

-----------------------------------------------------------------------------
\* Two values of the statics with the same lists.
SameLists(v, w) == w.node = v.node /\ w.buckets = v.buckets /\ w.waiting = v.waiting

\* w has the lists and the free pages of v.
Relabelled(v, w) == Typed(w) /\ WellKept(w) /\ FreePages(w) = FreePages(v)

\* Fields other than the lists have no part in what the lists stand for.
LEMMA Relabel ==
  ASSUME Counting, NEW v, Typed(v), WellKept(v), NEW w, w = [f \in DOMAIN w |-> w[f]],
         DOMAIN w = DOMAIN v, SameLists(v, w)
  PROVE  Relabelled(v, w)
<1>1. PICK n, c, m, d : Lists(v, n, c, m, d, {}) /\ Apart(v, n, c)
  BY DEF WellKept
<1>2. Typed(w)
  BY DEF Typed, SameLists
<1>3. Lists(w, n, c, m, d, {})
  BY <1>1 DEF Lists, SameLists
<1>4. Apart(w, n, c) /\ Pages(w, n, c) = Pages(v, n, c)
  BY <1>1 DEF Apart, Pages, InRun, Start, End, SameLists
<1>5. FreePages(v) = Pages(v, n, c)
  BY <1>1, FreePagesAre DEF Lists, Rail
<1>6. FreePages(w) = Pages(w, n, c)
  BY <1>2, <1>3, FreePagesAre DEF Lists, Rail
<1> QED  BY <1>2, <1>3, <1>4, <1>5, <1>6 DEF Relabelled, WellKept

\* Stopping the kernel touches no list.
LEMMA HaltRelabels ==
  ASSUME Counting, NEW v, Typed(v), WellKept(v), NEW x
  PROVE  Relabelled(v, [v EXCEPT !.status = x])
<1> DEFINE w == [v EXCEPT !.status = x]
<1>1. w = [f \in DOMAIN w |-> w[f]] /\ DOMAIN w = DOMAIN v /\ SameLists(v, w)
  BY DEF Typed, Fields, SameLists
<1> HIDE DEF w
<1>2. Relabelled(v, w)
  BY <1>1, Relabel
<1> QED  BY <1>2 DEF w

\* Pointing the steal area at a new page touches no list.
LEMMA RefillRelabels ==
  ASSUME Counting, NEW v, Typed(v), WellKept(v), NEW page
  PROVE  Relabelled(v, refilled(v, page))
<1> DEFINE w == refilled(v, page)
<1>1. w = [f \in DOMAIN w |-> w[f]] /\ DOMAIN w = DOMAIN v /\ SameLists(v, w)
  BY DEF Typed, Fields, SameLists, refilled
<1> HIDE DEF w
<1>2. Relabelled(v, w)
  BY <1>1, Relabel
<1> QED  BY <1>2 DEF w

\* After vm_kernel_stealmem has allocated a page, the steal area is that page.
LEMMA RefillFields ==
  ASSUME NEW v, Typed(v), NEW page
  PROVE  LET w == refilled(v, page)
         IN  /\ w.steal_next = page * ItemsPerPage /\ w.steal_remaining = ItemsPerPage
             /\ w.node = v.node /\ w.status = v.status
  BY DEF refilled, Typed, Fields

-----------------------------------------------------------------------------
\* The address a is that of a slot in page p.
SlotOf(a, p) == p * ItemsPerPage <= a /\ a < p * ItemsPerPage + ItemsPerPage

\* Node memory: below KERNEL_BOOT_MAPPED or in a page kept for nodes.
NodeMemory(a, kept) == a < BootMapped * ItemsPerPage \/ \E p \in kept : SlotOf(a, p)

\* The slots of two pages are apart.
LEMMA PagesApart ==
  ASSUME NEW p \in Nat, NEW q \in Nat, p < q
  PROVE  p * ItemsPerPage + ItemsPerPage <= q * ItemsPerPage
<1>1. ItemsPerPage \in Nat
  BY BucketsAssumption
<1>2. PICK k \in Nat : q = p + 1 + k
  <2>1. q - (p + 1) \in Nat /\ q = p + 1 + (q - (p + 1))
    BY SMTT(20), SMTT(30)
  <2> QED  BY <2>1
<1>3. q * ItemsPerPage = p * ItemsPerPage + ItemsPerPage + k * ItemsPerPage
  BY <1>1, <1>2, SMTT(20), SMTT(30)
<1>4. k * ItemsPerPage \in Nat /\ p * ItemsPerPage \in Nat /\ q * ItemsPerPage \in Nat
  BY <1>1, SMTT(20), SMTT(30)
<1> QED  BY <1>1, <1>3, <1>4, SMTT(20), SMTT(30)

\* The size vm_init computes in unsigned arithmetic, the end taken from the
\* start, is not zero.
LEMMA FirstBucketSize == first_bucket_size \in Nat /\ first_bucket_size > 0
<1>1. BootMapped \in Nat /\ ManagedEnd \in Nat /\ PageSpace \in Nat /\ 0 < BootMapped
      /\ BootMapped < ManagedEnd /\ ManagedEnd <= PageSpace
  BY BucketsAssumption, SMTT(20), SMTT(30)
<1>2. (BootMapped - ManagedEnd) % PageSpace = BootMapped - ManagedEnd + PageSpace
  BY <1>1, SMTT(20), SMTT(30)
<1> QED  BY <1>1, <1>2, SMTT(20), SMTT(30) DEF first_bucket_size

\* The steal area lies in node memory and has no node in it yet.
Stealing(v, kept) ==
  /\ v.steal_next \in Nat /\ v.steal_remaining \in Nat
  /\ 0 < v.steal_next
  /\ \A a \in DOMAIN v.node : a < v.steal_next \/ v.steal_next + v.steal_remaining <= a
  /\ \A a \in DOMAIN v.node : NodeMemory(a, kept)
  /\ \A a \in Nat : v.steal_next <= a /\ a < v.steal_next + v.steal_remaining => NodeMemory(a, kept)

\* Cutting a node from the steal area leaves the rest of the area unused.
LEMMA StealSteals ==
  ASSUME NEW r, NEW w, NEW K, Stealing(r, K), r.steal_remaining > 0,
         DOMAIN r.node \subseteq Nat,
         DOMAIN w.node = DOMAIN r.node \cup {r.steal_next},
         w.steal_next = r.steal_next + 1, w.steal_remaining = r.steal_remaining - 1
  PROVE  Stealing(w, K)
  BY SMTT(20), SMTT(30) DEF Stealing

\* The page taken for nodes was free, so none of its slots is a node: nodes lie
\* below KERNEL_BOOT_MAPPED or in pages taken earlier.
LEMMA RefillSteals ==
  ASSUME NEW v, NEW K, K \subseteq Nat, Stealing(v, K), DOMAIN v.node \subseteq Nat,
         NEW q \in Nat, q \notin K, BootMapped <= q,
         NEW r, DOMAIN r.node = DOMAIN v.node,
         r.steal_next = q * ItemsPerPage, r.steal_remaining = ItemsPerPage
  PROVE  Stealing(r, K \cup {q})
<1> DEFINE x == q * ItemsPerPage
           y == BootMapped * ItemsPerPage
<1>0. /\ BootMapped \in Nat /\ 0 < BootMapped /\ ItemsPerPage \in Nat /\ 0 < ItemsPerPage
  BY BucketsAssumption, SMTT(20), SMTT(30)
<1>1. x \in Nat /\ y \in Nat /\ y <= x
  <2>1. x \in Nat /\ y \in Nat
    BY <1>0, SMTT(20), SMTT(30)
  <2>2. CASE q = BootMapped
    BY <2>1, <2>2, SMTT(20), SMTT(30)
  <2>3. CASE BootMapped < q
    <3>1. y + ItemsPerPage <= x
      BY <1>0, <2>3, PagesApart
    <3> QED  BY <3>1, <2>1, <1>0, SMTT(20), SMTT(30)
  <2> QED  BY <2>1, <2>2, <2>3, <1>0, SMTT(20), SMTT(30)
<1>2. 0 < x
  <2>1. CASE q = 1
    BY <2>1, <1>0, SMTT(20), SMTT(30)
  <2>2. CASE 1 < q
    <3>1. 0 * ItemsPerPage + ItemsPerPage <= x
      BY <2>2, PagesApart, SMTT(20), SMTT(30)
    <3> QED  BY <3>1, <1>0, <1>1, SMTT(20), SMTT(30)
  <2> QED  BY <2>1, <2>2, <1>0, SMTT(20), SMTT(30)
<1>3. ASSUME NEW a \in DOMAIN v.node
      PROVE  (a < x \/ x + ItemsPerPage <= a) /\ NodeMemory(a, K \cup {q})
  <2>1. a \in Nat /\ NodeMemory(a, K)
    BY DEF Stealing
  <2>2. NodeMemory(a, K \cup {q})
    BY <2>1 DEF NodeMemory
  <2>3. CASE a < y
    BY <2>1, <2>2, <2>3, <1>1, SMTT(20), SMTT(30)
  <2>4. ASSUME NEW p \in K, SlotOf(a, p)
        PROVE  a < x \/ x + ItemsPerPage <= a
    <3>1. p \in Nat /\ p # q /\ p * ItemsPerPage \in Nat
      BY <1>0, SMTT(20), SMTT(30)
    <3>2. CASE p < q
      <4>1. p * ItemsPerPage + ItemsPerPage <= x
        BY <3>1, <3>2, PagesApart
      <4> QED  BY <4>1, <3>1, <2>1, <2>4, <1>0, <1>1, SMTT(20), SMTT(30) DEF SlotOf
    <3>3. CASE q < p
      <4>1. x + ItemsPerPage <= p * ItemsPerPage
        BY <3>1, <3>3, PagesApart
      <4> QED  BY <4>1, <3>1, <2>1, <2>4, <1>0, <1>1, SMTT(20), SMTT(30) DEF SlotOf
    <3> QED  BY <3>1, <3>2, <3>3, SMTT(20), SMTT(30)
  <2> QED  BY <2>1, <2>2, <2>3, <2>4 DEF NodeMemory
<1>4. \A a \in Nat : x <= a /\ a < x + ItemsPerPage => NodeMemory(a, K \cup {q})
  BY DEF NodeMemory, SlotOf
<1> HIDE DEF x
<1> QED  BY <1>0, <1>1, <1>2, <1>3, <1>4 DEF Stealing, x

\* vm_init leaves one bucket with all pages of the range, and a steal area
\* below KERNEL_BOOT_MAPPED.
LEMMA FreshKept ==
  ASSUME Counting, NEW v, v = [f \in DOMAIN v |-> v[f]], Fields \subseteq DOMAIN v, NEW K,
         v.status = FreshLists.status, v.buckets = FreshLists.buckets,
         v.waiting = FreshLists.waiting, v.node = FreshLists.node,
         v.steal_next = FreshLists.steal_next, v.steal_remaining = FreshLists.steal_remaining
  PROVE  /\ Typed(v) /\ WellKept(v) /\ v.status = "running"
         /\ DOMAIN v.node = {first_bucket}
         /\ FreePages(v) = Run(BootMapped, first_bucket_size)
         /\ Stealing(v, K)
<1> DEFINE c == [i \in 0..2 |-> IF i = 1 THEN first_bucket ELSE NULL]
           d == [i \in 0..1 |-> NULL]
<1>0. /\ BootMapped \in Nat /\ StealPages \in Nat /\ ItemsPerPage \in Nat /\ ItemsPerPage > 0
      /\ StealPages + 1 < BootMapped
      /\ first_bucket_size \in Nat /\ first_bucket_size > 0
  BY BucketsAssumption, FirstBucketSize, SMTT(20), SMTT(30)
<1>2. /\ DOMAIN v.node = {first_bucket}
      /\ v.buckets = first_bucket /\ v.waiting = NULL /\ v.status = "running"
      /\ v.steal_next = (BootMapped - StealPages) * ItemsPerPage
      /\ v.steal_remaining = StealPages * ItemsPerPage
  BY DEF FreshLists
<1>3. /\ v.node[first_bucket].pageno = BootMapped
      /\ v.node[first_bucket].size = first_bucket_size
      /\ v.node[first_bucket].next = NULL
      /\ v.node[first_bucket].prev = NULL
      /\ v.node \in [{first_bucket} -> NodeType({first_bucket})]
  <2> DEFINE n == [pageno |-> BootMapped, size |-> first_bucket_size, next |-> NULL, prev |-> NULL]
  <2>1. v.node = [a \in {first_bucket} |-> n]
    BY DEF FreshLists, ZeroNode
  <2>2. n \in NodeType({first_bucket})
    BY <1>0 DEF NodeType
  <2>3. n.pageno = BootMapped /\ n.size = first_bucket_size /\ n.next = NULL /\ n.prev = NULL
    OBVIOUS
  <2> HIDE DEF n
  <2>4. v.node[first_bucket] = n /\ v.node \in [{first_bucket} -> NodeType({first_bucket})]
    BY <2>1, <2>2
  <2> QED  BY <2>3, <2>4
<1>4. first_bucket = 1 /\ NULL = 0
  BY DEF first_bucket, NULL
<1>5. Typed(v)
  <2>1. IsFiniteSet({first_bucket})
    BY DEF Counting
  <2> QED  BY <2>1, <1>2, <1>3, <1>4, SMTT(20), SMTT(30) DEF Typed
<1>6. Lists(v, 1, c, 0, d, {})
  <2>1. Track(v.node, v.buckets, 1, c)
    BY <1>2, <1>3, <1>4, SMTT(20), SMTT(30) DEF Track
  <2>2. \A i \in 1..1 : v.node[c[i]].prev = c[i - 1]
    BY <1>2, <1>3, <1>4, SMTT(20), SMTT(30)
  <2>3. Track(v.node, v.waiting, 0, d)
    BY <1>2, <1>4, SMTT(20), SMTT(30) DEF Track
  <2>4. c[1] = first_bucket /\ 1 \in 1..1
    BY SMTT(20), SMTT(30)
  <2> HIDE DEF c, d
  <2> QED  BY <2>1, <2>2, <2>3, <2>4, <1>2, SMTT(20), SMTT(30) DEF Lists, Rail
<1>7. Apart(v, 1, c) /\ c[1] = first_bucket
  BY <1>0, <1>3, SMTT(20), SMTT(30) DEF Apart, Start, End
<1>8. FreePages(v) = Pages(v, 1, c)
  <2>1. Track(v.node, v.buckets, 1, c)
    BY <1>6 DEF Lists, Rail
  <2> HIDE DEF c, d
  <2> QED  BY <2>1, <1>5, FreePagesAre
<1>9. WellKept(v)
  <2> HIDE DEF c, d
  <2> QED  BY <1>6, <1>7 DEF WellKept
<1>10. Pages(v, 1, c) = Run(BootMapped, first_bucket_size)
  <2> HIDE DEF c, d
  <2> QED  BY <1>0, <1>3, <1>7, SMTT(20), SMTT(30) DEF Pages, InRun, Start, End, Run
<1>11. Stealing(v, K)
  <2> DEFINE x == BootMapped * ItemsPerPage
             y == StealPages * ItemsPerPage
             z == (BootMapped - StealPages) * ItemsPerPage
  <2>1. x \in Nat /\ y \in Nat /\ z + y = x
    BY <1>0, SMTT(20), SMTT(30)
  <2>2. z \in Nat /\ z > 1
    <3>1. PICK k \in Nat : BootMapped - StealPages = k + 2
      <4>1. BootMapped - StealPages - 2 \in Nat
        BY <1>0, SMTT(20), SMTT(30)
      <4> QED  BY <4>1, <1>0, SMTT(20), SMTT(30)
    <3>2. z = k * ItemsPerPage + 2 * ItemsPerPage /\ k * ItemsPerPage \in Nat
      BY <3>1, <1>0, SMTT(20), SMTT(30)
    <3> HIDE DEF z
    <3> QED  BY <3>2, <1>0, SMTT(20), SMTT(30)
  <2>3. v.steal_next = z /\ v.steal_remaining = y
    BY <1>2
  <2>4. \A a \in Nat : a < x => NodeMemory(a, K)
    BY DEF NodeMemory
  <2> HIDE DEF x, y, z
  <2> QED  BY <2>1, <2>2, <2>3, <2>4, <1>2, <1>4, SMTT(20), SMTT(30) DEF Stealing
<1> QED  BY <1>2, <1>5, <1>8, <1>9, <1>10, <1>11

=============================================================================
