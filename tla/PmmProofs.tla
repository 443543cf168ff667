----------------------------- MODULE PmmProofs -----------------------------
(***************************************************************************)
(* Proofs about the physical memory manager for every number of levels and *)
(* of frames.  The inductive invariant is Inv below.                       *)
(***************************************************************************)
EXTENDS PmmInit, TLAPS, WellFoundedInduction

\* The provers in the usual order, and once more with more time.
USE SMTT(5), ZenonT(10), SMTT(20), ZenonT(20), SMTT(30)

-----------------------------------------------------------------------------
(* Facts about numbers. *)

\* A nonempty set of natural numbers has a least element.
LEMMA LeastNat ==
  ASSUME NEW T, T \subseteq Nat, T # {}
  PROVE  \E x \in T : \A y \in T : x <= y
<1>1. PICK x \in T : \A y \in T : ~(<<y, x>> \in OpToRel(<, Nat))
  BY NatLessThanWellFounded, WFMin, Zenon
<1>2. ASSUME NEW y \in T PROVE x <= y
  <2>1. ~(<<y, x>> \in OpToRel(<, Nat))
    BY <1>1
  <2>2. ~(y < x)
    BY <2>1, Zenon DEF OpToRel
  <2> QED
    BY <2>2
<1> QED
  BY <1>2

\* What Least returns.
LEMMA LeastIsLeast ==
  ASSUME NEW T, T \subseteq Nat, T # {}
  PROVE  Least(T) \in T /\ \A y \in T : Least(T) <= y
BY LeastNat, Zenon DEF Least

\* A multiple of c leaves no remainder.
LEMMA MultipleOfDivisor ==
  ASSUME NEW q \in Nat, NEW c \in Nat, c >= 1
  PROVE  (q * c) % c = 0
<1>1. (q * c) \div c = q
  OBVIOUS
<1>2. q * c \in Nat
  OBVIOUS
<1>3. q * c = c * ((q * c) \div c) + ((q * c) % c)
  BY <1>2
<1> QED
  BY <1>1, <1>2, <1>3

\* A number that leaves no remainder is its quotient times the divisor.
LEMMA DivisorOfMultiple ==
  ASSUME NEW s \in Nat, NEW c \in Nat, c >= 1, s % c = 0
  PROVE  /\ s \div c \in Nat
         /\ (s \div c) * c = s
<1>1. s \div c \in Nat
  OBVIOUS
<1>2. s = c * (s \div c) + (s % c)
  OBVIOUS
<1>3. c * (s \div c) = (s \div c) * c
  BY <1>1
<1> QED
  BY <1>1, <1>2, <1>3

\* An even positive multiple of c is at least 2 * c.
LEMMA MultipleIsLarger ==
  ASSUME NEW q \in Nat, NEW c \in Nat, q >= 1
  PROVE  (2 * q) * c >= 2 * c
<1>1. PICK p \in Nat : q = p + 1
  <2>1. q - 1 \in Nat /\ q = (q - 1) + 1
    OBVIOUS
  <2> QED
    BY <2>1
<1>2. (2 * (p + 1)) * c = 2 * (p * c) + 2 * c
  OBVIOUS
<1>3. p * c \in Nat
  OBVIOUS
<1> QED
  BY <1>1, <1>2, <1>3
-----------------------------------------------------------------------------
(* Facts about the capacities of the levels. *)
USE DEF Levels, Top, Frames

\* A block has at least one frame.
LEMMA CapacityPositive == \A l \in Levels : Capacity[l] \in Nat /\ Capacity[l] >= 1
<1> DEFINE T == {l \in Levels : ~(Capacity[l] >= 1)}
<1>1. SUFFICES ASSUME T # {} PROVE FALSE
  BY BuddiesAssumption
<1>2. T \subseteq Nat
  OBVIOUS
<1> HIDE DEF T
<1>3. PICK x \in T : \A y \in T : x <= y
  BY <1>1, <1>2, LeastNat
<1> USE DEF T
<1>4. x \in Levels /\ ~(Capacity[x] >= 1) /\ x # 0
  BY BuddiesAssumption
<1>5. x - 1 \in Levels /\ x - 1 \notin T
  <2>1. x \in Nat /\ NumBuddies \in Nat
    BY <1>4, BuddiesAssumption
  <2>2. x - 1 \in Levels
    BY <2>1, <1>4
  <2>3. x - 1 \notin T
    BY <2>1, <1>3
  <2> QED
    BY <2>2, <2>3
<1>6. Capacity[x] = 2 * Capacity[x - 1] /\ Capacity[x - 1] >= 1 /\ Capacity[x - 1] \in Nat
  BY <1>4, <1>5, BuddiesAssumption
<1> QED
  BY <1>4, <1>6

\* The capacity of a higher level is an even multiple of a lower one's.
LEMMA CapacityDivides ==
  ASSUME NEW l \in Levels
  PROVE  \A m \in Levels : l < m => \E q \in Nat : q >= 1 /\ Capacity[m] = (2 * q) * Capacity[l]
<1> DEFINE Good(m) == \E q \in Nat : q >= 1 /\ Capacity[m] = (2 * q) * Capacity[l]
<1> DEFINE T == {m \in Levels : l < m /\ ~Good(m)}
<1>1. SUFFICES ASSUME T # {} PROVE FALSE
  OBVIOUS
<1>2. T \subseteq Nat
  OBVIOUS
<1> HIDE DEF T
<1>3. PICK x \in T : \A y \in T : x <= y
  BY <1>1, <1>2, LeastNat
<1>4. x \in Levels /\ l < x /\ ~Good(x)
  BY DEF T
<1>5. x - 1 \in Levels /\ Capacity[x] = 2 * Capacity[x - 1] /\ Capacity[l] \in Nat
  BY <1>4, BuddiesAssumption
<1>6. CASE x - 1 = l
  <2>1. Capacity[x] = (2 * 1) * Capacity[l]
    BY <1>5, <1>6
  <2> QED
    BY <2>1, <1>4
<1>7. CASE l < x - 1
  <2>1. Good(x - 1)
    <3>1. x - 1 \notin T
      BY <1>3, <1>4
    <3> QED
      BY <3>1, <1>5, <1>7 DEF T
  <2>2. PICK q \in Nat : q >= 1 /\ Capacity[x - 1] = (2 * q) * Capacity[l]
    BY <2>1
  <2>3. Capacity[x] = (2 * (2 * q)) * Capacity[l]
    BY <2>2, <1>5
  <2>4. 2 * q \in Nat /\ 2 * q >= 1
    BY <2>2
  <2> QED
    BY <2>3, <2>4, <1>4
<1> QED
  BY <1>4, <1>6, <1>7

\* Capacities at least double from any level to any higher one.
LEMMA CapacityDoubles ==
  \A l, m \in Levels : l < m => 2 * Capacity[l] <= Capacity[m]
<1> SUFFICES ASSUME NEW l \in Levels, NEW m \in Levels, l < m
             PROVE  2 * Capacity[l] <= Capacity[m]
  OBVIOUS
<1>1. PICK q \in Nat : q >= 1 /\ Capacity[m] = (2 * q) * Capacity[l]
  BY CapacityDivides
<1>2. Capacity[l] \in Nat
  BY CapacityPositive
<1>3. (2 * q) * Capacity[l] >= 2 * Capacity[l]
  BY <1>1, <1>2, MultipleIsLarger
<1> QED
  BY <1>1, <1>3

\* log2 finds the level of a power of two.
LEMMA Log2OfCapacity == \A l \in Levels : log2(Capacity[l]) = l
<1> SUFFICES ASSUME NEW l \in Levels PROVE log2(Capacity[l]) = l
  OBVIOUS
<1>1. Capacity[l] <= Capacity[l] /\ Capacity[l] < 2 * Capacity[l]
  BY CapacityPositive
<1>2. ASSUME NEW k \in Levels, Capacity[k] <= Capacity[l], Capacity[l] < 2 * Capacity[k]
      PROVE  k = l
  <2>1. Capacity[k] \in Nat /\ Capacity[l] \in Nat /\ k \in Int /\ l \in Int
    BY CapacityPositive
  <2>2. ~(k < l)
    BY <1>2, <2>1, CapacityDoubles
  <2>3. ~(l < k)
    BY <1>2, <2>1, CapacityDoubles
  <2> QED
    BY <2>1, <2>2, <2>3
<1> QED
  BY <1>1, <1>2 DEF log2

\* A position aligned for a level is aligned for every lower level, and so is
\* the right half of the lower block that starts there.
LEMMA AlignedBelow ==
  ASSUME NEW l \in Levels, NEW m \in Levels, l < m,
         NEW s \in Nat, s % Capacity[m] = 0
  PROVE  s % Capacity[l] = 0 /\ (s + Capacity[l]) % Capacity[l] = 0
<1>1. PICK q \in Nat : q >= 1 /\ Capacity[m] = (2 * q) * Capacity[l]
  BY CapacityDivides
<1> DEFINE c == Capacity[l]
           a == s \div Capacity[m]
<1>2. c \in Nat /\ c >= 1 /\ Capacity[m] \in Nat /\ Capacity[m] >= 1
  BY CapacityPositive
<1>3. a \in Nat /\ a * Capacity[m] = s
  BY <1>2, DivisorOfMultiple
<1> HIDE DEF a, c
<1>4. s = (a * (2 * q)) * c
  BY <1>1, <1>2, <1>3 DEF c
<1>5. s + c = (a * (2 * q) + 1) * c
  BY <1>2, <1>3, <1>4
<1>6. a * (2 * q) \in Nat /\ a * (2 * q) + 1 \in Nat
  BY <1>3
<1>7. s % c = 0
  BY <1>2, <1>4, <1>6, MultipleOfDivisor
<1>8. (s + c) % c = 0
  BY <1>2, <1>5, <1>6, MultipleOfDivisor
<1> QED
  BY <1>7, <1>8 DEF c
-----------------------------------------------------------------------------
(* What pmm_alloc_buddy and pmm_free do to the bitsets. *)

\* pmm_alloc_buddy takes a free block of the lowest sufficient level that has
\* one: the levels between the request's and the block's are empty.
LEMMA AllocChooses ==
  ASSUME NEW b \in BlockSets, NEW k \in Levels, can_alloc(b, Capacity[k])
  PROVE  /\ alloc_level(b, Capacity[k]) \in Levels
         /\ k <= alloc_level(b, Capacity[k])
         /\ alloc_start(b, Capacity[k]) \in b[alloc_level(b, Capacity[k])]
         /\ \A l \in Levels : k <= l /\ l < alloc_level(b, Capacity[k]) => b[l] = {}
<1> DEFINE W == LevelsWithBlock(b, Capacity[k])
           i == alloc_level(b, Capacity[k])
<1>1. log2(Capacity[k]) = k
  BY Log2OfCapacity
<1>2. W = {l \in Levels : l >= k /\ b[l] # {}}
  BY <1>1 DEF LevelsWithBlock
<1>3. W \subseteq Nat /\ W # {}
  BY <1>2 DEF can_alloc
<1>4. i \in W /\ \A l \in W : i <= l
  BY <1>3, LeastIsLeast DEF alloc_level
<1>5. i \in Levels /\ k <= i /\ b[i] # {}
  BY <1>2, <1>4
<1>6. b[i] \subseteq Nat
  BY <1>5 DEF BlockSets
<1>7. alloc_start(b, Capacity[k]) \in b[i]
  BY <1>5, <1>6, LeastIsLeast DEF alloc_start, bitset_find
<1>8. ASSUME NEW l \in Levels, k <= l, l < i PROVE b[l] = {}
  <2>1. l \notin W
    BY <1>4, <1>5, <1>8
  <2> QED
    BY <2>1, <1>2, <1>8
<1> QED
  BY <1>5, <1>7, <1>8

\* The bitsets after an allocation: the levels below the block's, down to the
\* request's, hold exactly the right half that was split off there.
AfterAlloc(b, k, i, s, l) ==
  IF k <= l /\ l < i THEN {s + Capacity[l]}
  ELSE IF l = i THEN b[i] \ {s} ELSE b[l]

\* What pmm_alloc_buddy leaves in the bitsets, level by level.
LEMMA AllocResult ==
  ASSUME NEW b \in BlockSets, NEW k \in Levels, can_alloc(b, Capacity[k]),
         NEW l \in Levels
  PROVE  after_alloc(b, Capacity[k])[l] =
           AfterAlloc(b, k, alloc_level(b, Capacity[k]), alloc_start(b, Capacity[k]), l)
<1> DEFINE i == alloc_level(b, Capacity[k])
           s == alloc_start(b, Capacity[k])
<1>1. /\ i \in Levels /\ k <= i /\ s \in b[i]
      /\ \A m \in Levels : k <= m /\ m < i => b[m] = {}
  BY AllocChooses
<1>2. log2(Capacity[k]) = k
  BY Log2OfCapacity
<1>3. s \in Nat
  BY <1>1 DEF BlockSets
<1> DEFINE c == [b EXCEPT ![i] = b[i] \ {s}]
<1>4. after_alloc(b, Capacity[k]) = mark_used(c, i, Capacity[k], s)
  BY DEF after_alloc
<1>5. c[l] = IF l = i THEN b[i] \ {s} ELSE b[l]
  BY <1>1 DEF BlockSets
<1> HIDE DEF c, i, s
<1>6. mark_used(c, i, Capacity[k], s)[l] = AfterAlloc(b, k, i, s, l)
  <2>1. mark_used(c, i, Capacity[k], s)[l] =
          (c[l] \cup (IF l < i /\ l >= k THEN {s + Capacity[l]} ELSE {}))
            \ (IF l = k THEN {s} ELSE {})
    BY <1>2 DEF mark_used
  <2>2. Capacity[l] \in Nat /\ Capacity[l] >= 1 /\ s + Capacity[l] # s
    BY <1>3, CapacityPositive
  <2>3. l \in Int /\ k \in Int /\ i \in Int
    BY <1>1
  <2>4. CASE k <= l /\ l < i
    <3>1. c[l] = {}
      BY <1>1, <1>5, <2>3, <2>4
    <3> QED
      BY <2>1, <2>2, <2>4, <3>1 DEF AfterAlloc
  <2>5. CASE l = i
    BY <2>1, <2>3, <2>5, <1>5 DEF AfterAlloc
  <2>6. CASE ~(k <= l /\ l < i) /\ l # i
    <3>1. l # k
      BY <2>3, <2>6, <1>1
    <3> QED
      BY <2>1, <2>3, <2>6, <3>1, <1>5 DEF AfterAlloc
  <2> QED
    BY <2>4, <2>5, <2>6
<1> QED
  BY <1>4, <1>6 DEF i, s

\* Freeing a block at a multiple of its size sets its own bit.
LEMMA FreeResult ==
  ASSUME NEW b \in BlockSets, NEW k \in Levels, NEW f \in Nat, f % Capacity[k] = 0
  PROVE  after_free(b, Capacity[k], f) = [b EXCEPT ![k] = @ \cup {f}]
<1>1. log2(Capacity[k]) = k
  BY Log2OfCapacity
<1>2. (f \div Capacity[k]) * Capacity[k] = f
  BY CapacityPositive, DivisorOfMultiple
<1> QED
  BY <1>1, <1>2 DEF after_free
-----------------------------------------------------------------------------
(* The inductive invariant. *)

Inv == TypeOK /\ BlocksAligned /\ NoDoubleAllocation /\ NoFrameLost

\* What a successful pmm_alloc of Capacity[k] frames does, with the block
\* (i, s) it splits named.
AllocStep(k, i, s) ==
  /\ k <= i
  /\ s \in buddies[i]
  /\ \A l \in Levels : k <= l /\ l < i => buddies[l] = {}
  /\ buddies' = [l \in Levels |-> buddies'[l]]
  /\ \A l \in Levels : buddies'[l] = AfterAlloc(buddies, k, i, s, l)
  /\ held' = [held EXCEPT ![k] = @ \cup {s}]
  /\ err' \in {"E_OK", "E_NOMEM"}

FreeStep(k, f) ==
  /\ f \in held[k]
  /\ buddies' = [buddies EXCEPT ![k] = @ \cup {f}]
  /\ held' = [held EXCEPT ![k] = @ \ {f}]
  /\ err' = err

\* Every step is an allocation, a refusal or a free of this form.
LEMMA StepForms ==
  ASSUME TypeOK, BlocksAligned, Next
  PROVE  \/ \E k, i \in Levels, s \in Frames : AllocStep(k, i, s)
         \/ err' = "E_NOMEM" /\ UNCHANGED <<buddies, held>>
         \/ \E k \in Levels, f \in Frames : FreeStep(k, f)
<1>1. PICK n \in Requests : pmm_alloc(n) \/ \E frame \in Frames : pmm_free(n, frame)
  BY DEF Next
<1>2. PICK k \in Levels : n = Capacity[k]
  BY RequestsAssumption
<1>3. log2(n) = k
  BY <1>2, Log2OfCapacity
<1>4. CASE pmm_alloc(n) /\ can_alloc(buddies, n)
  <2> DEFINE i == alloc_level(buddies, n)
             s == alloc_start(buddies, n)
  <2>1. /\ i \in Levels /\ k <= i /\ s \in buddies[i]
        /\ \A l \in Levels : k <= l /\ l < i => buddies[l] = {}
    BY <1>2, <1>4, AllocChooses DEF TypeOK
  <2>2. s \in Frames
    BY <2>1 DEF TypeOK, BlockSets
  <2>3. /\ buddies' = after_alloc(buddies, n)
        /\ held' = [held EXCEPT ![k] = @ \cup {s}]
        /\ err' = "E_OK"
    BY <1>3, <1>4 DEF pmm_alloc
  <2>4. buddies' = [l \in Levels |-> buddies'[l]]
    BY <2>3 DEF after_alloc, mark_used
  <2>5. \A l \in Levels : buddies'[l] = AfterAlloc(buddies, k, i, s, l)
    BY <1>2, <1>4, <2>3, AllocResult DEF TypeOK
  <2>6. AllocStep(k, i, s)
    BY <2>1, <2>3, <2>4, <2>5 DEF AllocStep
  <2> QED
    BY <2>1, <2>2, <2>6
<1>5. CASE pmm_alloc(n) /\ ~ can_alloc(buddies, n)
  BY <1>5 DEF pmm_alloc
<1>6. CASE \E frame \in Frames : pmm_free(n, frame)
  <2>1. PICK f \in Frames : pmm_free(n, f)
    BY <1>6
  <2>2. f \in held[k]
    BY <2>1, <1>3 DEF pmm_free
  <2>3. f \in Nat /\ f % Capacity[k] = 0
    BY <2>2 DEF BlocksAligned, Aligned
  <2>4. after_free(buddies, n, f) = [buddies EXCEPT ![k] = @ \cup {f}]
    BY <2>2, <2>3, <1>2, FreeResult DEF TypeOK
  <2>5. FreeStep(k, f)
    BY <2>1, <2>2, <2>4, <1>3 DEF pmm_free, FreeStep
  <2> QED
    BY <2>5
<1> QED
  BY <1>1, <1>4, <1>5, <1>6

\* A block inside another is apart from whatever the other is apart from.
Inside(l, u, i, s) == s <= u /\ u + Capacity[l] <= s + Capacity[i]

\* What lies inside a block is apart from what the block is apart from.
LEMMA InsideApart ==
  ASSUME NEW l \in Levels, NEW i \in Levels, NEW m \in Levels,
         NEW u \in Nat, NEW s \in Nat, NEW t \in Nat,
         Inside(l, u, i, s), Apart(i, s, m, t)
  PROVE  Apart(l, u, m, t) /\ Apart(m, t, l, u)
<1>1. Capacity[l] \in Nat /\ Capacity[i] \in Nat /\ Capacity[m] \in Nat
  BY CapacityPositive
<1> QED
  BY <1>1 DEF Inside, Apart

\* The pieces of a split: the right halves and the part handed out lie inside
\* the block and apart from one another.
LEMMA PiecesInside ==
  ASSUME NEW k \in Levels, NEW i \in Levels, k <= i, NEW s \in Nat
  PROVE  /\ Inside(k, s, i, s)
         /\ \A l \in Levels : k <= l /\ l < i =>
              /\ Inside(l, s + Capacity[l], i, s)
              /\ Apart(k, s, l, s + Capacity[l])
              /\ \A m \in Levels : k <= m /\ m < i /\ l # m =>
                   Apart(l, s + Capacity[l], m, s + Capacity[m])
<1>1. \A l \in Levels : Capacity[l] \in Nat /\ Capacity[l] >= 1
  BY CapacityPositive
<1>2. Inside(k, s, i, s)
  BY <1>1, CapacityDoubles DEF Inside
<1>3. ASSUME NEW l \in Levels, k <= l, l < i
      PROVE  Inside(l, s + Capacity[l], i, s) /\ Apart(k, s, l, s + Capacity[l])
  <2>1. 2 * Capacity[l] <= Capacity[i] /\ Capacity[k] <= Capacity[l]
    BY <1>1, <1>3, CapacityDoubles
  <2> QED
    BY <1>1, <2>1 DEF Inside, Apart
<1>4. ASSUME NEW l \in Levels, NEW m \in Levels, l # m
      PROVE  Apart(l, s + Capacity[l], m, s + Capacity[m])
  <2>1. 2 * Capacity[l] <= Capacity[m] \/ 2 * Capacity[m] <= Capacity[l]
    BY <1>4, CapacityDoubles
  <2> QED
    BY <1>1, <2>1 DEF Apart
<1> QED
  BY <1>2, <1>3, <1>4
-----------------------------------------------------------------------------
(* The steps preserve the invariant. *)

\* Where the blocks of the two tables come from after a split of (i, s).
LEMMA AllocOrigin ==
  ASSUME TypeOK, NEW k \in Levels, NEW i \in Levels, NEW s \in Frames,
         AllocStep(k, i, s)
  PROVE  /\ \A m \in Levels : \A t \in buddies'[m] :
              \/ k <= m /\ m < i /\ t = s + Capacity[m]
              \/ t \in buddies[m] /\ ~(m = i /\ t = s)
         /\ \A m \in Levels : \A t \in held'[m] :
              t \in held[m] \/ (m = k /\ t = s)
         /\ \A m \in Levels : \A t \in buddies[m] :
              t \in buddies'[m] \/ (m = i /\ t = s)
         /\ \A m \in Levels : held[m] \subseteq held'[m]
         /\ s \in held'[k]
         /\ \A m \in Levels : k <= m /\ m < i => s + Capacity[m] \in buddies'[m]
BY DEF AllocStep, AfterAlloc, TypeOK, BlockSets

\* Where the blocks of the two tables come from after pmm_free.
LEMMA FreeOrigin ==
  ASSUME TypeOK, NEW k \in Levels, NEW f \in Frames, FreeStep(k, f)
  PROVE  /\ \A m \in Levels : \A t \in buddies'[m] :
              t \in buddies[m] \/ (m = k /\ t = f)
         /\ \A m \in Levels : \A t \in held'[m] :
              t \in held[m] /\ ~(m = k /\ t = f)
         /\ \A m \in Levels : \A t \in held[m] :
              t \in held'[m] \/ (m = k /\ t = f)
         /\ \A m \in Levels : buddies[m] \subseteq buddies'[m]
         /\ f \in buddies'[k]
BY DEF FreeStep, TypeOK, BlockSets

\* Alignment and the types.
LEMMA AllocAligned ==
  ASSUME TypeOK, BlocksAligned, NEW k \in Levels, NEW i \in Levels, NEW s \in Frames,
         AllocStep(k, i, s)
  PROVE  TypeOK' /\ BlocksAligned'
<1>1. s \in Nat /\ s % Capacity[i] = 0 /\ s + Capacity[i] <= NFrames /\ k <= i
  BY DEF AllocStep, BlocksAligned, Aligned
<1>2. ASSUME NEW l \in Levels, k <= l, l < i
      PROVE  /\ s + Capacity[l] \in Frames
             /\ (s + Capacity[l]) % Capacity[l] = 0
             /\ (s + Capacity[l]) + Capacity[l] <= NFrames
  <2>1. Inside(l, s + Capacity[l], i, s)
    BY <1>1, <1>2, PiecesInside
  <2>2. Capacity[l] \in Nat /\ Capacity[l] >= 1 /\ Capacity[i] \in Nat /\ NFrames \in Nat
    BY CapacityPositive, BuddiesAssumption
  <2>3. (s + Capacity[l]) % Capacity[l] = 0
    BY <1>1, <1>2, AlignedBelow
  <2>4. (s + Capacity[l]) + Capacity[l] <= NFrames
    BY <1>1, <2>1, <2>2 DEF Inside
  <2>5. s + Capacity[l] \in Frames
    BY <1>1, <2>2, <2>4
  <2> QED
    BY <2>3, <2>4, <2>5
<1>3. s % Capacity[k] = 0 /\ s + Capacity[k] <= NFrames
  <2>1. Inside(k, s, i, s)
    BY <1>1, PiecesInside
  <2>2. Capacity[k] \in Nat /\ Capacity[i] \in Nat /\ NFrames \in Nat
    BY CapacityPositive, BuddiesAssumption
  <2>3. s + Capacity[k] <= NFrames
    BY <1>1, <2>1, <2>2 DEF Inside
  <2>4. CASE k = i
    BY <1>1, <2>3, <2>4
  <2>5. CASE k < i
    BY <1>1, <2>3, <2>5, AlignedBelow
  <2> QED
    BY <1>1, <2>4, <2>5
<1>4. TypeOK'
  <2>1. \A m \in Levels : buddies'[m] \subseteq Frames
    BY <1>2, AllocOrigin DEF TypeOK, BlockSets
  <2>2. buddies' = [l \in Levels |-> buddies'[l]]
    BY DEF AllocStep
  <2>3. buddies' \in BlockSets
    BY <2>1, <2>2 DEF BlockSets
  <2>4. held' \in BlockSets /\ err' \in {"E_OK", "E_NOMEM"}
    BY DEF AllocStep, TypeOK, BlockSets
  <2> QED
    BY <2>3, <2>4 DEF TypeOK
<1>5. ASSUME NEW m \in Levels, NEW t \in buddies'[m]
      PROVE  t % Capacity[m] = 0 /\ t + Capacity[m] <= NFrames
  <2>1. (k <= m /\ m < i /\ t = s + Capacity[m]) \/ t \in buddies[m]
    BY AllocOrigin
  <2> QED
    BY <1>2, <2>1 DEF BlocksAligned, Aligned
<1>6. ASSUME NEW m \in Levels, NEW t \in held'[m]
      PROVE  t % Capacity[m] = 0 /\ t + Capacity[m] <= NFrames
  <2>1. t \in held[m] \/ (m = k /\ t = s)
    BY AllocOrigin
  <2> QED
    BY <1>3, <2>1 DEF BlocksAligned, Aligned
<1> QED
  BY <1>4, <1>5, <1>6 DEF BlocksAligned, Aligned

\* pmm_free keeps the types and the alignment.
LEMMA FreeAligned ==
  ASSUME TypeOK, BlocksAligned, NEW k \in Levels, NEW f \in Frames, FreeStep(k, f)
  PROVE  TypeOK' /\ BlocksAligned'
<1>1. TypeOK'
  BY DEF FreeStep, TypeOK, BlockSets
<1>2. f % Capacity[k] = 0 /\ f + Capacity[k] <= NFrames
  BY DEF FreeStep, BlocksAligned, Aligned
<1>3. \A m \in Levels : \A t \in buddies'[m] : t % Capacity[m] = 0 /\ t + Capacity[m] <= NFrames
  BY <1>2, FreeOrigin DEF BlocksAligned, Aligned
<1>4. \A m \in Levels : \A t \in held'[m] : t % Capacity[m] = 0 /\ t + Capacity[m] <= NFrames
  BY FreeOrigin DEF BlocksAligned, Aligned
<1> QED
  BY <1>1, <1>3, <1>4 DEF BlocksAligned, Aligned

\* Overlap is symmetric.
LEMMA ApartSymmetric ==
  ASSUME NEW l, NEW s, NEW m, NEW t, Apart(l, s, m, t)
  PROVE  Apart(m, t, l, s)
BY DEF Apart

\* A split hands out one piece and offers the others, all inside the block it
\* consumes: every other block stays apart from them.
LEMMA AllocDisjoint ==
  ASSUME TypeOK, TypeOK', NoDoubleAllocation,
         NEW k \in Levels, NEW i \in Levels, NEW s \in Frames, AllocStep(k, i, s)
  PROVE  NoDoubleAllocation'
<1>1. s \in Nat /\ k <= i /\ s \in buddies[i]
  BY DEF AllocStep
<1>2. \A m \in Levels : buddies[m] \subseteq Nat /\ held[m] \subseteq Nat
  BY DEF TypeOK, BlockSets
<1>3. \A l \in Levels : s + Capacity[l] \in Nat
  BY <1>1, CapacityPositive
\* the blocks that exist before the step, other than (i, s)
<1>4. ASSUME NEW m \in Levels, NEW t \in held[m] PROVE Apart(i, s, m, t)
  BY <1>1, <1>4, ApartSymmetric DEF NoDoubleAllocation
<1>5. ASSUME NEW m \in Levels, NEW t \in buddies[m], ~(m = i /\ t = s)
      PROVE  Apart(i, s, m, t)
  <2>1. t \in Frames
    BY DEF TypeOK, BlockSets
  <2> QED
    BY <1>1, <1>5, <2>1 DEF NoDoubleAllocation
\* held against offered
<1>6. ASSUME NEW l \in Levels, NEW m \in Levels, NEW u \in held'[l], NEW t \in buddies'[m]
      PROVE  Apart(l, u, m, t)
  <2>1. u \in held[l] \/ (l = k /\ u = s)
    BY AllocOrigin
  <2>2. \/ k <= m /\ m < i /\ t = s + Capacity[m]
        \/ t \in buddies[m] /\ ~(m = i /\ t = s)
    BY AllocOrigin
  <2>3. CASE u \in held[l] /\ t \in buddies[m]
    BY <2>3 DEF NoDoubleAllocation
  <2>4. CASE u \in held[l] /\ k <= m /\ m < i /\ t = s + Capacity[m]
    <3>1. Inside(m, t, i, s) /\ t \in Nat /\ u \in Nat
      BY <1>1, <1>2, <1>3, <2>4, PiecesInside
    <3> QED
      BY <1>1, <1>4, <2>4, <3>1, InsideApart
  <2>5. CASE l = k /\ u = s /\ t \in buddies[m] /\ ~(m = i /\ t = s)
    <3>1. Inside(k, s, i, s) /\ t \in Nat
      BY <1>1, <1>2, <2>5, PiecesInside
    <3> QED
      BY <1>1, <1>5, <2>5, <3>1, InsideApart
  <2>6. CASE l = k /\ u = s /\ k <= m /\ m < i /\ t = s + Capacity[m]
    BY <1>1, <2>6, PiecesInside
  <2> QED
    BY <2>1, <2>2, <2>3, <2>4, <2>5, <2>6
\* held against held
<1>7. ASSUME NEW l \in Levels, NEW m \in Levels, NEW u \in held'[l], NEW t \in held'[m],
             ~(l = m /\ u = t)
      PROVE  Apart(l, u, m, t)
  <2>1. (u \in held[l] \/ (l = k /\ u = s)) /\ (t \in held[m] \/ (m = k /\ t = s))
    BY AllocOrigin
  <2>2. CASE u \in held[l] /\ t \in held[m]
    <3>1. u \in Frames /\ t \in Frames
      BY <2>2 DEF TypeOK, BlockSets
    <3> QED
      BY <1>7, <2>2, <3>1 DEF NoDoubleAllocation
  <2>3. CASE u \in held[l] /\ m = k /\ t = s
    <3>1. Inside(m, t, i, s) /\ t \in Nat /\ u \in Nat
      BY <1>1, <1>2, <2>3, PiecesInside
    <3> QED
      BY <1>1, <1>4, <2>3, <3>1, InsideApart
  <2>4. CASE l = k /\ u = s /\ t \in held[m]
    <3>1. Inside(l, u, i, s) /\ t \in Nat /\ u \in Nat
      BY <1>1, <1>2, <2>4, PiecesInside
    <3> QED
      BY <1>1, <1>4, <2>4, <3>1, InsideApart
  <2> QED
    BY <1>7, <2>1, <2>2, <2>3, <2>4
\* offered against offered
<1>8. ASSUME NEW l \in Levels, NEW m \in Levels, NEW u \in buddies'[l], NEW t \in buddies'[m],
             ~(l = m /\ u = t)
      PROVE  Apart(l, u, m, t)
  <2>1. \/ k <= l /\ l < i /\ u = s + Capacity[l]
        \/ u \in buddies[l] /\ ~(l = i /\ u = s)
    BY AllocOrigin
  <2>2. \/ k <= m /\ m < i /\ t = s + Capacity[m]
        \/ t \in buddies[m] /\ ~(m = i /\ t = s)
    BY AllocOrigin
  <2>3. CASE u \in buddies[l] /\ t \in buddies[m]
    <3>1. u \in Frames /\ t \in Frames
      BY <2>3 DEF TypeOK, BlockSets
    <3> QED
      BY <1>8, <2>3, <3>1 DEF NoDoubleAllocation
  <2>4. CASE u \in buddies[l] /\ ~(l = i /\ u = s) /\ k <= m /\ m < i /\ t = s + Capacity[m]
    <3>1. Inside(m, t, i, s) /\ t \in Nat /\ u \in Nat
      BY <1>1, <1>2, <1>3, <2>4, PiecesInside
    <3> QED
      BY <1>1, <1>5, <2>4, <3>1, InsideApart
  <2>5. CASE k <= l /\ l < i /\ u = s + Capacity[l] /\ t \in buddies[m] /\ ~(m = i /\ t = s)
    <3>1. Inside(l, u, i, s) /\ t \in Nat /\ u \in Nat
      BY <1>1, <1>2, <1>3, <2>5, PiecesInside
    <3> QED
      BY <1>1, <1>5, <2>5, <3>1, InsideApart
  <2>6. CASE /\ k <= l /\ l < i /\ u = s + Capacity[l]
             /\ k <= m /\ m < i /\ t = s + Capacity[m]
    <3>1. l # m
      BY <1>8, <2>6
    <3> QED
      BY <1>1, <2>6, <3>1, PiecesInside
  <2> QED
    BY <2>1, <2>2, <2>3, <2>4, <2>5, <2>6
<1> QED
  BY <1>6, <1>7, <1>8 DEF NoDoubleAllocation

\* A freed block changes sides.
LEMMA FreeDisjoint ==
  ASSUME TypeOK, NoDoubleAllocation, NEW k \in Levels, NEW f \in Frames, FreeStep(k, f)
  PROVE  NoDoubleAllocation'
<1>1. f \in held[k]
  BY DEF FreeStep
<1>2. \A m \in Levels : buddies[m] \subseteq Frames /\ held[m] \subseteq Frames
  BY DEF TypeOK, BlockSets
<1>3. ASSUME NEW l \in Levels, NEW m \in Levels, NEW u \in held'[l], NEW t \in buddies'[m]
      PROVE  Apart(l, u, m, t)
  <2>1. u \in held[l] /\ ~(l = k /\ u = f) /\ (t \in buddies[m] \/ (m = k /\ t = f))
    BY FreeOrigin
  <2> QED
    BY <1>1, <1>2, <2>1 DEF NoDoubleAllocation
<1>4. ASSUME NEW l \in Levels, NEW m \in Levels, NEW u \in held'[l], NEW t \in held'[m],
             ~(l = m /\ u = t)
      PROVE  Apart(l, u, m, t)
  <2>1. u \in held[l] /\ t \in held[m]
    BY FreeOrigin
  <2> QED
    BY <1>2, <1>4, <2>1 DEF NoDoubleAllocation
<1>5. ASSUME NEW l \in Levels, NEW m \in Levels, NEW u \in buddies'[l], NEW t \in buddies'[m],
             ~(l = m /\ u = t)
      PROVE  Apart(l, u, m, t)
  <2>1. (u \in buddies[l] \/ (l = k /\ u = f)) /\ (t \in buddies[m] \/ (m = k /\ t = f))
    BY FreeOrigin
  <2>2. CASE u \in buddies[l] /\ t \in buddies[m]
    BY <1>2, <1>5, <2>2 DEF NoDoubleAllocation
  <2>3. CASE u \in buddies[l] /\ m = k /\ t = f
    BY <1>1, <2>3, ApartSymmetric DEF NoDoubleAllocation
  <2>4. CASE l = k /\ u = f /\ t \in buddies[m]
    BY <1>1, <2>4 DEF NoDoubleAllocation
  <2> QED
    BY <1>5, <2>1, <2>2, <2>3, <2>4
<1> QED
  BY <1>3, <1>4, <1>5 DEF NoDoubleAllocation

\* The pieces of a split cover the block: a frame behind the piece handed out
\* is in the right half of the lowest level whose left half it lies behind.
LEMMA PiecesCover ==
  ASSUME NEW k \in Levels, NEW i \in Levels, k <= i, NEW s \in Nat,
         NEW f \in FramesOf(i, s), f \notin FramesOf(k, s)
  PROVE  \E l \in Levels : k <= l /\ l < i /\ f \in FramesOf(l, s + Capacity[l])
<1>1. \A l \in Levels : Capacity[l] \in Nat /\ Capacity[l] >= 1
  BY CapacityPositive
<1>2. f \in Nat /\ s <= f /\ f < s + Capacity[i] /\ s + Capacity[k] <= f
  BY <1>1 DEF FramesOf
<1> DEFINE T == {l \in Levels : k <= l /\ f < s + Capacity[l]}
<1>3. T \subseteq Nat /\ i \in T
  BY <1>2
<1> HIDE DEF T
<1>4. PICK x \in T : \A y \in T : x <= y
  BY <1>3, LeastNat
<1>5. x \in Levels /\ k <= x /\ f < s + Capacity[x] /\ x <= i
  BY <1>3, <1>4 DEF T
<1>6. x # k
  BY <1>1, <1>2, <1>5
<1>7. x - 1 \in Levels /\ k <= x - 1 /\ x - 1 < i
  <2>1. NumBuddies \in Nat /\ x \in Nat /\ k \in Nat /\ i \in Nat
    BY <1>5, BuddiesAssumption
  <2> QED
    BY <1>5, <1>6, <2>1
<1>8. Capacity[x] = 2 * Capacity[x - 1]
  BY <1>5, <1>7, BuddiesAssumption
<1>9. x - 1 \notin T
  BY <1>4, <1>5
<1>10. s + Capacity[x - 1] <= f
  <2>1. ~(f < s + Capacity[x - 1])
    BY <1>7, <1>9 DEF T
  <2>2. Capacity[x - 1] \in Nat /\ f \in Nat
    BY <1>1, <1>2, <1>7
  <2> QED
    BY <2>1, <2>2
<1>11. f \in FramesOf(x - 1, s + Capacity[x - 1])
  BY <1>1, <1>2, <1>5, <1>7, <1>8, <1>10 DEF FramesOf
<1> QED
  BY <1>7, <1>11

\* pmm_alloc_buddy loses no frame.
LEMMA AllocCovers ==
  ASSUME TypeOK, NoFrameLost, NEW k \in Levels, NEW i \in Levels, NEW s \in Frames,
         AllocStep(k, i, s)
  PROVE  NoFrameLost'
<1>1. s \in Nat /\ k <= i
  BY DEF AllocStep
<1> SUFFICES ASSUME NEW f \in Frames
             PROVE  CoveredBy(buddies', f) \/ CoveredBy(held', f)
  BY DEF NoFrameLost, CoveredBy
<1>3. CASE CoveredBy(held, f)
  <2>1. \A m \in Levels : held[m] \subseteq held'[m]
    BY AllocOrigin
  <2> QED
    BY <1>3, <2>1 DEF CoveredBy
<1>4. CASE f \in FramesOf(i, s)
  <2>1. CASE f \in FramesOf(k, s)
    <3>1. s \in held'[k]
      BY AllocOrigin
    <3> QED
      BY <2>1, <3>1 DEF CoveredBy
  <2>2. CASE f \notin FramesOf(k, s)
    <3>1. PICK l \in Levels : k <= l /\ l < i /\ f \in FramesOf(l, s + Capacity[l])
      BY <1>1, <1>4, <2>2, PiecesCover
    <3>2. s + Capacity[l] \in buddies'[l]
      BY <3>1, AllocOrigin
    <3> QED
      BY <3>1, <3>2 DEF CoveredBy
  <2> QED
    BY <2>1, <2>2
<1>5. CASE CoveredBy(buddies, f) /\ f \notin FramesOf(i, s)
  <2>1. PICK m \in Levels : \E t \in buddies[m] : f \in FramesOf(m, t)
    BY <1>5 DEF CoveredBy
  <2> PICK t \in buddies[m] : f \in FramesOf(m, t)
    BY <2>1
  <2>2. ~(m = i /\ t = s)
    BY <1>5
  <2>3. t \in buddies'[m]
    BY <2>1, <2>2, AllocOrigin
  <2> QED
    BY <2>1, <2>3 DEF CoveredBy
<1> QED
  BY <1>3, <1>4, <1>5 DEF NoFrameLost

\* pmm_free loses no frame.
LEMMA FreeCovers ==
  ASSUME TypeOK, NoFrameLost, NEW k \in Levels, NEW f \in Frames, FreeStep(k, f)
  PROVE  NoFrameLost'
<1> SUFFICES ASSUME NEW g \in Frames
             PROVE  CoveredBy(buddies', g) \/ CoveredBy(held', g)
  BY DEF NoFrameLost, CoveredBy
<1>1. CASE CoveredBy(buddies, g)
  <2>1. \A m \in Levels : buddies[m] \subseteq buddies'[m]
    BY FreeOrigin
  <2> QED
    BY <1>1, <2>1 DEF CoveredBy
<1>2. CASE CoveredBy(held, g)
  <2>1. PICK m \in Levels : \E t \in held[m] : g \in FramesOf(m, t)
    BY <1>2 DEF CoveredBy
  <2> PICK t \in held[m] : g \in FramesOf(m, t)
    BY <2>1
  <2>2. t \in held'[m] \/ (m = k /\ t = f /\ f \in buddies'[k])
    BY FreeOrigin
  <2> QED
    BY <2>1, <2>2 DEF CoveredBy
<1> QED
  BY <1>1, <1>2 DEF NoFrameLost
-----------------------------------------------------------------------------
(* The bitsets that pmm_init leaves. *)

\* Two different multiples of c are at least c apart.
LEMMA MultiplesApart ==
  ASSUME NEW c \in Nat, c >= 1, NEW s \in Nat, NEW t \in Nat,
         s % c = 0, t % c = 0, s < t
  PROVE  s + c <= t
<1> DEFINE a == s \div c
           b == t \div c
<1>1. a \in Nat /\ b \in Nat /\ a * c = s /\ b * c = t
  BY DivisorOfMultiple
<1> HIDE DEF a, b
<1>2. a < b
  <2>1. SUFFICES ASSUME b <= a PROVE FALSE
    BY <1>1
  <2>2. PICK d \in Nat : a = b + d
    <3>1. a - b \in Nat /\ a = b + (a - b)
      BY <1>1, <2>1
    <3> QED
      BY <3>1
  <2>3. (b + d) * c = b * c + d * c /\ d * c \in Nat
    BY <1>1
  <2> QED
    BY <1>1, <2>2, <2>3
<1>3. PICK d \in Nat : b = a + 1 + d
  <2>1. b - a - 1 \in Nat /\ b = a + 1 + (b - a - 1)
    BY <1>1, <1>2
  <2> QED
    BY <2>1
<1>4. (a + 1 + d) * c = a * c + c + d * c /\ d * c \in Nat
  BY <1>1
<1> QED
  BY <1>1, <1>3, <1>4

\* Every number lies in some aligned stretch of length c.
LEMMA FloorOfMultiple ==
  ASSUME NEW c \in Nat, c >= 1, NEW f \in Nat
  PROVE  \E s \in Nat : s % c = 0 /\ s <= f /\ f < s + c
<1> DEFINE q == f \div c
<1>1. q \in Nat /\ f = c * q + (f % c) /\ f % c \in 0..(c - 1)
  OBVIOUS
<1> HIDE DEF q
<1>2. q * c \in Nat /\ q * c = c * q
  BY <1>1
<1>3. (q * c) % c = 0
  BY <1>1, MultipleOfDivisor
<1>4. q * c <= f /\ f < q * c + c
  BY <1>1, <1>2
<1> QED
  BY <1>2, <1>3, <1>4

\* The bitsets as pmm_init leaves them satisfy the invariant.
LEMMA InitInv == Init => Inv
<1> SUFFICES ASSUME Init PROVE Inv
  OBVIOUS
<1> DEFINE c == Capacity[Top]
<1>1. Top \in Levels /\ NFrames \in Nat /\ NFrames % c = 0
  BY BuddiesAssumption
<1>2. c \in Nat /\ c >= 1
  BY <1>1, CapacityPositive
<1>3. /\ buddies = FreshBuddies
      /\ \A l \in Levels : held[l] = {}
      /\ held \in BlockSets
      /\ err = "E_OK"
  BY DEF Init, BlockSets
<1>4. /\ buddies \in BlockSets
      /\ \A l \in Levels : \A s \in buddies[l] : l = Top /\ s \in Nat /\ s < NFrames /\ s % c = 0
      /\ \A s \in Frames : s % c = 0 => s \in buddies[Top]
  BY <1>1, <1>3 DEF FreshBuddies, BlockSets
<1> HIDE DEF c
<1>5. TypeOK
  BY <1>3, <1>4 DEF TypeOK
<1>6. BlocksAligned
  <2>1. ASSUME NEW l \in Levels, NEW s \in buddies[l]
        PROVE  s % Capacity[l] = 0 /\ s + Capacity[l] <= NFrames
    <3>1. l = Top /\ s \in Nat /\ s < NFrames /\ s % c = 0
      BY <1>4
    <3>2. s + c <= NFrames
      BY <1>1, <1>2, <3>1, MultiplesApart
    <3> QED
      BY <3>1, <3>2 DEF c
  <2> QED
    BY <1>3, <2>1 DEF BlocksAligned, Aligned
<1>7. NoDoubleAllocation
  <2>1. ASSUME NEW l \in Levels, NEW m \in Levels, NEW s \in buddies[l], NEW t \in buddies[m],
               ~(l = m /\ s = t)
        PROVE  Apart(l, s, m, t)
    <3>1. /\ l = Top /\ s \in Nat /\ s % c = 0
          /\ m = Top /\ t \in Nat /\ t % c = 0
      BY <1>4
    <3>2. s < t \/ t < s
      BY <2>1, <3>1
    <3>3. s + c <= t \/ t + c <= s
      BY <1>2, <3>1, <3>2, MultiplesApart
    <3> QED
      BY <3>1, <3>3 DEF Apart, c
  <2> QED
    BY <1>3, <2>1 DEF NoDoubleAllocation
<1>8. NoFrameLost
  <2>1. ASSUME NEW f \in Frames PROVE CoveredBy(buddies, f)
    <3>1. f \in Nat /\ f < NFrames
      BY <1>1
    <3>2. PICK s \in Nat : s % c = 0 /\ s <= f /\ f < s + c
      BY <1>2, <3>1, FloorOfMultiple
    <3>3. s \in Frames
      BY <1>1, <3>1, <3>2
    <3>4. s \in buddies[Top]
      BY <1>4, <3>2, <3>3
    <3>5. f \in FramesOf(Top, s)
      BY <1>2, <3>1, <3>2 DEF FramesOf, c
    <3> QED
      BY <1>1, <3>4, <3>5 DEF CoveredBy
  <2> QED
    BY <2>1 DEF NoFrameLost
<1> QED
  BY <1>5, <1>6, <1>7, <1>8 DEF Inv

-----------------------------------------------------------------------------
\* Every call of pmm_alloc and pmm_free keeps the invariant.
LEMMA NextInv == Inv /\ [Next]_vars => Inv'
<1> SUFFICES ASSUME Inv, [Next]_vars PROVE Inv'
  OBVIOUS
<1>1. TypeOK /\ BlocksAligned /\ NoDoubleAllocation /\ NoFrameLost
  BY DEF Inv
<1>2. ASSUME NEW k \in Levels, NEW i \in Levels, NEW s \in Frames, AllocStep(k, i, s)
      PROVE  Inv'
  <2>1. TypeOK' /\ BlocksAligned'
    BY <1>1, <1>2, AllocAligned
  <2>2. NoDoubleAllocation'
    BY <1>1, <1>2, <2>1, AllocDisjoint
  <2>3. NoFrameLost'
    BY <1>1, <1>2, AllocCovers
  <2> QED
    BY <2>1, <2>2, <2>3 DEF Inv
<1>3. ASSUME NEW k \in Levels, NEW f \in Frames, FreeStep(k, f) PROVE Inv'
  <2>1. TypeOK' /\ BlocksAligned'
    BY <1>1, <1>3, FreeAligned
  <2>2. NoDoubleAllocation' /\ NoFrameLost'
    BY <1>1, <1>3, FreeDisjoint, FreeCovers
  <2> QED
    BY <2>1, <2>2 DEF Inv
<1>4. CASE err' \in {"E_NOMEM", err} /\ UNCHANGED <<buddies, held>>
  <2>1. TypeOK'
    BY <1>1, <1>4 DEF TypeOK
  <2>2. BlocksAligned' /\ NoDoubleAllocation' /\ NoFrameLost'
    BY <1>1, <1>4
      DEF BlocksAligned, Aligned, NoDoubleAllocation, Apart, NoFrameLost, CoveredBy, FramesOf
  <2> QED
    BY <2>1, <2>2 DEF Inv
<1>5. CASE Next
  BY <1>1, <1>2, <1>3, <1>4, <1>5, StepForms
<1>6. CASE UNCHANGED vars
  BY <1>4, <1>6 DEF vars
<1> QED
  BY <1>5, <1>6

(***************************************************************************)
(* The strengthened invariant holds in every reachable state of the        *)
(* physical memory manager, for every number of levels and of frames.      *)
(***************************************************************************)
THEOREM PmmInvariant == Spec => []Inv
<1>1. Init => Inv
  BY InitInv
<1>2. Inv /\ [Next]_vars => Inv'
  BY NextInv
<1> QED
  BY <1>1, <1>2, PTL DEF Spec

\* The bitsets and the callers' blocks stay sets of managed frames.
THEOREM TypeCorrect == Spec => []TypeOK
<1>1. Inv => TypeOK
  BY DEF Inv
<1> QED
  BY <1>1, PmmInvariant, PTL

\* pmm_free always finds a block at a multiple of its size.
THEOREM AlwaysAligned == Spec => []BlocksAligned
<1>1. Inv => BlocksAligned
  BY DEF Inv
<1> QED
  BY <1>1, PmmInvariant, PTL

\* pmm_alloc never hands out a frame that another caller holds.
THEOREM NeverDoubleAllocated == Spec => []NoDoubleAllocation
<1>1. Inv => NoDoubleAllocation
  BY DEF Inv
<1> QED
  BY <1>1, PmmInvariant, PTL

\* mark_used and pmm_free lose no frame.
THEOREM NeverLost == Spec => []NoFrameLost
<1>1. Inv => NoFrameLost
  BY DEF Inv
<1> QED
  BY <1>1, PmmInvariant, PTL

\* pmm_alloc(1) returns E_NOMEM only when all managed frames are handed out.
THEOREM RefusedOnlyWhenFull == Spec => []SingleFrameRefusedOnlyWhenFull
<1>1. Inv => SingleFrameRefusedOnlyWhenFull
  <2> SUFFICES ASSUME Inv, ~ can_alloc(buddies, 1), NEW f \in Frames
               PROVE  CoveredBy(held, f)
    BY DEF SingleFrameRefusedOnlyWhenFull
  <2>1. 0 \in Levels /\ Capacity[0] = 1
    BY BuddiesAssumption
  <2>2. log2(1) = 0
    BY <2>1, Log2OfCapacity
  <2>3. \A l \in Levels : buddies[l] = {}
    BY <2>2 DEF can_alloc, LevelsWithBlock
  <2>4. CoveredBy(buddies, f) \/ CoveredBy(held, f)
    BY DEF Inv, NoFrameLost
  <2> QED
    BY <2>3, <2>4 DEF CoveredBy
<1> QED
  BY <1>1, PmmInvariant, PTL

-----------------------------------------------------------------------------
(***************************************************************************)
(* Proofs about the layout that pmm_init computes, for every page size,    *)
(* number of levels, end of the kernel image and end of memory.            *)
(***************************************************************************)

\* Division with remainder.
LEMMA DivMod ==
  ASSUME NEW a \in Nat, NEW c \in Nat \ {0}
  PROVE  /\ a \div c \in Nat
         /\ (a \div c) * c <= a
         /\ a < (a \div c) * c + c
<1>1. a = c * (a \div c) + (a % c) /\ a % c \in 0..(c - 1) /\ a \div c \in Nat
  OBVIOUS
<1>2. c * (a \div c) = (a \div c) * c /\ (a \div c) * c \in Nat
  BY <1>1
<1> QED
  BY <1>1, <1>2

\* Multiplication keeps the order.
LEMMA TimesMonotone ==
  ASSUME NEW a \in Nat, NEW b \in Nat, NEW c \in Nat, a <= b
  PROVE  a * c <= b * c
<1>1. PICK d \in Nat : b = a + d
  <2>1. b - a \in Nat /\ b = a + (b - a)
    OBVIOUS
  <2> QED
    BY <2>1
<1>2. (a + d) * c = a * c + d * c /\ d * c \in Nat /\ a * c \in Nat
  OBVIOUS
<1> QED
  BY <1>1, <1>2

\* A factor can be cancelled.
LEMMA Cancel ==
  ASSUME NEW a \in Nat, NEW b \in Nat, NEW c \in Nat \ {0}, a * c < b * c
  PROVE  a < b
<1>1. a * c \in Nat /\ b * c \in Nat
  OBVIOUS
<1>2. SUFFICES ASSUME b <= a PROVE FALSE
  OBVIOUS
<1>3. b * c <= a * c
  BY <1>2, TimesMonotone
<1> QED
  BY <1>1, <1>3

\* What is multiplied by c and stays below b is at most the quotient.
LEMMA QuotientAtLeast ==
  ASSUME NEW x \in Nat, NEW b \in Nat, NEW c \in Nat \ {0}, x * c <= b
  PROVE  x <= b \div c
<1>1. b \div c \in Nat /\ b < (b \div c) * c + c
  BY DivMod
<1>2. ((b \div c) + 1) * c = (b \div c) * c + c
  BY <1>1
<1>3. x * c \in Nat /\ ((b \div c) + 1) * c \in Nat
  BY <1>1
<1>4. x * c < ((b \div c) + 1) * c
  BY <1>1, <1>2, <1>3
<1>5. x < (b \div c) + 1
  BY <1>1, <1>4, Cancel
<1> QED
  BY <1>1, <1>5

\* The quotient of a product is the other factor.
LEMMA QuotientOfProduct ==
  ASSUME NEW x \in Nat, NEW c \in Nat \ {0}
  PROVE  (x * c) \div c = x
<1>1. x * c \in Nat
  OBVIOUS
<1>2. (x * c) \div c \in Nat /\ ((x * c) \div c) * c <= x * c
  BY <1>1, DivMod
<1>3. x <= (x * c) \div c
  BY <1>1, QuotientAtLeast
<1>4. ~(x < (x * c) \div c)
  <2>1. SUFFICES ASSUME x + 1 <= (x * c) \div c PROVE FALSE
    BY <1>2
  <2>2. (x + 1) * c <= ((x * c) \div c) * c
    BY <1>2, <2>1, TimesMonotone
  <2>3. (x + 1) * c = x * c + c
    OBVIOUS
  <2>4. ((x * c) \div c) * c \in Nat
    BY <1>2
  <2> QED
    BY <1>1, <1>2, <2>2, <2>3, <2>4
<1> QED
  BY <1>2, <1>3, <1>4
-----------------------------------------------------------------------------
(* The layout. *)

\* A dword has at least one bit.
LEMMA DwordBitsPositive == DwordBits \in Nat \ {0}
<1>1. FramesPerByte \in Nat \ {0} /\ DwordBytes \in Nat \ {0}
  BY PmmInitAssumption
<1>2. FramesPerByte * DwordBytes \in Nat \ {0}
  BY <1>1
<1> QED
  BY <1>1, <1>2 DEF DwordBits

\* A dword of any level stands for at least one frame.
LEMMA UnitPositive == \A l \in Levels : DwordBits * Capacity[l] \in Nat \ {0}
<1> SUFFICES ASSUME NEW l \in Levels PROVE DwordBits * Capacity[l] \in Nat \ {0}
  OBVIOUS
<1>1. Capacity[l] \in Nat \ {0}
  BY CapacityPositive
<1> QED
  BY <1>1, DwordBitsPositive

\* Subtraction of unsigned numbers stays below the limit, and is exact when
\* it does not wrap around.
LEMMA MinusIsUnsigned ==
  ASSUME NEW a \in 0..(AddressLimit - 1), NEW b \in Nat
  PROVE  /\ minus(a, b) \in 0..(AddressLimit - 1)
         /\ b <= a => minus(a, b) = a - b
<1>1. AddressLimit \in Nat \ {0}
  BY PmmInitAssumption
<1>2. a - b \in Int /\ minus(a, b) \in 0..(AddressLimit - 1)
  BY <1>1 DEF minus
<1>3. ASSUME NEW d \in 0..(AddressLimit - 1) PROVE d % AddressLimit = d
  BY <1>1
<1> QED
  BY <1>1, <1>2, <1>3 DEF minus

\* PAGE_ALIGN rounds up, by less than a page.
LEMMA PageAlignRoundsUp ==
  ASSUME NEW a \in Nat
  PROVE  PAGE_ALIGN(a) \in Nat /\ a <= PAGE_ALIGN(a) /\ PAGE_ALIGN(a) < a + PAGE_SIZE
<1>1. PAGE_SIZE \in Nat \ {0} /\ a + PAGE_SIZE - 1 \in Nat
  BY PmmInitAssumption
<1> DEFINE q == (a + PAGE_SIZE - 1) \div PAGE_SIZE
<1>2. /\ q \in Nat
      /\ q * PAGE_SIZE <= a + PAGE_SIZE - 1
      /\ a + PAGE_SIZE - 1 < q * PAGE_SIZE + PAGE_SIZE
  BY <1>1, DivMod
<1>3. PAGE_ALIGN(a) = q * PAGE_SIZE
  BY DEF PAGE_ALIGN
<1> HIDE DEF q
<1>4. q * PAGE_SIZE \in Nat
  BY <1>1, <1>2
<1> QED
  BY <1>1, <1>2, <1>3, <1>4

\* The bitsets and the managed region begin behind the kernel image.
LEMMA ManagedBehindImage ==
  ASSUME NEW u \in UpperBounds
  PROVE  LET avail    == minus(u, KERNEL_END_PHYS)
             required == pmm_estimate_bytes_required(avail)
         IN  /\ avail \in 0..(AddressLimit - 1)
             /\ required \in Nat
             /\ managed_first(u) \in Nat
             /\ KERNEL_END_PHYS + required <= managed_first(u)
             /\ managed_first(u) < KERNEL_END_PHYS + required + PAGE_SIZE
<1> DEFINE avail    == minus(u, KERNEL_END_PHYS)
           required == pmm_estimate_bytes_required(avail)
<1>1. /\ KERNEL_END_PHYS \in Nat /\ u \in 0..(AddressLimit - 1)
      /\ PAGE_SIZE \in Nat \ {0} /\ FramesPerByte \in Nat \ {0} /\ AddressLimit \in Nat
  BY PmmInitAssumption
<1>2. avail \in 0..(AddressLimit - 1) /\ avail \in Nat
  <2>1. avail \in 0..(AddressLimit - 1)
    BY <1>1, MinusIsUnsigned, Zenon
  <2> QED
    BY <1>1, <2>1
<1>3. avail \div PAGE_SIZE \in Nat
  BY <1>1, <1>2, DivMod
<1>4. required \in Nat
  BY <1>1, <1>3, DivMod DEF pmm_estimate_bytes_required
<1>5. managed_first(u) = PAGE_ALIGN(KERNEL_END_PHYS + required)
  BY DEF managed_first
<1> HIDE DEF avail, required
<1>6. KERNEL_END_PHYS + required \in Nat
  BY <1>1, <1>4
<1>7. /\ managed_first(u) \in Nat
      /\ KERNEL_END_PHYS + required <= managed_first(u)
      /\ managed_first(u) < KERNEL_END_PHYS + required + PAGE_SIZE
  BY <1>5, <1>6, PageAlignRoundsUp
<1> QED
  BY <1>2, <1>4, <1>7 DEF avail, required

\* n_frames is a number of whole units, and no more than the memory that
\* pmm_init takes for managed, also where that has wrapped around.
LEMMA WholeUnits ==
  ASSUME NEW u \in UpperBounds
  PROVE  LET managed == minus(u, managed_first(u))
         IN  /\ managed \in Nat /\ managed < AddressLimit
             /\ n_frames(u) \in Nat
             /\ n_frames(u) * PAGE_SIZE <= managed
             /\ \E k \in Nat : n_frames(u) = k * (DwordBits * Capacity[Top])
<1> DEFINE managed == minus(u, managed_first(u))
           frames  == managed \div PAGE_SIZE
           unit    == DwordBits * Capacity[Top]
           k       == frames \div unit
<1>1. /\ u \in 0..(AddressLimit - 1) /\ u \in Nat /\ PAGE_SIZE \in Nat \ {0}
      /\ AddressLimit \in Nat
  BY PmmInitAssumption
<1>2. managed_first(u) \in Nat
  BY ManagedBehindImage
<1>3. managed \in 0..(AddressLimit - 1)
  BY <1>1, <1>2, MinusIsUnsigned, Zenon
<1>4. unit \in Nat \ {0}
  BY UnitPositive, BuddiesAssumption DEF Top, Levels
<1>5. n_frames(u) = k * unit
  BY DEF n_frames
<1> HIDE DEF managed, unit
<1>6. managed \in Nat /\ managed < AddressLimit
  BY <1>1, <1>3
<1>7. frames \in Nat /\ frames * PAGE_SIZE <= managed
  BY <1>1, <1>6, DivMod
<1> HIDE DEF frames
<1>8. k \in Nat /\ k * unit <= frames
  BY <1>4, <1>7, DivMod
<1> HIDE DEF k
<1>9. n_frames(u) \in Nat
  BY <1>4, <1>5, <1>8
<1>10. n_frames(u) * PAGE_SIZE <= frames * PAGE_SIZE
  BY <1>1, <1>5, <1>7, <1>8, <1>9, TimesMonotone
<1>11. n_frames(u) * PAGE_SIZE \in Nat /\ frames * PAGE_SIZE \in Nat
  BY <1>1, <1>7, <1>9
<1>12. n_frames(u) * PAGE_SIZE <= managed
  BY <1>6, <1>7, <1>10, <1>11
<1> QED
  BY <1>5, <1>6, <1>8, <1>9, <1>12 DEF unit, managed

\* With enough memory, the frames fit into the managed region.
LEMMA FramesFit ==
  ASSUME NEW u \in UpperBounds, EnoughMemory(u)
  PROVE  n_frames(u) \in Nat /\ managed_first(u) + n_frames(u) * PAGE_SIZE <= u
<1> DEFINE managed == minus(u, managed_first(u))
<1>1. u \in 0..(AddressLimit - 1) /\ u \in Nat /\ PAGE_SIZE \in Nat
  BY PmmInitAssumption
<1>2. managed_first(u) \in Nat /\ managed_first(u) <= u
  BY ManagedBehindImage DEF EnoughMemory
<1>3. managed = u - managed_first(u)
  BY <1>1, <1>2, MinusIsUnsigned, Zenon
<1>4. n_frames(u) \in Nat /\ n_frames(u) * PAGE_SIZE <= managed
  BY WholeUnits
<1> HIDE DEF managed
<1>5. n_frames(u) * PAGE_SIZE \in Nat
  BY <1>1, <1>4
<1> QED
  BY <1>1, <1>2, <1>3, <1>4, <1>5

\* The bitset of each level has exactly one bit for each block of the level.
LEMMA OneBitForEachBlock ==
  ASSUME NEW u \in UpperBounds, NEW l \in Levels
  PROVE  /\ buddy_len(u, l) \in Nat
         /\ n_frames(u) = buddy_len(u, l) * (DwordBits * Capacity[l])
<1> DEFINE c == DwordBits * Capacity[l]
<1>1. PICK k \in Nat : n_frames(u) = k * (DwordBits * Capacity[Top])
  BY WholeUnits
<1>2. Top \in Levels /\ Top \in Nat
  BY BuddiesAssumption DEF Top, Levels
<1>3. PICK q \in Nat : Capacity[Top] = q * Capacity[l]
  <2>1. CASE l = Top
    <3>1. Capacity[Top] = 1 * Capacity[l] /\ 1 \in Nat
      BY <1>2, <2>1, CapacityPositive
    <3> QED
      BY <3>1
  <2>2. CASE l < Top
    <3>1. PICK p \in Nat : p >= 1 /\ Capacity[Top] = (2 * p) * Capacity[l]
      BY <1>2, <2>2, CapacityDivides
    <3>2. 2 * p \in Nat
      OBVIOUS
    <3> QED
      BY <3>1, <3>2
  <2> QED
    BY <2>1, <2>2, BuddiesAssumption DEF Levels, Top
<1>4. DwordBits \in Nat /\ Capacity[l] \in Nat
  BY DwordBitsPositive, CapacityPositive
<1>5. c \in Nat \ {0}
  BY UnitPositive
<1>6. k * (DwordBits * (q * Capacity[l])) = (k * q) * (DwordBits * Capacity[l])
  BY <1>4
<1>7. n_frames(u) = (k * q) * c /\ k * q \in Nat
  BY <1>1, <1>3, <1>6
<1>8. buddy_len(u, l) = n_frames(u) \div c
  BY DEF buddy_len
<1> HIDE DEF c
<1>9. buddy_len(u, l) = k * q
  BY <1>5, <1>7, <1>8, QuotientOfProduct
<1> QED
  BY <1>7, <1>9 DEF c

\* Each level has half the dwords of the level below it.
LEMMA LengthsHalve ==
  ASSUME NEW u \in UpperBounds, NEW i \in Levels, i # 0
  PROVE  i - 1 \in Levels /\ buddy_len(u, i - 1) = 2 * buddy_len(u, i)
<1> DEFINE c == DwordBits * Capacity[i - 1]
           a == buddy_len(u, i - 1)
           b == buddy_len(u, i)
<1>1. i - 1 \in Levels /\ Capacity[i] = 2 * Capacity[i - 1]
  BY BuddiesAssumption DEF Levels
<1>2. c \in Nat \ {0} /\ DwordBits \in Nat /\ Capacity[i - 1] \in Nat
  BY <1>1, UnitPositive, DwordBitsPositive, CapacityPositive
<1>3. a \in Nat /\ n_frames(u) = a * c
  BY <1>1, OneBitForEachBlock
<1>4. b \in Nat /\ n_frames(u) = b * (DwordBits * Capacity[i])
  BY OneBitForEachBlock
<1>5. b * (DwordBits * (2 * Capacity[i - 1])) = (2 * b) * (DwordBits * Capacity[i - 1])
  BY <1>2, <1>4
<1>6. n_frames(u) = (2 * b) * c /\ 2 * b \in Nat
  BY <1>1, <1>4, <1>5
<1> HIDE DEF a, b, c
<1>7. a = n_frames(u) \div c
  BY <1>2, <1>3, QuotientOfProduct
<1>8. 2 * b = n_frames(u) \div c
  BY <1>2, <1>6, QuotientOfProduct
<1> QED
  BY <1>1, <1>7, <1>8 DEF a, b

\* The loop of pmm_init, as an equation that buddy_data satisfies.
LayoutOf(u, data) ==
  data = [i \in Levels |-> IF i = 0 THEN 0 ELSE data[i - 1] + buddy_len(u, i - 1)]

\* The loop has a solution: the lengths of the levels below i add up to twice
\* the difference between the first length and that of level i.
LEMMA LayoutExists ==
  ASSUME NEW u \in UpperBounds
  PROVE  LayoutOf(u, [i \in Levels |-> 2 * buddy_len(u, 0) - 2 * buddy_len(u, i)])
<1> DEFINE d == [i \in Levels |-> 2 * buddy_len(u, 0) - 2 * buddy_len(u, i)]
<1>1. \A i \in Levels : buddy_len(u, i) \in Nat
  BY OneBitForEachBlock
<1>2. ASSUME NEW i \in Levels
      PROVE  d[i] = IF i = 0 THEN 0 ELSE d[i - 1] + buddy_len(u, i - 1)
  <2>1. CASE i = 0
    BY <1>1, <2>1
  <2>2. CASE i # 0
    <3>1. i - 1 \in Levels /\ buddy_len(u, i - 1) = 2 * buddy_len(u, i)
      BY <2>2, LengthsHalve
    <3>2. 0 \in Levels
      BY BuddiesAssumption DEF Levels
    <3>3. /\ d[i] = 2 * buddy_len(u, 0) - 2 * buddy_len(u, i)
          /\ d[i - 1] = 2 * buddy_len(u, 0) - 2 * buddy_len(u, i - 1)
      BY <3>1
    <3>4. buddy_len(u, 0) \in Nat /\ buddy_len(u, i) \in Nat
      BY <1>1, <3>2
    <3> HIDE DEF d
    <3> QED
      BY <2>2, <3>1, <3>3, <3>4
  <2> QED
    BY <2>1, <2>2
<1>3. d = [i \in Levels |-> d[i]]
  OBVIOUS
<1>4. LayoutOf(u, d)
  BY <1>2, <1>3 DEF LayoutOf
<1> QED
  BY <1>4

\* The recursive definition of buddy_data has the closed form.
LEMMA DataIsLayout ==
  ASSUME NEW u \in UpperBounds
  PROVE  LayoutOf(u, buddy_data(u))
<1>1. \E d : LayoutOf(u, d)
  BY LayoutExists
<1>2. buddy_data(u) = CHOOSE d : LayoutOf(u, d)
  BY DEF buddy_data, LayoutOf
<1> QED
  BY <1>1, <1>2, Zenon

\* Where the bitsets of the levels begin, in closed form.
LEMMA DataClosedForm ==
  ASSUME NEW u \in UpperBounds
  PROVE  \A i \in Levels :
           buddy_data(u)[i] = 2 * buddy_len(u, 0) - 2 * buddy_len(u, i)
<1> DEFINE d == buddy_data(u)
           T == {i \in Levels : d[i] # 2 * buddy_len(u, 0) - 2 * buddy_len(u, i)}
<1>1. SUFFICES ASSUME T # {} PROVE FALSE
  OBVIOUS
<1>2. T \subseteq Nat
  BY DEF Levels
<1>3. \A i \in Levels : d[i] = IF i = 0 THEN 0 ELSE d[i - 1] + buddy_len(u, i - 1)
  BY DataIsLayout DEF LayoutOf
<1> HIDE DEF T
<1>4. PICK x \in T : \A y \in T : x <= y
  BY <1>1, <1>2, LeastNat
<1> USE DEF T
<1> HIDE DEF d
<1>5. \A i \in Levels : buddy_len(u, i) \in Nat
  BY OneBitForEachBlock
<1>6. x \in Levels /\ x # 0
  BY <1>3, <1>5, BuddiesAssumption DEF Levels
<1>7. x - 1 \in Levels /\ buddy_len(u, x - 1) = 2 * buddy_len(u, x)
  BY <1>6, LengthsHalve
<1>8. x - 1 \notin T
  <2>1. x \in Nat
    BY <1>2
  <2> HIDE DEF T
  <2> QED
    BY <1>4, <2>1
<1>9. d[x - 1] = 2 * buddy_len(u, 0) - 2 * buddy_len(u, x - 1)
  BY <1>7, <1>8
<1>10. d[x] = d[x - 1] + buddy_len(u, x - 1)
  BY <1>3, <1>6
<1>11. buddy_len(u, 0) \in Nat /\ buddy_len(u, x) \in Nat
  BY <1>5, <1>6, BuddiesAssumption DEF Levels
<1>12. d[x] = 2 * buddy_len(u, 0) - 2 * buddy_len(u, x)
  BY <1>7, <1>9, <1>10, <1>11
<1> QED
  BY <1>12

\* The bitsets up to level i take a number of bytes that a byte for each
\* FramesPerByte frames covers.
LEMMA BitsetBytes ==
  ASSUME NEW u \in UpperBounds, NEW i \in Levels
  PROVE  /\ buddy_end(u, i) - KERNEL_END_PHYS \in Nat
         /\ (buddy_end(u, i) - KERNEL_END_PHYS) * FramesPerByte <= n_frames(u)
         /\ buddy_end(u, i) \in Nat
<1> DEFINE L == buddy_len(u, 0)
           b == buddy_len(u, i)
           d == DwordBytes * (2 * L - b)
           n == n_frames(u)
<1>1. /\ KERNEL_END_PHYS \in Nat /\ FramesPerByte \in Nat \ {0} /\ DwordBytes \in Nat \ {0}
  BY PmmInitAssumption
<1>2. L \in Nat /\ n = L * (DwordBits * 1) /\ 0 \in Levels
  BY OneBitForEachBlock, BuddiesAssumption DEF Levels
<1>3. b \in Nat /\ buddy_data(u)[i] = 2 * L - 2 * b
  BY OneBitForEachBlock, DataClosedForm
<1>4. b <= L
  <2>1. n = b * (DwordBits * Capacity[i]) /\ DwordBits \in Nat \ {0} /\ Capacity[i] \in Nat \ {0}
    BY OneBitForEachBlock, DwordBitsPositive, CapacityPositive
  <2>2. L = n \div DwordBits
    <3>1. n = L * DwordBits
      BY <1>2, <2>1
    <3> HIDE DEF L, n
    <3> QED
      BY <1>2, <2>1, <3>1, QuotientOfProduct
  <2>3. b * DwordBits <= n /\ n \in Nat
    <3> HIDE DEF b, n
    <3>1. b * (DwordBits * Capacity[i]) = (b * DwordBits) * Capacity[i] /\ b * DwordBits \in Nat
      BY <1>3, <2>1
    <3>2. 1 * (b * DwordBits) <= Capacity[i] * (b * DwordBits)
      BY <2>1, <3>1, TimesMonotone
    <3>3. Capacity[i] * (b * DwordBits) = (b * DwordBits) * Capacity[i]
      BY <2>1, <3>1
    <3>4. (b * DwordBits) * Capacity[i] \in Nat
      BY <2>1, <3>1
    <3> QED
      BY <2>1, <3>1, <3>2, <3>3, <3>4
  <2> HIDE DEF b, n, L
  <2> QED
    BY <1>3, <2>1, <2>2, <2>3, QuotientAtLeast
<1>5. buddy_end(u, i) = KERNEL_END_PHYS + DwordBytes * ((2 * L - 2 * b) + b)
  BY <1>3 DEF buddy_end
<1> HIDE DEF L, b, n
<1>6. (2 * L - 2 * b) + b = 2 * L - b /\ 2 * L - b \in Nat /\ 2 * L - b <= 2 * L /\ 2 * L \in Nat
  BY <1>2, <1>3, <1>4
<1>7. d \in Nat /\ buddy_end(u, i) = KERNEL_END_PHYS + d
  BY <1>1, <1>5, <1>6
<1>8. d * FramesPerByte <= n
  <2>1. (2 * L - b) * (DwordBytes * FramesPerByte) <= (2 * L) * (DwordBytes * FramesPerByte)
    BY <1>1, <1>6, TimesMonotone
  <2>2. L * ((2 * FramesPerByte * DwordBytes) * 1) = (2 * L) * (DwordBytes * FramesPerByte)
    BY <1>1, <1>2
  <2>3. n = (2 * L) * (DwordBytes * FramesPerByte)
    BY <1>2, <2>2 DEF DwordBits
  <2>4. \A x \in Nat : (DwordBytes * x) * FramesPerByte = x * (DwordBytes * FramesPerByte)
    BY <1>1
  <2>5. d * FramesPerByte = (2 * L - b) * (DwordBytes * FramesPerByte)
    BY <1>6, <2>4
  <2> QED
    BY <2>1, <2>3, <2>5
<1> HIDE DEF d
<1>9. buddy_end(u, i) - KERNEL_END_PHYS = d /\ buddy_end(u, i) \in Nat
  BY <1>1, <1>7
<1> QED
  BY <1>7, <1>8, <1>9 DEF n

\* The estimate is large enough: every bitset ends before the managed region.
LEMMA BitsetsFit ==
  ASSUME NEW u \in UpperBounds, EnoughMemory(u), NEW i \in Levels
  PROVE  buddy_end(u, i) \in Int /\ buddy_end(u, i) <= managed_first(u)
<1> DEFINE avail    == minus(u, KERNEL_END_PHYS)
           required == pmm_estimate_bytes_required(avail)
           n        == n_frames(u)
           d        == buddy_end(u, i) - KERNEL_END_PHYS
<1>1. /\ u \in 0..(AddressLimit - 1) /\ u \in Nat
      /\ KERNEL_END_PHYS \in Nat /\ PAGE_SIZE \in Nat \ {0} /\ FramesPerByte \in Nat \ {0}
  BY PmmInitAssumption
<1>2. KERNEL_END_PHYS <= u
  BY DEF EnoughMemory
<1>3. avail = u - KERNEL_END_PHYS
  BY <1>1, <1>2, MinusIsUnsigned, Zenon
<1>4. /\ required \in Nat /\ managed_first(u) \in Nat
      /\ KERNEL_END_PHYS + required <= managed_first(u)
  BY ManagedBehindImage
<1>5. n \in Nat /\ managed_first(u) + n * PAGE_SIZE <= u
  BY FramesFit
<1>6. required = (avail \div PAGE_SIZE) \div FramesPerByte
  BY DEF pmm_estimate_bytes_required
<1>7. d \in Nat /\ d * FramesPerByte <= n /\ buddy_end(u, i) \in Nat
  BY BitsetBytes
<1> HIDE DEF avail, required, n
<1>8. n <= avail \div PAGE_SIZE
  <2>1. n * PAGE_SIZE \in Nat
    BY <1>1, <1>5
  <2>2. n * PAGE_SIZE <= avail /\ avail \in Nat
    BY <1>1, <1>2, <1>3, <1>4, <1>5, <2>1
  <2> QED
    BY <1>1, <1>5, <2>2, QuotientAtLeast
<1>9. KERNEL_END_PHYS + d = buddy_end(u, i)
  BY <1>1, <1>7
<1> HIDE DEF d
<1>10. d <= required
  <2>1. avail \div PAGE_SIZE \in Nat
    BY <1>1, <1>2, <1>3, DivMod
  <2>2. d * FramesPerByte \in Nat
    BY <1>1, <1>7
  <2>3. d * FramesPerByte <= avail \div PAGE_SIZE
    BY <1>5, <1>7, <1>8, <2>1, <2>2
  <2> QED
    BY <1>1, <1>6, <1>7, <2>1, <2>3, QuotientAtLeast, Zenon
<1> QED
  BY <1>1, <1>4, <1>7, <1>9, <1>10
-----------------------------------------------------------------------------
(***************************************************************************)
(* The bitsets are small: whatever the boot loader reports as the end of   *)
(* memory, and even where the subtractions of pmm_init wrap around, no     *)
(* bitset ends AddressLimit / (PAGE_SIZE * FramesPerByte) bytes or more,   *)
(* 256 KiB for 32-bit addresses, behind the kernel image.                  *)
(***************************************************************************)
THEOREM BitsetsAreSmall ==
  \A u \in UpperBounds : \A i \in Levels :
    ((buddy_end(u, i) - KERNEL_END_PHYS) * FramesPerByte) * PAGE_SIZE < AddressLimit
<1> SUFFICES ASSUME NEW u \in UpperBounds, NEW i \in Levels
             PROVE  ((buddy_end(u, i) - KERNEL_END_PHYS) * FramesPerByte) * PAGE_SIZE
                      < AddressLimit
  OBVIOUS
<1> DEFINE x       == (buddy_end(u, i) - KERNEL_END_PHYS) * FramesPerByte
           n       == n_frames(u)
           managed == minus(u, managed_first(u))
<1>1. PAGE_SIZE \in Nat /\ FramesPerByte \in Nat /\ AddressLimit \in Nat
  BY PmmInitAssumption
<1>2. x \in Nat /\ x <= n
  BY <1>1, BitsetBytes
<1>3. managed \in Nat /\ managed < AddressLimit /\ n \in Nat /\ n * PAGE_SIZE <= managed
  BY WholeUnits
<1> HIDE DEF x, n, managed
<1>4. x * PAGE_SIZE <= n * PAGE_SIZE
  BY <1>1, <1>2, <1>3, TimesMonotone
<1>5. x * PAGE_SIZE \in Nat /\ n * PAGE_SIZE \in Nat
  BY <1>1, <1>2, <1>3
<1>6. x * PAGE_SIZE < AddressLimit
  BY <1>1, <1>3, <1>4, <1>5
<1> QED
  BY <1>6 DEF x

(***************************************************************************)
(* Every block that pmm_alloc hands out lies behind the bitsets and inside *)
(* memory, and every bit that pmm_alloc and pmm_free touch is a bit of its *)
(* bitset: pmm_init reserves enough and rounds the right way.              *)
(***************************************************************************)
THEOREM AlwaysInMemory == Spec => []FramesInMemory
<1>1. TypeOK /\ BlocksAligned => FramesInMemory
  <2> SUFFICES ASSUME TypeOK, BlocksAligned, NEW u \in UpperBounds,
                      EnoughMemory(u), n_frames(u) = NFrames
               PROVE  /\ \A l, i \in Levels : \A s \in held[l] :
                           /\ buddy_end(u, i) <= address(u, s)
                           /\ address(u, s) + PAGE_SIZE * Capacity[l] <= u
                      /\ \A l \in Levels : \A s \in held[l] \cup buddies[l] :
                           s \div Capacity[l] < DwordBits * buddy_len(u, l)
    BY DEF FramesInMemory
  <2>1. /\ u \in Nat /\ PAGE_SIZE \in Nat \ {0} /\ NFrames \in Nat
        /\ DwordBits \in Nat
    BY PmmInitAssumption, BuddiesAssumption, DwordBitsPositive
  <2>2. managed_first(u) \in Nat
    BY ManagedBehindImage
  <2>3. managed_first(u) + NFrames * PAGE_SIZE <= u
    BY FramesFit
  <2>4. ASSUME NEW l \in Levels, NEW s \in held[l] \cup buddies[l]
        PROVE  /\ s \in Nat /\ Capacity[l] \in Nat \ {0}
               /\ s % Capacity[l] = 0 /\ s + Capacity[l] <= NFrames
    <3>1. s \in Nat
      BY DEF TypeOK, BlockSets, Frames
    <3>2. s % Capacity[l] = 0 /\ s + Capacity[l] <= NFrames
      BY DEF BlocksAligned, Aligned
    <3> QED
      BY <3>1, <3>2, CapacityPositive
  <2>5. ASSUME NEW l \in Levels, NEW i \in Levels, NEW s \in held[l]
        PROVE  /\ buddy_end(u, i) <= address(u, s)
               /\ address(u, s) + PAGE_SIZE * Capacity[l] <= u
    <3>1. s \in Nat /\ Capacity[l] \in Nat \ {0} /\ s + Capacity[l] <= NFrames
      BY <2>4
    <3>2. buddy_end(u, i) \in Int /\ buddy_end(u, i) <= managed_first(u)
      BY BitsetsFit
    <3>3. PAGE_SIZE * s \in Nat /\ PAGE_SIZE * Capacity[l] \in Nat
      BY <2>1, <3>1
    <3>4. (s + Capacity[l]) * PAGE_SIZE <= NFrames * PAGE_SIZE
      BY <2>1, <3>1, TimesMonotone
    <3>5. (s + Capacity[l]) * PAGE_SIZE = PAGE_SIZE * s + PAGE_SIZE * Capacity[l]
      BY <2>1, <3>1
    <3>6. NFrames * PAGE_SIZE \in Nat
      BY <2>1
    <3> QED
      BY <2>1, <2>2, <2>3, <3>2, <3>3, <3>4, <3>5, <3>6 DEF address
  <2>6. ASSUME NEW l \in Levels, NEW s \in held[l] \cup buddies[l]
        PROVE  s \div Capacity[l] < DwordBits * buddy_len(u, l)
    <3> DEFINE c == Capacity[l]
               a == s \div Capacity[l]
               L == buddy_len(u, l)
    <3>1. s \in Nat /\ c \in Nat \ {0} /\ s % c = 0 /\ s + c <= NFrames
      BY <2>4
    <3>2. L \in Nat /\ NFrames = L * (DwordBits * c)
      BY OneBitForEachBlock
    <3>3. a = s \div c /\ a \in Nat
      BY <3>1
    <3> HIDE DEF c, a, L
    <3>4. a * c = s
      BY <3>1, <3>3, DivisorOfMultiple
    <3>5. L * (DwordBits * c) = (DwordBits * L) * c /\ DwordBits * L \in Nat
      BY <2>1, <3>1, <3>2
    <3>6. a * c < (DwordBits * L) * c
      BY <2>1, <3>1, <3>2, <3>4, <3>5
    <3>7. a < DwordBits * L
      BY <3>1, <3>3, <3>5, <3>6, Cancel
    <3> QED
      BY <3>7 DEF a, L
  <2> QED
    BY <2>5, <2>6
<1> QED
  BY <1>1, TypeCorrect, AlwaysAligned, PTL
============================================================================
