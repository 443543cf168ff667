------------------------- MODULE LiballocTagProofs -------------------------
(***************************************************************************)
(* What one step of liballoc.c does to the boundary tags, for all sizes of *)
(* pages and tags, all requests and all limits.                            *)
(*                                                                         *)
(* The free lists are described by rails: the function c from 0..n+1 with  *)
(* the tags in order at 1..n and NULL at both ends.  Within a call a block *)
(* can be in the hands of malloc or free: neither free nor held.           *)
(* Sound(h, f, out) is the invariant of the heap h with the held blocks f  *)
(* and these blocks `out', and each of the C functions is shown to keep    *)
(* it.                                                                     *)
(*                                                                         *)
(* The lemmas go up in layers: rails; numbers; one assignment; the free    *)
(* lists; the tiling; joining, filing, taking, sizing and returning a      *)
(* block.                                                                  *)
(***************************************************************************)
EXTENDS Liballoc, TLAPS

\* Most leaves are first-order: Zenon first, then arithmetic for the SMT solver.
\* A prover is named twice where tlapm may give up the first translation.
USE ZenonT(4), SMTT(20), ZenonT(20), SMTT(30)

\* The statics of liballoc.c and what is kept beside them.
Fields == {"tags", "l_freePages", "l_completePages", "runs", "status"}

\* A boundary tag, with pointers to the tags D.
TagType(D) ==
  [size : Nat, real_size : Nat, index : {-1} \cup Exponents,
   split_left : D \cup {NULL}, split_right : D \cup {NULL},
   next : D \cup {NULL}, prev : D \cup {NULL}]

\* The types of the statics.  No tag is at address zero.
Typed(h) ==
  /\ h = [f \in DOMAIN h |-> h[f]]
  /\ DOMAIN h = Fields
  /\ DOMAIN h.tags \subseteq Nat \ {NULL}
  /\ h.tags \in [DOMAIN h.tags -> TagType(DOMAIN h.tags)]
  /\ h.l_freePages \in [Exponents -> DOMAIN h.tags \cup {NULL}]
  /\ h.l_completePages \in [Exponents -> Int]
  /\ h.runs \subseteq [page : Nat, pages : Nat]

\* The neighbours of a block are blocks.
LEMMA NeighboursAreTags ==
  ASSUME NEW h, Typed(h), NEW t \in DOMAIN h.tags
  PROVE  /\ h.tags[t].split_left # NULL => h.tags[t].split_left \in DOMAIN h.tags
         /\ h.tags[t].split_right # NULL => h.tags[t].split_right \in DOMAIN h.tags
  BY SMTT(20), SMTT(30) DEF Typed, TagType

\* The list with this head has the n tags c[1], ..., c[n] in order, linked both
\* ways; the ends of the rail are NULL.
Rail(T, head, n, c) ==
  /\ n \in Nat
  /\ c \in [0..(n + 1) -> DOMAIN T \cup {NULL}]
  /\ c[0] = NULL /\ c[n + 1] = NULL /\ c[1] = head
  /\ \A i \in 1..n : c[i] \in DOMAIN T /\ T[c[i]].next = c[i + 1] /\ T[c[i]].prev = c[i - 1]
  /\ \A i, j \in 1..n : c[i] = c[j] => i = j

\* The rail without its k-th tag, and with the tag a in front.
Drop(n, c, k) == [i \in 0..n |-> IF i < k THEN c[i] ELSE c[i + 1]]

Push(n, c, a) == [j \in 0..(n + 2) |-> IF j = 0 THEN NULL ELSE IF j = 1 THEN a ELSE c[j - 1]]

\* The links U are T with the k-th tag of the rail taken out, as remove_tag
\* does; of that tag itself nothing is said.
DroppedFrom(T, U, n, c, k) ==
  /\ DOMAIN U = DOMAIN T
  /\ \A a \in DOMAIN T : a # c[k] =>
       /\ U[a].next = IF a = c[k - 1] THEN c[k + 1] ELSE T[a].next
       /\ U[a].prev = IF a = c[k + 1] THEN c[k - 1] ELSE T[a].prev

\* Taking a tag out of a list leaves the rail without it.
LEMMA RailDrop ==
  ASSUME NEW T, NULL \notin DOMAIN T, NEW head, NEW n, NEW c, Rail(T, head, n, c),
         NEW k \in 1..n, NEW U, DroppedFrom(T, U, n, c, k)
  PROVE  Rail(U, IF k = 1 THEN c[2] ELSE head, n - 1, Drop(n, c, k))
<1> DEFINE e == Drop(n, c, k)
<1>1. /\ n \in Nat /\ c \in [0..(n + 1) -> DOMAIN T \cup {NULL}]
      /\ c[0] = NULL /\ c[n + 1] = NULL /\ c[1] = head
      /\ \A i \in 1..n : c[i] \in DOMAIN T /\ T[c[i]].next = c[i + 1] /\ T[c[i]].prev = c[i - 1]
  BY DEF Rail
<1>a. \A i, j \in 1..n : c[i] = c[j] => i = j
  BY DEF Rail
<1>b. n \in Nat /\ k \in Nat /\ 1 <= k /\ k <= n
  BY <1>1, SMTT(20), SMTT(30)
<1>2. /\ DOMAIN U = DOMAIN T
      /\ \A a \in DOMAIN T : a # c[k] =>
           /\ U[a].next = IF a = c[k - 1] THEN c[k + 1] ELSE T[a].next
           /\ U[a].prev = IF a = c[k + 1] THEN c[k - 1] ELSE T[a].prev
  BY DEF DroppedFrom
<1>4. /\ n - 1 \in Nat
      /\ e \in [0..n -> DOMAIN T \cup {NULL}]
      /\ \A i \in 0..n : e[i] = IF i < k THEN c[i] ELSE c[i + 1]
  BY <1>1, SMTT(20), SMTT(30) DEF Drop
<1> HIDE DEF e
<1>5. e[0] = NULL /\ e[(n - 1) + 1] = NULL
  BY <1>1, <1>4, SMTT(20), SMTT(30)
<1>6. e[1] = IF k = 1 THEN c[2] ELSE head
  <2>1. CASE k = 1
    BY <2>1, <1>1, <1>4, SMTT(20), SMTT(30)
  <2>2. CASE k # 1
    BY <2>2, <1>1, <1>4, SMTT(20), SMTT(30)
  <2> QED  BY <2>1, <2>2
<1>7. ASSUME NEW i \in 1..(n - 1)
      PROVE  e[i] \in DOMAIN U /\ U[e[i]].next = e[i + 1] /\ U[e[i]].prev = e[i - 1]
  <2>1. CASE i < k
    <3>1. e[i] = c[i] /\ e[i - 1] = c[i - 1] /\ i \in 1..n
      BY <2>1, <1>b, <1>4, SMTT(20), SMTT(30)
    <3>2. c[i] # c[k]
      BY <2>1, <1>a, <1>b, <3>1, SMTT(20), SMTT(30)
    <3>3. c[i] # c[k + 1]
      BY <2>1, <1>1, <1>a, <1>b, <3>1, SMTT(20), SMTT(30)
    <3>4. CASE i = k - 1
      <4>1. e[i + 1] = c[k + 1] /\ c[i] = c[k - 1]
        BY <3>4, <1>b, <1>4, SMTT(20), SMTT(30)
      <4> QED  BY <3>1, <3>2, <3>3, <4>1, <1>1, <1>2
    <3>5. CASE i # k - 1
      <4>1. e[i + 1] = c[i + 1]
        BY <3>5, <2>1, <1>b, <1>4, SMTT(20), SMTT(30)
      <4>2. c[i] # c[k - 1]
        BY <3>1, <3>5, <1>1, <1>a, <1>b, SMTT(20), SMTT(30)
      <4>3. U[c[i]].next = T[c[i]].next /\ U[c[i]].prev = T[c[i]].prev
        BY <3>1, <3>2, <3>3, <4>2, <1>1, <1>2
      <4> QED  BY <3>1, <4>1, <4>3, <1>1, <1>2
    <3> QED  BY <3>4, <3>5
  <2>2. CASE i >= k
    <3> DEFINE h == i + 1
    <3>1. h \in 1..n /\ h > k /\ e[i] = c[h] /\ e[i + 1] = c[h + 1]
      BY <2>2, <1>b, <1>4, SMTT(20), SMTT(30)
    <3>2. c[h] # c[k]
      BY <1>a, <1>b, <3>1, SMTT(20), SMTT(30)
    <3>3. c[h] # c[k - 1]
      BY <1>1, <1>a, <1>b, <3>1, SMTT(20), SMTT(30)
    <3>4. CASE i = k
      <4>1. e[i - 1] = c[k - 1] /\ c[h] = c[k + 1]
        BY <3>4, <1>b, <1>4, SMTT(20), SMTT(30)
      <4> HIDE DEF h
      <4>2. U[c[h]].next = T[c[h]].next /\ U[c[h]].prev = c[k - 1]
        BY <3>1, <3>2, <3>3, <4>1, <1>1, <1>2
      <4> QED  BY <3>1, <4>1, <4>2, <1>1, <1>2
    <3>5. CASE i # k
      <4>1. e[i - 1] = c[h - 1]
        BY <3>5, <2>2, <1>b, <1>4, SMTT(20), SMTT(30)
      <4>2. c[h] # c[k + 1]
        BY <3>1, <3>5, <2>2, <1>1, <1>a, <1>b, SMTT(20), SMTT(30)
      <4> HIDE DEF h
      <4>3. U[c[h]].next = T[c[h]].next /\ U[c[h]].prev = T[c[h]].prev
        BY <3>1, <3>2, <3>3, <4>2, <1>1, <1>2
      <4> QED  BY <3>1, <4>1, <4>3, <1>1, <1>2
    <3> QED  BY <3>4, <3>5
  <2> QED  BY <2>1, <2>2, <1>1, SMTT(20), SMTT(30)
<1>8. ASSUME NEW i \in 1..(n - 1), NEW j \in 1..(n - 1), e[i] = e[j]
      PROVE  i = j
  <2> DEFINE x == IF i < k THEN i ELSE i + 1
             y == IF j < k THEN j ELSE j + 1
  <2>1. x \in 1..n /\ y \in 1..n /\ e[i] = c[x] /\ e[j] = c[y]
    BY <1>b, <1>4, SMTT(20), SMTT(30)
  <2>2. x = y
    <3> HIDE DEF x, y
    <3> QED  BY <1>8, <2>1, <1>a
  <2> QED  BY <2>2, <1>b, SMTT(20), SMTT(30)
<1>9. e \in [0..((n - 1) + 1) -> DOMAIN U \cup {NULL}]
  BY <1>1, <1>2, <1>4, SMTT(20), SMTT(30)
<1>10. Rail(U, IF k = 1 THEN c[2] ELSE head, n - 1, e)
  BY <1>4, <1>5, <1>6, <1>7, <1>8, <1>9 DEF Rail
<1> QED  BY <1>10 DEF e

\* What a rail runs over, without its k-th tag.
DropCovers(n, c, k) ==
  \A t : (\E i \in 1..(n - 1) : Drop(n, c, k)[i] = t) <=> (\E i \in 1..n : i # k /\ c[i] = t)

\* remove_tag takes one tag out of a list and loses no other.
LEMMA DropKeeps ==
  ASSUME NEW n \in Nat, NEW c, NEW k \in 1..n
  PROVE  DropCovers(n, c, k)
<1> DEFINE e == Drop(n, c, k)
<1>1. \A i \in 0..n : e[i] = IF i < k THEN c[i] ELSE c[i + 1]
  BY DEF Drop
<1> HIDE DEF e
<1>2. ASSUME NEW i \in 1..(n - 1)
      PROVE  \E j \in 1..n : j # k /\ c[j] = e[i]
  <2>1. (IF i < k THEN i ELSE i + 1) \in 1..n /\ (IF i < k THEN i ELSE i + 1) # k
    BY SMTT(20), SMTT(30)
  <2>2. e[i] = c[IF i < k THEN i ELSE i + 1]
    BY <1>1, SMTT(20), SMTT(30)
  <2> QED  BY <2>1, <2>2
<1>3. ASSUME NEW j \in 1..n, j # k
      PROVE  \E i \in 1..(n - 1) : e[i] = c[j]
  <2>1. (IF j < k THEN j ELSE j - 1) \in 1..(n - 1)
    BY <1>3, SMTT(20), SMTT(30)
  <2>2. e[IF j < k THEN j ELSE j - 1] = c[j]
    BY <1>1, <1>3, SMTT(20), SMTT(30)
  <2> QED  BY <2>1, <2>2
<1>4. \A t : (\E i \in 1..(n - 1) : e[i] = t) <=> (\E i \in 1..n : i # k /\ c[i] = t)
  BY <1>2, <1>3
<1> QED  BY <1>4 DEF DropCovers, e

\* The links U are T with the tag a in front of the list, as insert_tag puts it.
PushedOn(T, U, head, a) ==
  /\ DOMAIN U = DOMAIN T
  /\ U[a].next = head /\ U[a].prev = NULL
  /\ \A b \in DOMAIN T : b # a => /\ U[b].next = T[b].next
                                  /\ U[b].prev = IF b = head THEN a ELSE T[b].prev

\* Putting a tag that is not in the list in front of it gives the rail with it.
LEMMA RailPush ==
  ASSUME NEW T, NULL \notin DOMAIN T, NEW head, NEW n, NEW c, Rail(T, head, n, c),
         NEW a \in DOMAIN T, \A i \in 1..n : c[i] # a, NEW U, PushedOn(T, U, head, a)
  PROVE  Rail(U, a, n + 1, Push(n, c, a))
<1> DEFINE e == Push(n, c, a)
<1>1. /\ n \in Nat /\ c \in [0..(n + 1) -> DOMAIN T \cup {NULL}]
      /\ c[0] = NULL /\ c[n + 1] = NULL /\ c[1] = head
      /\ \A i \in 1..n : c[i] \in DOMAIN T /\ T[c[i]].next = c[i + 1] /\ T[c[i]].prev = c[i - 1]
  BY DEF Rail
<1>a. \A i, j \in 1..n : c[i] = c[j] => i = j
  BY DEF Rail
<1>2. /\ DOMAIN U = DOMAIN T
      /\ U[a].next = head /\ U[a].prev = NULL
      /\ \A b \in DOMAIN T : b # a => /\ U[b].next = T[b].next
                                      /\ U[b].prev = IF b = head THEN a ELSE T[b].prev
  BY DEF PushedOn
<1>4. /\ n + 1 \in Nat
      /\ e \in [0..((n + 1) + 1) -> DOMAIN T \cup {NULL}]
      /\ e[0] = NULL /\ e[1] = a
      /\ \A j \in 1..(n + 1) : e[j + 1] = c[j]
  BY <1>1, SMTT(20), SMTT(30) DEF Push
<1> HIDE DEF e
<1>5. ASSUME NEW j \in 1..(n + 1)
      PROVE  e[j] \in DOMAIN U /\ U[e[j]].next = e[j + 1] /\ U[e[j]].prev = e[j - 1]
  <2>1. CASE j = 1
    <3>1. e[j + 1] = head /\ e[j - 1] = NULL
      BY <2>1, <1>1, <1>4, SMTT(20), SMTT(30)
    <3> QED  BY <2>1, <3>1, <1>2, <1>4
  <2>2. CASE j # 1
    <3> DEFINE h == j - 1
    <3>1. h \in 1..n /\ e[j] = c[h] /\ e[j + 1] = c[h + 1]
      BY <2>2, <1>1, <1>4, SMTT(20), SMTT(30)
    <3>2. e[j - 1] = IF h = 1 THEN a ELSE c[h - 1]
      <4>1. CASE h = 1
        BY <4>1, <1>4
      <4>2. CASE h # 1
        <5>1. h - 1 \in 1..(n + 1) /\ (h - 1) + 1 = j - 1
          BY <3>1, <4>2, <1>1, SMTT(20), SMTT(30)
        <5>2. e[(h - 1) + 1] = c[h - 1]
          BY <5>1, <1>4
        <5> QED  BY <4>2, <5>1, <5>2
      <4> QED  BY <4>1, <4>2
    <3>3. c[h] = head <=> h = 1
      <4>1. 1 \in 1..n
        BY <3>1, <1>1, SMTT(20), SMTT(30)
      <4> HIDE DEF h
      <4> QED  BY <3>1, <4>1, <1>1, <1>a
    <3> HIDE DEF h
    <3>4. c[h] # a /\ c[h] \in DOMAIN T /\ T[c[h]].next = c[h + 1] /\ T[c[h]].prev = c[h - 1]
      BY <3>1, <1>1
    <3>5. U[c[h]].next = c[h + 1] /\ U[c[h]].prev = IF h = 1 THEN a ELSE c[h - 1]
      BY <3>3, <3>4, <1>2
    <3> QED  BY <3>1, <3>2, <3>4, <3>5, <1>2
  <2> QED  BY <2>1, <2>2
<1>6. ASSUME NEW i \in 1..(n + 1), NEW j \in 1..(n + 1), e[i] = e[j]
      PROVE  i = j
  <2>1. i > 1 => i - 1 \in 1..n /\ e[i] = c[i - 1]
    BY <1>1, <1>4, SMTT(20), SMTT(30)
  <2>2. j > 1 => j - 1 \in 1..n /\ e[j] = c[j - 1]
    BY <1>1, <1>4, SMTT(20), SMTT(30)
  <2>3. CASE i = 1 \/ j = 1
    BY <1>6, <2>1, <2>2, <2>3, <1>1, <1>4, SMTT(20), SMTT(30)
  <2>4. CASE i > 1 /\ j > 1
    <3>1. i - 1 = j - 1
      BY <1>6, <2>1, <2>2, <2>4, <1>a
    <3> QED  BY <3>1, <1>1, SMTT(20), SMTT(30)
  <2> QED  BY <2>3, <2>4, <1>1, SMTT(20), SMTT(30)
<1>7. e[(n + 1) + 1] = NULL
  BY <1>1, <1>4, SMTT(20), SMTT(30)
<1>8. Rail(U, a, n + 1, e)
  BY <1>2, <1>4, <1>5, <1>6, <1>7 DEF Rail
<1> QED  BY <1>8 DEF e

\* What a rail runs over, with the tag a in front.
PushCovers(n, c, a) ==
  \A t : (\E i \in 1..(n + 1) : Push(n, c, a)[i] = t) <=> (t = a \/ \E i \in 1..n : c[i] = t)

\* insert_tag adds one tag to a list and loses no other.
LEMMA PushKeeps ==
  ASSUME NEW n \in Nat, NEW c, NEW a
  PROVE  PushCovers(n, c, a)
<1> DEFINE e == Push(n, c, a)
<1>1. e[1] = a /\ \A j \in 1..n : e[j + 1] = c[j]
  BY SMTT(20), SMTT(30) DEF Push
<1> HIDE DEF e
<1>2. ASSUME NEW i \in 1..(n + 1)
      PROVE  e[i] = a \/ \E j \in 1..n : c[j] = e[i]
  <2>1. i # 1 => i - 1 \in 1..n /\ e[(i - 1) + 1] = c[i - 1] /\ (i - 1) + 1 = i
    BY <1>1, SMTT(20), SMTT(30)
  <2> QED  BY <2>1, <1>1
<1>3. ASSUME NEW j \in 1..n
      PROVE  \E i \in 1..(n + 1) : e[i] = c[j]
  <2>1. j + 1 \in 1..(n + 1) /\ e[j + 1] = c[j]
    BY <1>1, SMTT(20), SMTT(30)
  <2> QED  BY <2>1
<1>4. 1 \in 1..(n + 1)
  BY SMTT(20), SMTT(30)
<1>5. \A t : (\E i \in 1..(n + 1) : e[i] = t) <=> (t = a \/ \E i \in 1..n : c[i] = t)
  BY <1>1, <1>2, <1>3, <1>4, SMTT(20), SMTT(30)
<1> QED  BY <1>5 DEF PushCovers, e

\* A rail depends on nothing but the links of its own tags.
LEMMA RailFrame ==
  ASSUME NEW T, NEW head, NEW n, NEW c, Rail(T, head, n, c), NEW U,
         \A i \in 1..n : /\ c[i] \in DOMAIN U
                         /\ U[c[i]].next = T[c[i]].next /\ U[c[i]].prev = T[c[i]].prev
  PROVE  Rail(U, head, n, c)
<1>1. n \in Nat /\ c[0] = NULL /\ c[n + 1] = NULL /\ c = [i \in 0..(n + 1) |-> c[i]]
  BY DEF Rail
<1>2. ASSUME NEW i \in 0..(n + 1)
      PROVE  c[i] \in DOMAIN U \cup {NULL}
  <2>1. i = 0 \/ i = n + 1 \/ i \in 1..n
    BY <1>1, SMTT(20), SMTT(30)
  <2> QED  BY <1>1, <2>1
<1>3. c \in [0..(n + 1) -> DOMAIN U \cup {NULL}]
  BY <1>1, <1>2
<1> QED  BY <1>3 DEF Rail

\* f maps S into T, different elements to different ones.
OneToOne(f, S, T) == f \in [S -> T] /\ \A i, j \in S : f[i] = f[j] => i = j

\* The facts on natural numbers and finite sets that the proofs use: the least
\* number principle, which stands in for an induction, and counting.  The lemmas
\* have them as a hypothesis; LiballocProofs proves them from the library before
\* its theorems.
Counting ==
  /\ \A T : T \subseteq Nat /\ T # {} => \E x \in T : \A y \in T : x <= y
  /\ IsFiniteSet({}) /\ Cardinality({}) = 0
  /\ \A S : IsFiniteSet(S) => Cardinality(S) \in Nat
  /\ \A S, T : IsFiniteSet(S) /\ T \subseteq S => IsFiniteSet(T)
  /\ \A S, x : IsFiniteSet(S) =>
       IsFiniteSet(S \cup {x}) /\ (x \notin S => Cardinality(S \cup {x}) = Cardinality(S) + 1)
  /\ \A S, x : IsFiniteSet(S) /\ x \in S => Cardinality(S \ {x}) = Cardinality(S) - 1
  /\ \A n \in Nat : Cardinality(0..(n - 1)) = n /\ Cardinality(1..n) = n
  /\ \A S, T, f : IsFiniteSet(T) /\ OneToOne(f, S, T) => Cardinality(S) <= Cardinality(T)

\* A nonempty set of natural numbers has a least element.
LEMMA LeastNat ==
  ASSUME Counting, NEW T, T \subseteq Nat, T # {}
  PROVE  \E x \in T : \A y \in T : x <= y
  BY DEF Counting

-----------------------------------------------------------------------------

\* There is at least one free list, and their exponents are natural numbers.
LEMMA ExponentsAre ==
  /\ MINEXP \in Exponents /\ Exponents \subseteq Nat
  /\ \A e \in Exponents : e >= MINEXP /\ e <= MAXEXP - 1
  BY LiballocAssumption, SMTT(20), SMTT(30) DEF Exponents

\* getexp returns -1 or the number of a free list, so l_freePages is never
\* indexed out of its bounds.
LEMMA ExponentType ==
  ASSUME Counting, NEW size \in Int
  PROVE  getexp(size) \in {-1} \cup Exponents
<1>1. CASE size < 2^MINEXP
  BY <1>1 DEF getexp
<1>2. CASE ~(size < 2^MINEXP)
  <2> DEFINE T == {n \in Nat : MAXEXP - 1 - n \in Exponents /\ 2^(MAXEXP - 1 - n) <= size}
  <2>a. MINEXP \in Nat /\ MAXEXP \in Nat /\ MINEXP < MAXEXP
    BY LiballocAssumption
  <2>0. 2^MINEXP \in Int
    BY <2>a, SMTT(20), SMTT(30)
  <2>1. T \subseteq Nat
    OBVIOUS
  <2>2. MAXEXP - 1 - MINEXP \in T
    <3>1. MAXEXP - 1 - (MAXEXP - 1 - MINEXP) = MINEXP /\ MAXEXP - 1 - MINEXP \in Nat
      BY <2>a, SMTT(20), SMTT(30)
    <3>2. 2^MINEXP <= size
      BY <1>2, <2>0, SMTT(20), SMTT(30)
    <3> QED  BY <3>1, <3>2, ExponentsAre
  <2> HIDE DEF T
  <2>3. PICK n \in T : \A y \in T : n <= y
    BY <2>1, <2>2, LeastNat
  <2> DEFINE e == MAXEXP - 1 - n
  <2>4. n \in Nat /\ e \in Exponents /\ 2^e <= size
    BY <2>3 DEF T
  <2>5. size < 2^(e + 1) \/ e = MAXEXP - 1
    <3> SUFFICES ASSUME e # MAXEXP - 1 PROVE size < 2^(e + 1)
      OBVIOUS
    <3>1. n - 1 \in Nat /\ MAXEXP - 1 - (n - 1) = e + 1
      BY <2>4, <2>a, SMTT(20), SMTT(30)
    <3>2. e + 1 \in Exponents /\ e + 1 \in Nat
      BY <2>4, <2>a, <3>1, SMTT(20), SMTT(30) DEF Exponents
    <3>3. n - 1 \notin T
      BY <2>3, <2>4, <3>1, SMTT(20), SMTT(30)
    <3>4. ~(2^(e + 1) <= size)
      <4> HIDE DEF e
      <4> QED  BY <3>1, <3>2, <3>3 DEF T
    <3>5. 2^(e + 1) \in Int
      <4> HIDE DEF e
      <4> QED  BY <3>2, SMTT(20), SMTT(30)
    <3> HIDE DEF e
    <3> QED  BY <3>4, <3>5, SMTT(20), SMTT(30)
  <2> HIDE DEF e
  <2>6. \E x \in Exponents : 2^x <= size /\ (size < 2^(x + 1) \/ x = MAXEXP - 1)
    BY <2>4, <2>5
  <2>7. (CHOOSE x \in Exponents : 2^x <= size /\ (size < 2^(x + 1) \/ x = MAXEXP - 1)) \in Exponents
    BY <2>6, Zenon
  <2> QED  BY <1>2, <2>7, Zenon DEF getexp
<1> QED  BY <1>1, <1>2

\* Neither is it by the exponent that malloc and free use.
LEMMA IndexType ==
  ASSUME Counting, NEW size \in Int
  PROVE  atleast_MINEXP(getexp(size)) \in Exponents
  BY ExponentType, ExponentsAre, LiballocAssumption, SMTT(20), SMTT(30)
     DEF atleast_MINEXP, Exponents

-----------------------------------------------------------------------------
\* The first unit of a run, and the first one behind it.
From(r)  == r.page * PageSize
Upto(r)  == (r.page + r.pages) * PageSize

\* The sizes that liballoc.c is configured with.
LEMMA Sizing ==
  /\ TagSize \in Nat /\ TagSize > 0 /\ PageSize \in Nat /\ PageSize > 0
  /\ PageCount \in Nat /\ PageCount > 0 /\ MAXCOMPLETE \in Nat /\ MAXCOMPLETE > 0
  /\ Sizes \subseteq Nat /\ NPages \in Nat
  BY LiballocAssumption, SMTT(20), SMTT(30)

\* Multiplication by l_pageSize keeps the order.
LEMMA Times ==
  ASSUME NEW a \in Nat, NEW b \in Nat, a <= b
  PROVE  a * PageSize \in Nat /\ b * PageSize \in Nat /\ a * PageSize <= b * PageSize
  BY Sizing, SMTT(20), SMTT(30)

\* And the strict order.
LEMMA TimesLess ==
  ASSUME NEW a \in Nat, NEW b \in Nat, a < b
  PROVE  a * PageSize < b * PageSize
  BY Sizing, SMTT(20), SMTT(30)

\* Whole pages divide without a remainder.
LEMMA DivTimes ==
  ASSUME NEW a \in Nat
  PROVE  (a * PageSize) \div PageSize = a /\ (a * PageSize) % PageSize = 0
  BY Sizing, SMTT(20), SMTT(30)

\* Division by l_pageSize, with the remainder that the code tests.
LEMMA DivMod ==
  ASSUME NEW a \in Nat
  PROVE  /\ a \div PageSize \in Nat /\ a % PageSize \in 0..(PageSize - 1)
         /\ a = (a \div PageSize) * PageSize + (a % PageSize)
  BY Sizing, SMTT(20), SMTT(30)

\* The bounds of a run.
LEMMA Bounds ==
  ASSUME NEW r \in [page : Nat, pages : Nat]
  PROVE  /\ From(r) \in Nat /\ Upto(r) \in Nat
         /\ Upto(r) = From(r) + r.pages * PageSize /\ r.pages * PageSize \in Nat
  BY Sizing, SMTT(20), SMTT(30) DEF From, Upto

\* allocate_new_tag asks for enough pages for the request and its tag.
LEMMA PagesEnough ==
  ASSUME NEW size \in Nat
  PROVE  /\ pages_for(size) \in Nat /\ pages_for(size) >= PageCount
         /\ size + TagSize <= pages_for(size) * PageSize
<1> DEFINE usage == size + TagSize
           pages == IF usage % PageSize = 0 THEN usage \div PageSize
                    ELSE (usage \div PageSize) + 1
<1>0. pages_for(size) = IF pages < PageCount THEN PageCount ELSE pages
  BY DEF pages_for
<1>1. usage \in Nat
  BY Sizing, SMTT(20), SMTT(30)
<1> HIDE DEF usage
<1>2. /\ usage \div PageSize \in Nat /\ usage % PageSize \in 0..(PageSize - 1)
      /\ usage = (usage \div PageSize) * PageSize + (usage % PageSize)
  BY <1>1, DivMod
<1>3. pages \in Nat /\ usage <= pages * PageSize
  <2>1. CASE usage % PageSize = 0
    <3>1. (usage \div PageSize) * PageSize \in Nat
      BY <1>2, Sizing, SMTT(20), SMTT(30)
    <3> QED  BY <2>1, <3>1, <1>1, <1>2, SMTT(20), SMTT(30)
  <2>2. CASE usage % PageSize # 0
    <3>1. ((usage \div PageSize) + 1) * PageSize = (usage \div PageSize) * PageSize + PageSize
      BY <1>2, Sizing, SMTT(20), SMTT(30)
    <3>2. (usage \div PageSize) * PageSize \in Nat
      BY <1>2, Sizing, SMTT(20), SMTT(30)
    <3> QED  BY <2>2, <3>1, <3>2, <1>1, <1>2, Sizing, SMTT(20), SMTT(30)
  <2> QED  BY <2>1, <2>2
<1> HIDE DEF pages
<1>4. pages < PageCount => usage <= PageCount * PageSize
  <2>1. pages < PageCount => pages * PageSize <= PageCount * PageSize /\ PageCount * PageSize \in Nat
                              /\ pages * PageSize \in Nat
    BY <1>3, Sizing, Times, SMTT(20), SMTT(30)
  <2> QED  BY <2>1, <1>1, <1>3, SMTT(20), SMTT(30)
<1> QED  BY <1>0, <1>3, <1>4, Sizing, SMTT(20), SMTT(30) DEF usage

\* g differs from h in the fields S only.
SameBut(h, g, S) == DOMAIN g = DOMAIN h /\ \A f \in Fields : f \notin S => g[f] = h[f]

\* The fields of a tag.
TagIs(tag, size, real_size, index, left, right, next, prev) ==
  /\ tag.size = size /\ tag.real_size = real_size /\ tag.index = index
  /\ tag.split_left = left /\ tag.split_right = right
  /\ tag.next = next /\ tag.prev = prev

\* g differs from h in the tag a only.
Sets(h, g, a) ==
  /\ Typed(g)
  /\ SameBut(h, g, {"tags"})
  /\ DOMAIN g.tags = DOMAIN h.tags
  /\ \A b \in DOMAIN h.tags : b # a => g.tags[b] = h.tags[b]

\* Assigning to next changes nothing else.
LEMMA SetNext ==
  ASSUME NEW h, Typed(h), NEW a \in DOMAIN h.tags, NEW x \in DOMAIN h.tags \cup {NULL},
         NEW g, g = [h EXCEPT !.tags[a].next = x]
  PROVE  /\ Sets(h, g, a)
         /\ TagIs(g.tags[a], h.tags[a].size, h.tags[a].real_size, h.tags[a].index,
                  h.tags[a].split_left, h.tags[a].split_right, x, h.tags[a].prev)
<1>1. g.tags \in [DOMAIN h.tags -> TagType(DOMAIN h.tags)]
  BY SMTT(20), SMTT(30) DEF Typed, Fields, TagType
<1>2. TagIs(g.tags[a], h.tags[a].size, h.tags[a].real_size, h.tags[a].index,
            h.tags[a].split_left, h.tags[a].split_right, x, h.tags[a].prev)
  BY SMTT(20), SMTT(30) DEF Typed, Fields, TagType, TagIs
<1> QED  BY <1>1, <1>2 DEF Sets, Typed, Fields, SameBut

\* Assigning to prev changes nothing else.
LEMMA SetPrev ==
  ASSUME NEW h, Typed(h), NEW a \in DOMAIN h.tags, NEW x \in DOMAIN h.tags \cup {NULL},
         NEW g, g = [h EXCEPT !.tags[a].prev = x]
  PROVE  /\ Sets(h, g, a)
         /\ TagIs(g.tags[a], h.tags[a].size, h.tags[a].real_size, h.tags[a].index,
                  h.tags[a].split_left, h.tags[a].split_right, h.tags[a].next, x)
<1>1. g.tags \in [DOMAIN h.tags -> TagType(DOMAIN h.tags)]
  BY SMTT(20), SMTT(30) DEF Typed, Fields, TagType
<1>2. TagIs(g.tags[a], h.tags[a].size, h.tags[a].real_size, h.tags[a].index,
            h.tags[a].split_left, h.tags[a].split_right, h.tags[a].next, x)
  BY SMTT(20), SMTT(30) DEF Typed, Fields, TagType, TagIs
<1> QED  BY <1>1, <1>2 DEF Sets, Typed, Fields, SameBut

\* Assigning to index changes nothing else.
LEMMA SetIndex ==
  ASSUME NEW h, Typed(h), NEW a \in DOMAIN h.tags, NEW x \in {-1} \cup Exponents,
         NEW g, g = [h EXCEPT !.tags[a].index = x]
  PROVE  /\ Sets(h, g, a)
         /\ TagIs(g.tags[a], h.tags[a].size, h.tags[a].real_size, x,
                  h.tags[a].split_left, h.tags[a].split_right, h.tags[a].next, h.tags[a].prev)
<1>1. g.tags \in [DOMAIN h.tags -> TagType(DOMAIN h.tags)]
  BY SMTT(20), SMTT(30) DEF Typed, Fields, TagType
<1>2. TagIs(g.tags[a], h.tags[a].size, h.tags[a].real_size, x,
            h.tags[a].split_left, h.tags[a].split_right, h.tags[a].next, h.tags[a].prev)
  BY SMTT(20), SMTT(30) DEF Typed, Fields, TagType, TagIs
<1> QED  BY <1>1, <1>2 DEF Sets, Typed, Fields, SameBut

\* Assigning to size changes nothing else.
LEMMA SetSize ==
  ASSUME NEW h, Typed(h), NEW a \in DOMAIN h.tags, NEW x \in Nat,
         NEW g, g = [h EXCEPT !.tags[a].size = x]
  PROVE  /\ Sets(h, g, a)
         /\ TagIs(g.tags[a], x, h.tags[a].real_size, h.tags[a].index,
                  h.tags[a].split_left, h.tags[a].split_right, h.tags[a].next, h.tags[a].prev)
<1>1. g.tags \in [DOMAIN h.tags -> TagType(DOMAIN h.tags)]
  BY SMTT(20), SMTT(30) DEF Typed, Fields, TagType
<1>2. TagIs(g.tags[a], x, h.tags[a].real_size, h.tags[a].index,
            h.tags[a].split_left, h.tags[a].split_right, h.tags[a].next, h.tags[a].prev)
  BY SMTT(20), SMTT(30) DEF Typed, Fields, TagType, TagIs
<1> QED  BY <1>1, <1>2 DEF Sets, Typed, Fields, SameBut

\* g differs from h in the head of one free list.
SetsHead(h, g, e, x) ==
  /\ Typed(g)
  /\ SameBut(h, g, {"l_freePages"})
  /\ g.l_freePages = [h.l_freePages EXCEPT ![e] = x]

\* Assigning to l_freePages[e] changes nothing else.
LEMMA SetHead ==
  ASSUME NEW h, Typed(h), NEW e \in Exponents, NEW x \in DOMAIN h.tags \cup {NULL},
         NEW g, g = [h EXCEPT !.l_freePages[e] = x]
  PROVE  SetsHead(h, g, e, x)
<1>1. g.l_freePages = [h.l_freePages EXCEPT ![e] = x]
  BY DEF Typed, Fields
<1>2. [h.l_freePages EXCEPT ![e] = x] \in [Exponents -> DOMAIN h.tags \cup {NULL}]
  BY DEF Typed
<1>3. SameBut(h, g, {"l_freePages"})
  BY DEF Typed, Fields, SameBut
<1>4. Typed(g)
  BY <1>1, <1>2, <1>3 DEF Typed, Fields, SameBut
<1> QED  BY <1>1, <1>3, <1>4 DEF SetsHead

\* Two tags describe the same block.
SameBlock(a, b) ==
  /\ b.size = a.size /\ b.real_size = a.real_size
  /\ b.split_left = a.split_left /\ b.split_right = a.split_right

\* Every tag keeps what is not about the free lists.
SameBlocks(h, g) ==
  /\ DOMAIN g.tags = DOMAIN h.tags
  /\ \A b \in DOMAIN h.tags : SameBlock(h.tags[b], g.tags[b])

\* Field by field, what remove_tag does.
Unfiled(h, g, t) ==
  /\ Typed(g)
  /\ SameBut(h, g, {"tags", "l_freePages"})
  /\ SameBlocks(h, g)
  /\ \A b \in DOMAIN h.tags :
       /\ g.tags[b].index = IF b = t THEN -1 ELSE h.tags[b].index
       /\ g.tags[b].next = IF b = t THEN NULL
                           ELSE IF b = h.tags[t].prev THEN h.tags[t].next ELSE h.tags[b].next
       /\ g.tags[b].prev = IF b = t THEN NULL
                           ELSE IF b = h.tags[t].next THEN h.tags[t].prev ELSE h.tags[b].prev
  /\ \A e \in Exponents :
       g.l_freePages[e] = IF e = h.tags[t].index /\ h.l_freePages[e] = t
                          THEN h.tags[t].next ELSE h.l_freePages[e]

\* remove_tag takes the tag out of its list: its neighbours there, or the head,
\* learn of each other, and everything else stays.
LEMMA RemoveFields ==
  ASSUME NEW h, Typed(h), NEW t \in DOMAIN h.tags, h.tags[t].index \in Exponents
  PROVE  Unfiled(h, remove_tag(h, t), t)
<1> DEFINE D  == DOMAIN h.tags
           nx == h.tags[t].next
           pv == h.tags[t].prev
           ix == h.tags[t].index
           t1 == IF pv = NULL THEN h.tags ELSE [h.tags EXCEPT ![pv].next = nx]
           t2 == IF nx = NULL THEN t1 ELSE [t1 EXCEPT ![nx].prev = pv]
           t3 == [t2 EXCEPT ![t] = [@ EXCEPT !.next = NULL, !.prev = NULL, !.index = -1]]
           fp == [h.l_freePages EXCEPT ![ix] = IF @ = t THEN nx ELSE @]
           g  == [h EXCEPT !.l_freePages = fp, !.tags = t3]
<1>0. /\ nx \in D \cup {NULL} /\ pv \in D \cup {NULL} /\ NULL \notin D /\ t \in D
      /\ h.tags \in [D -> TagType(D)]
      /\ h.l_freePages \in [Exponents -> D \cup {NULL}]
  BY DEF Typed, TagType
<1>g. remove_tag(h, t) = g
  BY DEF remove_tag
<1> HIDE DEF D, nx, pv, ix
<1>1. /\ t1 \in [D -> TagType(D)]
      /\ \A b \in D : TagIs(t1[b], h.tags[b].size, h.tags[b].real_size, h.tags[b].index,
                            h.tags[b].split_left, h.tags[b].split_right,
                            IF b = pv THEN nx ELSE h.tags[b].next, h.tags[b].prev)
  <2>1. CASE pv = NULL
    BY <2>1, <1>0 DEF TagIs
  <2>2. CASE pv # NULL
    <3> DEFINE a == [h.tags[pv] EXCEPT !.next = nx]
    <3>1. a \in TagType(D)
      BY <2>2, <1>0, SMTT(20), SMTT(30) DEF TagType
    <3>2. TagIs(a, h.tags[pv].size, h.tags[pv].real_size, h.tags[pv].index,
                h.tags[pv].split_left, h.tags[pv].split_right, nx, h.tags[pv].prev)
      BY <2>2, <1>0, SMTT(20), SMTT(30) DEF TagType, TagIs
    <3>3. t1 = [h.tags EXCEPT ![pv] = a] /\ pv \in D
      BY <2>2, <1>0
    <3> HIDE DEF a, t1
    <3> QED  BY <3>1, <3>2, <3>3, <1>0 DEF TagIs
  <2> QED  BY <2>1, <2>2
<1> HIDE DEF t1
<1>2. /\ t2 \in [D -> TagType(D)]
      /\ \A b \in D : TagIs(t2[b], h.tags[b].size, h.tags[b].real_size, h.tags[b].index,
                            h.tags[b].split_left, h.tags[b].split_right,
                            IF b = pv THEN nx ELSE h.tags[b].next,
                            IF b = nx THEN pv ELSE h.tags[b].prev)
  <2>1. CASE nx = NULL
    BY <2>1, <1>0, <1>1 DEF TagIs
  <2>2. CASE nx # NULL
    <3> DEFINE a == [t1[nx] EXCEPT !.prev = pv]
    <3>1. a \in TagType(D)
      BY <2>2, <1>0, <1>1, SMTT(20), SMTT(30) DEF TagType
    <3>2. TagIs(a, t1[nx].size, t1[nx].real_size, t1[nx].index,
                t1[nx].split_left, t1[nx].split_right, t1[nx].next, pv)
      BY <2>2, <1>0, <1>1, SMTT(20), SMTT(30) DEF TagType, TagIs
    <3>3. t2 = [t1 EXCEPT ![nx] = a] /\ nx \in D
      BY <2>2, <1>0
    <3> HIDE DEF a, t2
    <3> QED  BY <3>1, <3>2, <3>3, <1>0, <1>1, SMTT(20), SMTT(30) DEF TagIs
  <2> QED  BY <2>1, <2>2
<1> HIDE DEF t2
<1>3. /\ t3 \in [D -> TagType(D)]
      /\ \A b \in D : b # t => t3[b] = t2[b]
      /\ TagIs(t3[t], t2[t].size, t2[t].real_size, -1, t2[t].split_left, t2[t].split_right,
               NULL, NULL)
  <2> DEFINE a1 == [t2[t] EXCEPT !.next = NULL]
             a2 == [a1 EXCEPT !.prev = NULL]
             a  == [a2 EXCEPT !.index = -1]
  <2>0. t2[t] \in TagType(D)
    BY <1>0, <1>2
  <2>1. a \in TagType(D)
    <3>1. a1 \in TagType(D)
      BY <2>0 DEF TagType
    <3> HIDE DEF a1
    <3>2. a2 \in TagType(D)
      BY <3>1 DEF TagType
    <3> HIDE DEF a2
    <3> QED  BY <3>2 DEF TagType
  <2>2. TagIs(a, t2[t].size, t2[t].real_size, -1, t2[t].split_left, t2[t].split_right, NULL, NULL)
    BY <2>0 DEF TagType, TagIs
  <2>3. t3 = [t2 EXCEPT ![t] = a]
    OBVIOUS
  <2> HIDE DEF a, t3
  <2> QED  BY <2>1, <2>2, <2>3, <1>0, <1>2
<1>4. /\ fp \in [Exponents -> D \cup {NULL}]
      /\ \A e \in Exponents : fp[e] = IF e = ix /\ h.l_freePages[e] = t
                                      THEN nx ELSE h.l_freePages[e]
  BY <1>0, Zenon
<1> HIDE DEF t3, fp
<1>5. g.tags = t3 /\ g.l_freePages = fp /\ SameBut(h, g, {"tags", "l_freePages"})
      /\ g = [f \in DOMAIN g |-> g[f]]
  BY Zenon DEF Typed, Fields, SameBut
<1> HIDE DEF g
<1>6. DOMAIN g.tags = D
  BY <1>3, <1>5
<1>7. Typed(g)
  BY <1>3, <1>4, <1>5, <1>6 DEF Typed, Fields, SameBut, D
<1>8. SameBlocks(h, g)
  BY <1>2, <1>3, <1>5, <1>6, SMTT(20), SMTT(30) DEF SameBlocks, SameBlock, TagIs, D
<1>9. \A b \in D : /\ g.tags[b].index = IF b = t THEN -1 ELSE h.tags[b].index
                   /\ g.tags[b].next = IF b = t THEN NULL
                                       ELSE IF b = pv THEN nx ELSE h.tags[b].next
                   /\ g.tags[b].prev = IF b = t THEN NULL
                                       ELSE IF b = nx THEN pv ELSE h.tags[b].prev
  BY <1>2, <1>3, <1>5, SMTT(20), SMTT(30) DEF TagIs
<1>10. Unfiled(h, g, t)
  BY <1>4, <1>5, <1>7, <1>8, <1>9 DEF Unfiled, D, nx, pv, ix
<1> QED  BY <1>g, <1>10

\* The free list of e has the rail c, and holds exactly the tags with index e.
ListOf(h, e, n, c) ==
  /\ Rail(h.tags, h.l_freePages[e], n, c)
  /\ \A t \in DOMAIN h.tags : h.tags[t].index = e <=> \E i \in 1..n : c[i] = t

\* The free lists are in order; a tag in none of them has no links.
Filed(h) ==
  /\ \A e \in Exponents : \E n, c : ListOf(h, e, n, c)
  /\ \A t \in DOMAIN h.tags : h.tags[t].index = -1 => h.tags[t].next = NULL /\ h.tags[t].prev = NULL

\* Only the index of t has changed, and the lists are in order again.
Refiled(h, g, t, index) ==
  /\ Typed(g) /\ Filed(g)
  /\ SameBut(h, g, {"tags", "l_freePages"})
  /\ SameBlocks(h, g)
  /\ \A b \in DOMAIN h.tags : g.tags[b].index = IF b = t THEN index ELSE h.tags[b].index

\* remove_tag keeps all free lists in order and takes nothing but t from them.
LEMMA RemoveRefiles ==
  ASSUME NEW h, Typed(h), Filed(h), NEW t \in DOMAIN h.tags, h.tags[t].index \in Exponents
  PROVE  Refiled(h, remove_tag(h, t), t, -1)
<1> DEFINE g  == remove_tag(h, t)
           ix == h.tags[t].index
<1>1. Unfiled(h, g, t)
  BY RemoveFields
<1> HIDE DEF g
<1>2. /\ Typed(g) /\ SameBut(h, g, {"tags", "l_freePages"}) /\ SameBlocks(h, g)
      /\ DOMAIN g.tags = DOMAIN h.tags
  BY <1>1 DEF Unfiled, SameBlocks
<1>3. PICK n, c : ListOf(h, ix, n, c)
  BY DEF Filed
<1>4. PICK k \in 1..n : c[k] = t
  BY <1>3 DEF ListOf
<1>5. /\ n \in Nat /\ c[0] = NULL /\ c[n + 1] = NULL /\ c[1] = h.l_freePages[ix]
      /\ \A i \in 1..n : c[i] \in DOMAIN h.tags
      /\ h.tags[t].next = c[k + 1] /\ h.tags[t].prev = c[k - 1]
      /\ \A i, j \in 1..n : c[i] = c[j] => i = j
      /\ Rail(h.tags, h.l_freePages[ix], n, c)
  BY <1>3, <1>4 DEF ListOf, Rail
<1>6. NULL \notin DOMAIN h.tags /\ -1 \notin Exponents
  BY ExponentsAre, SMTT(20), SMTT(30) DEF Typed
<1>7. /\ \A b \in DOMAIN h.tags :
           /\ g.tags[b].index = IF b = t THEN -1 ELSE h.tags[b].index
           /\ g.tags[b].next = IF b = t THEN NULL
                               ELSE IF b = c[k - 1] THEN c[k + 1] ELSE h.tags[b].next
           /\ g.tags[b].prev = IF b = t THEN NULL
                               ELSE IF b = c[k + 1] THEN c[k - 1] ELSE h.tags[b].prev
      /\ \A e \in Exponents :
           g.l_freePages[e] = IF e = ix /\ h.l_freePages[e] = t THEN c[k + 1] ELSE h.l_freePages[e]
  BY <1>1, <1>5, SMTT(20), SMTT(30) DEF Unfiled
<1>8. ASSUME NEW e \in Exponents
      PROVE  \E m, d : ListOf(g, e, m, d)
  <2>1. CASE e = ix
    <3>1. DroppedFrom(h.tags, g.tags, n, c, k)
      BY <1>2, <1>4, <1>7 DEF DroppedFrom
    <3>2. Rail(g.tags, IF k = 1 THEN c[2] ELSE h.l_freePages[ix], n - 1, Drop(n, c, k))
      BY <3>1, <1>5, <1>6, RailDrop
    <3>3. h.l_freePages[ix] = t <=> k = 1
      BY <1>4, <1>5, SMTT(20), SMTT(30)
    <3>4. g.l_freePages[e] = IF k = 1 THEN c[2] ELSE h.l_freePages[ix]
      BY <2>1, <3>3, <1>7, SMTT(20), SMTT(30)
    <3>5. Rail(g.tags, g.l_freePages[e], n - 1, Drop(n, c, k))
      BY <3>2, <3>4
    <3>6. \A b : (\E i \in 1..(n - 1) : Drop(n, c, k)[i] = b) <=> (\E i \in 1..n : i # k /\ c[i] = b)
      <4>1. DropCovers(n, c, k)
        BY <1>5, DropKeeps
      <4> QED  BY <4>1 DEF DropCovers
    <3>7. ASSUME NEW b \in DOMAIN g.tags
          PROVE  g.tags[b].index = e <=> \E i \in 1..(n - 1) : Drop(n, c, k)[i] = b
      <4>1. h.tags[b].index = ix <=> \E i \in 1..n : c[i] = b
        BY <1>2, <1>3 DEF ListOf
      <4>2. CASE b = t
        <5>1. g.tags[b].index # e
          BY <4>2, <1>6, <1>7, SMTT(20), SMTT(30)
        <5>2. ~ \E i \in 1..n : i # k /\ c[i] = b
          BY <4>2, <1>4, <1>5
        <5> QED  BY <5>1, <5>2, <3>6
      <4>3. CASE b # t
        <5>1. g.tags[b].index = h.tags[b].index
          BY <4>3, <1>2, <1>7
        <5>2. (\E i \in 1..n : i # k /\ c[i] = b) <=> (\E i \in 1..n : c[i] = b)
          BY <4>3, <1>4
        <5> QED  BY <4>1, <5>1, <5>2, <3>6, <2>1
      <4> QED  BY <4>2, <4>3
    <3> QED  BY <3>5, <3>7, SMTT(20), SMTT(30) DEF ListOf
  <2>2. CASE e # ix
    <3>1. PICK m, d : ListOf(h, e, m, d)
      BY DEF Filed
    <3>2. \A i \in 1..m : d[i] \in DOMAIN h.tags /\ h.tags[d[i]].index = e
      BY <3>1 DEF ListOf, Rail
    <3>3. \A i \in 1..n : h.tags[c[i]].index = ix
      BY <1>3, <1>5 DEF ListOf
    <3>4. \A b \in {t, c[k - 1], c[k + 1]} : b = NULL \/ h.tags[b].index = ix
      <4>1. k - 1 = 0 \/ k - 1 \in 1..n
        BY <1>5, SMTT(20), SMTT(30)
      <4>2. k + 1 = n + 1 \/ k + 1 \in 1..n
        BY <1>5, SMTT(20), SMTT(30)
      <4> QED  BY <4>1, <4>2, <3>3, <1>5
    <3>5. \A i \in 1..m : d[i] # t /\ d[i] # c[k - 1] /\ d[i] # c[k + 1]
      BY <3>2, <3>4, <2>2, <1>6, SMTT(20), SMTT(30)
    <3>6. \A i \in 1..m : /\ d[i] \in DOMAIN g.tags
                          /\ g.tags[d[i]].next = h.tags[d[i]].next
                          /\ g.tags[d[i]].prev = h.tags[d[i]].prev
      BY <3>2, <3>5, <1>2, <1>7
    <3>7. Rail(h.tags, h.l_freePages[e], m, d)
      BY <3>1 DEF ListOf
    <3>8. Rail(g.tags, h.l_freePages[e], m, d)
      BY <3>6, <3>7, RailFrame
    <3>9. g.l_freePages[e] = h.l_freePages[e]
      BY <2>2, <1>7
    <3>10. ASSUME NEW b \in DOMAIN g.tags
           PROVE  g.tags[b].index = e <=> \E i \in 1..m : d[i] = b
      <4>1. h.tags[b].index = e <=> \E i \in 1..m : d[i] = b
        BY <1>2, <3>1 DEF ListOf
      <4>2. CASE b = t
        <5>1. g.tags[b].index # e /\ h.tags[b].index # e
          BY <4>2, <2>2, <1>6, <1>7, SMTT(20), SMTT(30)
        <5> QED  BY <5>1, <4>1
      <4>3. CASE b # t
        BY <4>1, <4>3, <1>2, <1>7
      <4> QED  BY <4>2, <4>3
    <3>11. ListOf(g, e, m, d)
      BY <3>8, <3>9, <3>10 DEF ListOf
    <3> QED  BY <3>11
  <2> QED  BY <2>1, <2>2
<1>9. ASSUME NEW b \in DOMAIN g.tags, g.tags[b].index = -1
      PROVE  g.tags[b].next = NULL /\ g.tags[b].prev = NULL
  <2>1. CASE b = t
    BY <2>1, <1>7
  <2>2. CASE b # t
    <3>1. h.tags[b].index = -1 /\ b \in DOMAIN h.tags
      BY <2>2, <1>2, <1>7, <1>9
    <3>2. h.tags[b].next = NULL /\ h.tags[b].prev = NULL
      BY <3>1 DEF Filed
    <3>3. b # c[k - 1] /\ b # c[k + 1]
      <4>1. k - 1 = 0 \/ k - 1 \in 1..n
        BY <1>5, SMTT(20), SMTT(30)
      <4>2. k + 1 = n + 1 \/ k + 1 \in 1..n
        BY <1>5, SMTT(20), SMTT(30)
      <4>3. \A i \in 1..n : h.tags[c[i]].index = ix
        BY <1>3, <1>5 DEF ListOf
      <4> QED  BY <4>1, <4>2, <4>3, <3>1, <1>5, <1>6, SMTT(20), SMTT(30)
    <3> QED  BY <2>2, <3>1, <3>2, <3>3, <1>7
  <2> QED  BY <2>1, <2>2
<1>10. Filed(g)
  BY <1>8, <1>9 DEF Filed
<1>11. Refiled(h, g, t, -1)
  BY <1>2, <1>7, <1>10 DEF Refiled
<1> QED  BY <1>11 DEF g

\* Field by field, what insert_tag does.
FiledAt(h, g, t, e) ==
  /\ Typed(g)
  /\ SameBut(h, g, {"tags", "l_freePages"})
  /\ SameBlocks(h, g)
  /\ \A b \in DOMAIN h.tags :
       /\ g.tags[b].index = IF b = t THEN e ELSE h.tags[b].index
       /\ g.tags[b].next = IF b = t THEN h.l_freePages[e] ELSE h.tags[b].next
       /\ g.tags[b].prev = IF b = h.l_freePages[e] THEN t ELSE h.tags[b].prev
  /\ \A x \in Exponents : g.l_freePages[x] = IF x = e THEN t ELSE h.l_freePages[x]

\* insert_tag puts the tag in front of the list of e, and everything else stays.
\* It sets next only when the list was not empty: the tag comes without one.
LEMMA InsertFields ==
  ASSUME NEW h, Typed(h), NEW t \in DOMAIN h.tags, NEW e \in Exponents,
         h.tags[t].next = NULL, h.l_freePages[e] # t
  PROVE  FiledAt(h, insert_tag(h, t, e), t, e)
<1> DEFINE old == h.l_freePages[e]
           h1  == IF old = NULL THEN h ELSE [h EXCEPT !.tags[old].prev = t]
           h2  == [h1 EXCEPT !.tags[t].index = e]
           h3  == [h2 EXCEPT !.tags[t].next = old]
           g   == [h3 EXCEPT !.l_freePages[e] = t]
<1>0. old \in DOMAIN h.tags \cup {NULL} /\ NULL \notin DOMAIN h.tags /\ old # t
  BY DEF Typed
<1>1. /\ Typed(h1) /\ SameBut(h, h1, {"tags"}) /\ SameBlocks(h, h1)
      /\ \A b \in DOMAIN h.tags : /\ h1.tags[b].index = h.tags[b].index
                                  /\ h1.tags[b].next = h.tags[b].next
                                  /\ h1.tags[b].prev = IF b = old THEN t ELSE h.tags[b].prev
  <2>1. CASE old = NULL
    BY <2>1, <1>0 DEF SameBut, SameBlocks, SameBlock
  <2>2. CASE old # NULL
    <3>0. h1 = [h EXCEPT !.tags[old].prev = t] /\ old \in DOMAIN h.tags /\ t \in DOMAIN h.tags \cup {NULL}
      BY <2>2, <1>0
    <3> HIDE DEF h1, old
    <3>1. /\ Sets(h, h1, old)
          /\ TagIs(h1.tags[old], h.tags[old].size, h.tags[old].real_size, h.tags[old].index,
                  h.tags[old].split_left, h.tags[old].split_right, h.tags[old].next, t)
      BY <3>0, SetPrev
    <3> QED  BY <3>1, <3>0 DEF Sets, TagIs, SameBlocks, SameBlock
  <2> QED  BY <2>1, <2>2
<1>g. insert_tag(h, t, e) = g
  <2>1. insert_tag(h, t, e) = [h1 EXCEPT !.tags[t].index = e,
                 !.tags[t].next = IF old = NULL THEN @ ELSE old,
                 !.l_freePages[e] = t]
    BY DEF insert_tag
  <2> HIDE DEF h1, old
  <2>2. (IF old = NULL THEN h1.tags[t].next ELSE old) = old
    BY <1>1
  <2>3. (IF old = NULL THEN h2.tags[t].next ELSE old) = old
    <3>1. h2.tags[t].next = h1.tags[t].next
      BY <1>1, SMTT(20), SMTT(30) DEF Typed, Fields, TagType, SameBlocks
    <3> QED  BY <3>1, <2>2
  <2> QED  BY <2>1, <2>2, <2>3
<1> HIDE DEF h1, old
<1>2. /\ Sets(h1, h2, t)
      /\ TagIs(h2.tags[t], h1.tags[t].size, h1.tags[t].real_size, e,
               h1.tags[t].split_left, h1.tags[t].split_right, h1.tags[t].next, h1.tags[t].prev)
  <2>1. t \in DOMAIN h1.tags /\ e \in {-1} \cup Exponents
    BY <1>1 DEF SameBlocks
  <2> QED  BY <1>1, <2>1, SetIndex
<1> HIDE DEF h2
<1>3. /\ Sets(h2, h3, t)
      /\ TagIs(h3.tags[t], h2.tags[t].size, h2.tags[t].real_size, h2.tags[t].index,
               h2.tags[t].split_left, h2.tags[t].split_right, old, h2.tags[t].prev)
  <2>1. Typed(h2) /\ t \in DOMAIN h2.tags /\ old \in DOMAIN h2.tags \cup {NULL}
    BY <1>0, <1>1, <1>2 DEF Sets, SameBlocks
  <2> QED  BY <2>1, SetNext
<1> HIDE DEF h3
<1>4. SetsHead(h3, g, e, t)
  <2>1. Typed(h3) /\ t \in DOMAIN h3.tags \cup {NULL}
    BY <1>1, <1>2, <1>3 DEF Sets, SameBlocks
  <2> QED  BY <2>1, SetHead
<1> HIDE DEF g
<1>5. SameBut(h, g, {"tags", "l_freePages"}) /\ Typed(g) /\ g.tags = h3.tags
  BY <1>1, <1>2, <1>3, <1>4, SMTT(20), SMTT(30) DEF Sets, SetsHead, SameBut, Fields
<1>6. \A x \in Exponents : g.l_freePages[x] = IF x = e THEN t ELSE h.l_freePages[x]
  <2>1. h3.l_freePages = h.l_freePages
    BY <1>1, <1>2, <1>3 DEF Sets, SameBut, Fields
  <2>2. DOMAIN h.l_freePages = Exponents
    BY DEF Typed
  <2> QED  BY <2>1, <2>2, <1>4 DEF SetsHead
<1>7. /\ DOMAIN g.tags = DOMAIN h.tags
      /\ \A b \in DOMAIN h.tags : b # t => g.tags[b] = h1.tags[b]
  BY <1>1, <1>2, <1>3, <1>5 DEF Sets, SameBlocks
<1>8. TagIs(g.tags[t], h1.tags[t].size, h1.tags[t].real_size, e,
            h1.tags[t].split_left, h1.tags[t].split_right, old, h1.tags[t].prev)
  BY <1>2, <1>3, <1>5 DEF TagIs
<1>9. SameBlocks(h, g)
  BY <1>1, <1>7, <1>8, SMTT(20), SMTT(30) DEF SameBlocks, SameBlock, TagIs
<1>10. \A b \in DOMAIN h.tags :
       /\ g.tags[b].index = IF b = t THEN e ELSE h.tags[b].index
       /\ g.tags[b].next = IF b = t THEN old ELSE h.tags[b].next
       /\ g.tags[b].prev = IF b = old THEN t ELSE h.tags[b].prev
  BY <1>0, <1>1, <1>7, <1>8, SMTT(20), SMTT(30) DEF TagIs
<1>11. FiledAt(h, g, t, e)
  BY <1>5, <1>6, <1>9, <1>10 DEF FiledAt, old
<1> QED  BY <1>g, <1>11

\* insert_tag keeps all free lists in order and adds nothing but t to them.
LEMMA InsertRefiles ==
  ASSUME NEW h, Typed(h), Filed(h), NEW t \in DOMAIN h.tags, h.tags[t].index = -1,
         NEW e \in Exponents
  PROVE  Refiled(h, insert_tag(h, t, e), t, e)
<1> DEFINE g   == insert_tag(h, t, e)
           old == h.l_freePages[e]
<1>0. NULL \notin DOMAIN h.tags /\ -1 \notin Exponents /\ h.tags[t].next = NULL /\ h.tags[t].prev = NULL
  BY ExponentsAre, SMTT(20), SMTT(30) DEF Typed, Filed
<1>1. PICK n, c : ListOf(h, e, n, c)
  BY DEF Filed
<1>2. /\ n \in Nat /\ c[1] = old /\ c[n + 1] = NULL
      /\ \A i \in 1..n : c[i] \in DOMAIN h.tags /\ h.tags[c[i]].index = e
      /\ Rail(h.tags, old, n, c)
  BY <1>1 DEF ListOf, Rail
<1>3. \A i \in 1..n : c[i] # t
  BY <1>0, <1>2
<1>4. old = NULL \/ h.tags[old].index = e
  BY <1>2, SMTT(20), SMTT(30)
<1>5. old # t
  BY <1>0, <1>4
<1>6. FiledAt(h, g, t, e)
  BY <1>0, <1>5, InsertFields
<1> HIDE DEF g
<1>7. /\ Typed(g) /\ SameBut(h, g, {"tags", "l_freePages"}) /\ SameBlocks(h, g)
      /\ DOMAIN g.tags = DOMAIN h.tags
      /\ \A b \in DOMAIN h.tags :
           /\ g.tags[b].index = IF b = t THEN e ELSE h.tags[b].index
           /\ g.tags[b].next = IF b = t THEN old ELSE h.tags[b].next
           /\ g.tags[b].prev = IF b = old THEN t ELSE h.tags[b].prev
      /\ \A x \in Exponents : g.l_freePages[x] = IF x = e THEN t ELSE h.l_freePages[x]
  BY <1>6 DEF FiledAt, SameBlocks
<1> HIDE DEF old
<1>8. ListOf(g, e, n + 1, Push(n, c, t))
  <2>1. PushedOn(h.tags, g.tags, old, t)
    BY <1>0, <1>5, <1>7 DEF PushedOn
  <2>2. Rail(g.tags, t, n + 1, Push(n, c, t))
    BY <2>1, <1>0, <1>2, <1>3, RailPush
  <2>3. \A b : (\E i \in 1..(n + 1) : Push(n, c, t)[i] = b) <=> (b = t \/ \E i \in 1..n : c[i] = b)
    <3>1. PushCovers(n, c, t)
      BY <1>2, PushKeeps
    <3> QED  BY <3>1 DEF PushCovers
  <2>4. \A b \in DOMAIN h.tags : h.tags[b].index = e <=> \E i \in 1..n : c[i] = b
    BY <1>1 DEF ListOf
  <2>5. \A b \in DOMAIN g.tags : g.tags[b].index = e <=> \E i \in 1..(n + 1) : Push(n, c, t)[i] = b
    BY <2>3, <2>4, <1>7
  <2> QED  BY <2>2, <2>5, <1>7 DEF ListOf
<1>9. ASSUME NEW x \in Exponents, x # e
      PROVE  \E m, d : ListOf(g, x, m, d)
  <2>1. PICK m, d : ListOf(h, x, m, d)
    BY DEF Filed
  <2>2. \A i \in 1..m : d[i] \in DOMAIN h.tags /\ h.tags[d[i]].index = x
    BY <2>1 DEF ListOf, Rail
  <2>3. \A i \in 1..m : d[i] # t /\ d[i] # old
    BY <2>2, <1>0, <1>4, <1>9
  <2>4. \A i \in 1..m : /\ d[i] \in DOMAIN g.tags
                        /\ g.tags[d[i]].next = h.tags[d[i]].next
                        /\ g.tags[d[i]].prev = h.tags[d[i]].prev
    BY <2>2, <2>3, <1>7
  <2>5. Rail(h.tags, h.l_freePages[x], m, d)
    BY <2>1 DEF ListOf
  <2>6. Rail(g.tags, h.l_freePages[x], m, d)
    BY <2>4, <2>5, RailFrame
  <2>7. \A b \in DOMAIN g.tags : g.tags[b].index = x <=> \E i \in 1..m : d[i] = b
    <3>1. \A b \in DOMAIN h.tags : h.tags[b].index = x <=> \E i \in 1..m : d[i] = b
      BY <2>1 DEF ListOf
    <3> QED  BY <3>1, <1>0, <1>7, <1>9, SMTT(20), SMTT(30)
  <2>8. ListOf(g, x, m, d)
    BY <2>6, <2>7, <1>7, <1>9 DEF ListOf
  <2> QED  BY <2>8
<1>10. ASSUME NEW b \in DOMAIN g.tags, g.tags[b].index = -1
       PROVE  g.tags[b].next = NULL /\ g.tags[b].prev = NULL
  <2>1. b # t /\ b \in DOMAIN h.tags /\ h.tags[b].index = -1
    BY <1>0, <1>7, <1>10, SMTT(20), SMTT(30)
  <2>2. h.tags[b].next = NULL /\ h.tags[b].prev = NULL
    BY <2>1 DEF Filed
  <2>3. b # old
    BY <2>1, <1>0, <1>4
  <2> QED  BY <2>1, <2>2, <2>3, <1>7
<1>11. Filed(g)
  BY <1>8, <1>9, <1>10 DEF Filed
<1>12. Refiled(h, g, t, e)
  BY <1>7, <1>11 DEF Refiled
<1> QED  BY <1>12 DEF g

\* No list leads to the tag b.
Unlisted(h, b) ==
  /\ \A u \in DOMAIN h.tags : h.tags[u].next # b /\ h.tags[u].prev # b
  /\ \A e \in Exponents : h.l_freePages[e] # b

\* No list leads to a block that is not free, so joining or returning one
\* leaves no dangling pointer behind.
LEMMA HeldUnlisted ==
  ASSUME NEW h, Typed(h), Filed(h), NEW b \in DOMAIN h.tags, h.tags[b].index = -1
  PROVE  Unlisted(h, b)
<1>0. NULL \notin DOMAIN h.tags /\ -1 \notin Exponents
  BY ExponentsAre, SMTT(20), SMTT(30) DEF Typed
<1>1. ASSUME NEW e \in Exponents, NEW n, NEW c, ListOf(h, e, n, c)
      PROVE  n \in Nat /\ \A i \in 0..(n + 1) : c[i] # b
  <2>1. n \in Nat /\ c[0] = NULL /\ c[n + 1] = NULL /\ \A i \in 1..n : h.tags[c[i]].index = e
    BY <1>1 DEF ListOf, Rail
  <2>2. ASSUME NEW i \in 0..(n + 1)
        PROVE  c[i] # b
    <3>1. i = 0 \/ i = n + 1 \/ i \in 1..n
      BY <2>1, SMTT(20), SMTT(30)
    <3> QED  BY <3>1, <2>1, <1>0
  <2> QED  BY <2>1, <2>2
<1>2. ASSUME NEW u \in DOMAIN h.tags
      PROVE  h.tags[u].next # b /\ h.tags[u].prev # b
  <2>1. CASE h.tags[u].index = -1
    BY <2>1, <1>0 DEF Filed
  <2>2. CASE h.tags[u].index # -1
    <3>1. h.tags[u].index \in Exponents
      BY <2>2 DEF Typed, TagType
    <3>2. PICK n, c : ListOf(h, h.tags[u].index, n, c)
      BY <3>1 DEF Filed
    <3>3. PICK i \in 1..n : c[i] = u
      BY <3>2 DEF ListOf
    <3>4. h.tags[u].next = c[i + 1] /\ h.tags[u].prev = c[i - 1]
      BY <3>2, <3>3 DEF ListOf, Rail
    <3>5. n \in Nat /\ \A j \in 0..(n + 1) : c[j] # b
      BY <3>1, <3>2, <1>1
    <3> QED  BY <3>3, <3>4, <3>5, SMTT(20), SMTT(30)
  <2> QED  BY <2>1, <2>2
<1>3. ASSUME NEW e \in Exponents
      PROVE  h.l_freePages[e] # b
  <2>1. PICK n, c : ListOf(h, e, n, c)
    BY DEF Filed
  <2>2. n \in Nat /\ \A j \in 0..(n + 1) : c[j] # b
    BY <2>1, <1>1
  <2>3. h.l_freePages[e] = c[1]
    BY <2>1 DEF ListOf, Rail
  <2> QED  BY <2>2, <2>3, SMTT(20), SMTT(30)
<1> QED  BY <1>2, <1>3 DEF Unlisted

\* A block that is in no list comes or goes: the lists stay as they are.
LEMMA FiledFrame ==
  ASSUME NEW h, Typed(h), Filed(h), NEW g, g.l_freePages = h.l_freePages,
         \A u \in DOMAIN h.tags : u \in DOMAIN g.tags \/ h.tags[u].index = -1,
         \A u \in DOMAIN g.tags :
           IF u \in DOMAIN h.tags
           THEN /\ g.tags[u].index = h.tags[u].index
                /\ g.tags[u].next = h.tags[u].next /\ g.tags[u].prev = h.tags[u].prev
           ELSE g.tags[u].index = -1 /\ g.tags[u].next = NULL /\ g.tags[u].prev = NULL
  PROVE  Filed(g)
<1>0. NULL \notin DOMAIN h.tags /\ -1 \notin Exponents
  BY ExponentsAre, SMTT(20), SMTT(30) DEF Typed
<1>1. ASSUME NEW e \in Exponents
      PROVE  \E n, c : ListOf(g, e, n, c)
  <2>1. PICK n, c : ListOf(h, e, n, c)
    BY DEF Filed
  <2>2. Rail(h.tags, h.l_freePages[e], n, c)
    BY <2>1 DEF ListOf
  <2>3. \A i \in 1..n : c[i] \in DOMAIN h.tags /\ h.tags[c[i]].index = e
    BY <2>1 DEF ListOf, Rail
  <2>4. \A i \in 1..n : /\ c[i] \in DOMAIN g.tags
                        /\ g.tags[c[i]].next = h.tags[c[i]].next
                        /\ g.tags[c[i]].prev = h.tags[c[i]].prev
    BY <2>3, <1>0, SMTT(20), SMTT(30)
  <2>5. Rail(g.tags, g.l_freePages[e], n, c)
    BY <2>2, <2>4, RailFrame
  <2>6. ASSUME NEW u \in DOMAIN g.tags
        PROVE  g.tags[u].index = e <=> \E i \in 1..n : c[i] = u
    <3>1. CASE u \in DOMAIN h.tags
      <4>1. h.tags[u].index = e <=> \E i \in 1..n : c[i] = u
        BY <3>1, <2>1 DEF ListOf
      <4> QED  BY <3>1, <4>1
    <3>2. CASE u \notin DOMAIN h.tags
      <4>1. \A i \in 1..n : c[i] # u
        BY <3>2, <2>3
      <4> QED  BY <3>2, <4>1, <1>0
    <3> QED  BY <3>1, <3>2
  <2>7. ListOf(g, e, n, c)
    BY <2>5, <2>6 DEF ListOf
  <2> QED  BY <2>7
<1>2. \A u \in DOMAIN g.tags : g.tags[u].index = -1 => g.tags[u].next = NULL /\ g.tags[u].prev = NULL
  BY DEF Filed
<1> QED  BY <1>1, <1>2 DEF Filed

\* The block t lies in the run r, and its neighbour on a side is missing exactly
\* at the end of the run.
InRun(tag, t, r) ==
  /\ From(r) <= t
  /\ t + tag.real_size <= Upto(r)
  /\ tag.split_left = NULL <=> t = From(r)
  /\ tag.split_right = NULL <=> t + tag.real_size = Upto(r)

\* The block t ends before u begins.
Before(T, t, u) == t + T[t].real_size <= u

\* The blocks tile the runs: neighbours are adjacent and know each other, no two
\* blocks overlap, and each run begins with a block.
Tiled(h) ==
  /\ \A t \in DOMAIN h.tags : /\ TagSize <= h.tags[t].real_size
                              /\ \E r \in h.runs : InRun(h.tags[t], t, r)
  /\ \A t \in DOMAIN h.tags : h.tags[t].split_right # NULL =>
       /\ h.tags[t].split_right = t + h.tags[t].real_size
       /\ h.tags[h.tags[t].split_right].split_left = t
  /\ \A t \in DOMAIN h.tags : h.tags[t].split_left # NULL =>
       h.tags[h.tags[t].split_left].split_right = t
  /\ \A t, u \in DOMAIN h.tags : t # u => Before(h.tags, t, u) \/ Before(h.tags, u, t)
  /\ \A r \in h.runs : /\ From(r) \in DOMAIN h.tags /\ h.tags[From(r)].split_left = NULL
                       /\ r.pages >= PageCount
  /\ \A r, s \in h.runs : r # s => r.page + r.pages <= s.page \/ s.page + s.pages <= r.page

\* The block b has become part of its left neighbour a.
Fuses(h, g, a, b) ==
  /\ Typed(g)
  /\ SameBut(h, g, {"tags"})
  /\ DOMAIN g.tags = DOMAIN h.tags \ {b}
  /\ \A u \in DOMAIN g.tags :
       /\ g.tags[u].size = h.tags[u].size /\ g.tags[u].index = h.tags[u].index
       /\ g.tags[u].next = h.tags[u].next /\ g.tags[u].prev = h.tags[u].prev
       /\ g.tags[u].real_size = IF u = a THEN h.tags[a].real_size + h.tags[b].real_size
                                ELSE h.tags[u].real_size
       /\ g.tags[u].split_right = IF u = a THEN h.tags[b].split_right ELSE h.tags[u].split_right
       /\ g.tags[u].split_left = IF u = h.tags[b].split_right THEN a ELSE h.tags[u].split_left

\* What melt_left and absorb_right have in common.
fuse(h, a, b) ==
  LET tag == h.tags[b]
      h1  == IF tag.split_right = NULL THEN h
             ELSE [h EXCEPT !.tags[tag.split_right].split_left = a]
      tags == [h1.tags EXCEPT ![a].real_size = @ + tag.real_size,
                              ![a].split_right = tag.split_right]
  IN  [h1 EXCEPT !.tags = without(tags, b)]

\* Assigning to split_left changes nothing else.
LEMMA SetLeft ==
  ASSUME NEW h, Typed(h), NEW a \in DOMAIN h.tags, NEW x \in DOMAIN h.tags \cup {NULL},
         NEW g, g = [h EXCEPT !.tags[a].split_left = x]
  PROVE  /\ Sets(h, g, a)
         /\ TagIs(g.tags[a], h.tags[a].size, h.tags[a].real_size, h.tags[a].index,
                  x, h.tags[a].split_right, h.tags[a].next, h.tags[a].prev)
<1>1. g.tags \in [DOMAIN h.tags -> TagType(DOMAIN h.tags)]
  BY SMTT(20), SMTT(30) DEF Typed, Fields, TagType
<1>2. TagIs(g.tags[a], h.tags[a].size, h.tags[a].real_size, h.tags[a].index,
            x, h.tags[a].split_right, h.tags[a].next, h.tags[a].prev)
  BY SMTT(20), SMTT(30) DEF Typed, Fields, TagType, TagIs
<1> QED  BY <1>1, <1>2 DEF Sets, Typed, Fields, SameBut

\* Field by field, what joining a block to its left neighbour does.
LEMMA FuseFields ==
  ASSUME NEW h, Typed(h), Filed(h), Tiled(h), NEW a \in DOMAIN h.tags, NEW b \in DOMAIN h.tags,
         h.tags[a].split_right = b, h.tags[b].index = -1
  PROVE  Fuses(h, fuse(h, a, b), a, b)
<1> DEFINE nb == h.tags[b].split_right
           D  == DOMAIN h.tags
           h1 == IF nb = NULL THEN h ELSE [h EXCEPT !.tags[nb].split_left = a]
           T  == [h1.tags EXCEPT ![a].real_size = @ + h.tags[b].real_size, ![a].split_right = nb]
           g  == [h1 EXCEPT !.tags = without(T, b)]
<1>0. /\ NULL \notin D /\ D \subseteq Nat /\ nb \in D \cup {NULL}
      /\ h.tags \in [D -> TagType(D)]
      /\ b # NULL /\ TagSize \in Nat /\ TagSize > 0
  BY Sizing DEF Typed, TagType
<1>1. fuse(h, a, b) = g
  BY DEF fuse
<1>2. /\ h.tags[b].split_left = a /\ b = a + h.tags[a].real_size
      /\ nb # NULL => nb = b + h.tags[b].real_size
      /\ TagSize <= h.tags[a].real_size /\ TagSize <= h.tags[b].real_size
  BY <1>0 DEF Tiled
<1>3. a # b /\ nb # a /\ nb # b
  <2>1. h.tags[a].real_size \in Nat /\ h.tags[b].real_size \in Nat /\ a \in Nat /\ b \in Nat
    BY <1>0 DEF TagType
  <2> QED  BY <2>1, <1>0, <1>2, SMTT(20), SMTT(30)
<1> HIDE DEF nb
<1>4. /\ Typed(h1) /\ SameBut(h, h1, {"tags"}) /\ DOMAIN h1.tags = D
      /\ \A u \in D : u # nb => h1.tags[u] = h.tags[u]
      /\ nb # NULL => TagIs(h1.tags[nb], h.tags[nb].size, h.tags[nb].real_size, h.tags[nb].index,
                            a, h.tags[nb].split_right, h.tags[nb].next, h.tags[nb].prev)
  <2>1. CASE nb = NULL
    BY <2>1 DEF SameBut
  <2>2. CASE nb # NULL
    <3>0. h1 = [h EXCEPT !.tags[nb].split_left = a] /\ nb \in D /\ a \in D \cup {NULL}
      BY <2>2, <1>0
    <3> HIDE DEF h1
    <3>1. /\ Sets(h, h1, nb)
          /\ TagIs(h1.tags[nb], h.tags[nb].size, h.tags[nb].real_size, h.tags[nb].index,
                   a, h.tags[nb].split_right, h.tags[nb].next, h.tags[nb].prev)
      BY <3>0, SetLeft
    <3> QED  BY <3>1 DEF Sets
  <2> QED  BY <2>1, <2>2
<1> HIDE DEF h1
<1>5. /\ DOMAIN g.tags = D \ {b}
      /\ \A u \in D \ {b} : u # a => g.tags[u] = h1.tags[u]
      /\ g.tags[a] = [h1.tags[a] EXCEPT !.real_size = @ + h.tags[b].real_size, !.split_right = nb]
      /\ DOMAIN g = DOMAIN h1 /\ g = [f \in DOMAIN g |-> g[f]]
      /\ \A f \in Fields : f # "tags" => g[f] = h1[f]
      /\ g.tags = [u \in DOMAIN g.tags |-> g.tags[u]]
  BY <1>3, <1>4 DEF without, Typed, Fields
<1> HIDE DEF g
<1>6. SameBut(h, g, {"tags"})
  BY <1>4, <1>5 DEF SameBut
<1>7. TagIs(g.tags[a], h.tags[a].size, h.tags[a].real_size + h.tags[b].real_size, h.tags[a].index,
            h.tags[a].split_left, nb, h.tags[a].next, h.tags[a].prev)
  <2>1. h1.tags[a] = h.tags[a] /\ h.tags[a] \in TagType(D)
    BY <1>0, <1>3, <1>4
  <2> QED  BY <2>1, <1>5, SMTT(20), SMTT(30) DEF TagIs, TagType
<1>8. \A u \in DOMAIN g.tags :
       /\ g.tags[u].size = h.tags[u].size /\ g.tags[u].index = h.tags[u].index
       /\ g.tags[u].next = h.tags[u].next /\ g.tags[u].prev = h.tags[u].prev
       /\ g.tags[u].real_size = IF u = a THEN h.tags[a].real_size + h.tags[b].real_size
                                ELSE h.tags[u].real_size
       /\ g.tags[u].split_right = IF u = a THEN nb ELSE h.tags[u].split_right
       /\ g.tags[u].split_left = IF u = nb THEN a ELSE h.tags[u].split_left
  <2> TAKE u \in DOMAIN g.tags
  <2>1. CASE u = a
    BY <2>1, <1>3, <1>7 DEF TagIs
  <2>2. CASE u = nb
    <3>1. u # a /\ nb # NULL /\ g.tags[u] = h1.tags[nb]
      BY <2>2, <1>0, <1>3, <1>5
    <3> QED  BY <2>2, <3>1, <1>4 DEF TagIs
  <2>3. CASE u # a /\ u # nb
    BY <2>3, <1>4, <1>5
  <2> QED  BY <2>1, <2>2, <2>3
<1>9. ASSUME NEW u \in DOMAIN g.tags
      PROVE  g.tags[u] \in TagType(DOMAIN g.tags)
  <2>1. u \in D /\ u # b /\ h.tags[u] \in TagType(D)
    BY <1>0, <1>5
  <2>2. Unlisted(h, b)
    BY HeldUnlisted
  <2>3. h.tags[u].next \in (D \ {b}) \cup {NULL} /\ h.tags[u].prev \in (D \ {b}) \cup {NULL}
    BY <2>1, <2>2 DEF Unlisted, TagType
  <2>4. u # a => h.tags[u].split_right # b
    BY <1>0, <1>2, <2>1 DEF Tiled
  <2>5. u # nb => h.tags[u].split_left # b
    BY <1>0, <2>1 DEF Tiled, nb
  <2>6. g.tags[u].split_right \in (D \ {b}) \cup {NULL}
    BY <2>1, <2>4, <1>0, <1>3, <1>8 DEF TagType
  <2>7. g.tags[u].split_left \in (D \ {b}) \cup {NULL}
    BY <2>1, <2>5, <1>3, <1>8 DEF TagType
  <2>8. g.tags[u].size \in Nat /\ g.tags[u].real_size \in Nat /\ g.tags[u].index \in {-1} \cup Exponents
    BY <2>1, <1>0, <1>8, SMTT(20), SMTT(30) DEF TagType
  <2>9. \E s, r, i, l, rr, n, p :
          g.tags[u] = [size |-> s, real_size |-> r, index |-> i, split_left |-> l,
                       split_right |-> rr, next |-> n, prev |-> p]
    <3>1. CASE u = a
      <4>1. h1.tags[a] = h.tags[a] /\ h.tags[a] \in TagType(D)
        BY <1>0, <1>3, <1>4
      <4> QED  BY <3>1, <4>1, <1>5, ZenonT(20) DEF TagType
    <3>2. CASE u # a
      <4>1. g.tags[u] = h1.tags[u] /\ h1.tags[u] \in TagType(D)
        BY <2>1, <3>2, <1>4, <1>5 DEF Typed
      <4> QED  BY <4>1 DEF TagType
    <3> QED  BY <3>1, <3>2
  <2> QED  BY <2>3, <2>6, <2>7, <2>8, <2>9, <1>5, <1>8 DEF TagType
<1>10. g.tags \in [DOMAIN g.tags -> TagType(DOMAIN g.tags)]
  BY <1>5, <1>9
<1>11. g.l_freePages \in [Exponents -> DOMAIN g.tags \cup {NULL}]
  <2>1. Unlisted(h, b)
    BY HeldUnlisted
  <2>2. g.l_freePages = h.l_freePages
    BY <1>6 DEF SameBut, Fields
  <2> QED  BY <2>1, <2>2, <1>5, SMTT(20), SMTT(30) DEF Unlisted, Typed
<1>12. DOMAIN g.tags \subseteq Nat \ {NULL}
  BY <1>5 DEF Typed
<1>13. Typed(g)
  BY <1>5, <1>6, <1>10, <1>11, <1>12 DEF Typed, SameBut, Fields
<1>14. Fuses(h, g, a, b)
  BY <1>5, <1>6, <1>8, <1>13 DEF Fuses, nb
<1> QED  BY <1>1, <1>14

\* The tiling depends on nothing but the blocks.
LEMMA TiledFrame ==
  ASSUME NEW h, Tiled(h), NEW g, SameBlocks(h, g), g.runs = h.runs, Typed(h)
  PROVE  Tiled(g)
<1>1. /\ DOMAIN g.tags = DOMAIN h.tags
      /\ \A t \in DOMAIN h.tags : /\ g.tags[t].real_size = h.tags[t].real_size
                                  /\ g.tags[t].split_left = h.tags[t].split_left
                                  /\ g.tags[t].split_right = h.tags[t].split_right
  BY DEF SameBlocks, SameBlock
<1>2. \A t \in DOMAIN h.tags : {h.tags[t].split_left, h.tags[t].split_right} \subseteq DOMAIN h.tags \cup {NULL}
  BY DEF Typed, TagType
<1>3. \A t \in DOMAIN g.tags : /\ TagSize <= g.tags[t].real_size
                               /\ \E r \in g.runs : InRun(g.tags[t], t, r)
  BY <1>1, SMTT(20), SMTT(30) DEF Tiled, InRun
<1>4. \A t \in DOMAIN g.tags : g.tags[t].split_right # NULL =>
       /\ g.tags[t].split_right = t + g.tags[t].real_size
       /\ g.tags[g.tags[t].split_right].split_left = t
  BY <1>1, <1>2, SMTT(20), SMTT(30) DEF Tiled
<1>5. \A t \in DOMAIN g.tags : g.tags[t].split_left # NULL =>
       g.tags[g.tags[t].split_left].split_right = t
  BY <1>1, <1>2, SMTT(20), SMTT(30) DEF Tiled
<1>6. \A t, u \in DOMAIN g.tags : t # u => Before(g.tags, t, u) \/ Before(g.tags, u, t)
  BY <1>1 DEF Tiled, Before
<1>7. /\ \A r \in g.runs : /\ From(r) \in DOMAIN g.tags /\ g.tags[From(r)].split_left = NULL
                           /\ r.pages >= PageCount
      /\ \A r, s \in g.runs : r # s => r.page + r.pages <= s.page \/ s.page + s.pages <= r.page
  BY <1>1 DEF Tiled
<1> QED  BY <1>3, <1>4, <1>5, <1>6, <1>7 DEF Tiled

\* Joining two neighbours keeps the tiling.
LEMMA FusedTiled ==
  ASSUME NEW h, Typed(h), Tiled(h), NEW a \in DOMAIN h.tags, NEW b \in DOMAIN h.tags,
         h.tags[a].split_right = b, NEW g, Fuses(h, g, a, b)
  PROVE  Tiled(g)
<1> DEFINE D  == DOMAIN h.tags
           nb == h.tags[b].split_right
<1>0. /\ NULL \notin D /\ D \subseteq Nat /\ nb \in D \cup {NULL} /\ b # NULL
      /\ \A u \in D : /\ h.tags[u].real_size \in Nat
                      /\ h.tags[u].split_left \in D \cup {NULL}
                      /\ h.tags[u].split_right \in D \cup {NULL}
      /\ TagSize \in Nat /\ TagSize > 0
  BY Sizing DEF Typed, TagType
<1>1. /\ g.runs = h.runs
      /\ DOMAIN g.tags = D \ {b}
      /\ \A u \in D \ {b} :
           /\ g.tags[u].real_size = IF u = a THEN h.tags[a].real_size + h.tags[b].real_size
                                    ELSE h.tags[u].real_size
           /\ g.tags[u].split_right = IF u = a THEN nb ELSE h.tags[u].split_right
           /\ g.tags[u].split_left = IF u = nb THEN a ELSE h.tags[u].split_left
  BY DEF Fuses, SameBut, Fields
<1>2. /\ h.tags[b].split_left = a /\ b = a + h.tags[a].real_size
      /\ nb # NULL => nb = b + h.tags[b].real_size /\ h.tags[nb].split_left = b
      /\ \A u \in D : TagSize <= h.tags[u].real_size
  BY <1>0 DEF Tiled
<1>3. a # b /\ nb # a /\ nb # b
  BY <1>0, <1>2, SMTT(20), SMTT(30)
<1> HIDE DEF nb
<1>4. ASSUME NEW t \in DOMAIN g.tags
      PROVE  /\ TagSize <= g.tags[t].real_size
             /\ \E r \in g.runs : InRun(g.tags[t], t, r)
  <2>1. CASE t # a
    <3>1. t \in D /\ g.tags[t].real_size = h.tags[t].real_size /\ g.tags[t].split_right = h.tags[t].split_right
      BY <2>1, <1>1
    <3>2. g.tags[t].split_left = NULL <=> h.tags[t].split_left = NULL
      BY <2>1, <3>1, <1>0, <1>1, <1>2, SMTT(20), SMTT(30)
    <3>3. PICK r \in h.runs : InRun(h.tags[t], t, r)
      BY <3>1 DEF Tiled
    <3>4. InRun(g.tags[t], t, r)
      BY <3>1, <3>2, <3>3 DEF InRun
    <3> QED  BY <3>1, <3>4, <1>1, <1>2
  <2>2. CASE t = a
    <3>1. /\ g.tags[a].real_size = h.tags[a].real_size + h.tags[b].real_size
          /\ g.tags[a].split_right = nb /\ g.tags[a].split_left = h.tags[a].split_left
      BY <1>1, <1>3
    <3>2. PICK r \in h.runs : InRun(h.tags[a], a, r)
      BY DEF Tiled
    <3>3. PICK s \in h.runs : InRun(h.tags[b], b, s)
      BY DEF Tiled
    <3>4. r \in [page : Nat, pages : Nat] /\ s \in [page : Nat, pages : Nat]
      BY DEF Typed
    <3>5. From(r) \in Nat /\ Upto(r) \in Nat /\ From(s) \in Nat /\ Upto(s) \in Nat
      BY <3>4, Bounds
    <3>6. a < b /\ b < Upto(r) /\ From(s) < b /\ From(r) <= a
      <4>1. a + h.tags[a].real_size <= Upto(r) /\ a + h.tags[a].real_size # Upto(r) /\ From(r) <= a
        BY <3>2, <1>0 DEF InRun
      <4>2. From(s) <= b /\ b # From(s)
        BY <3>3, <1>0, <1>2 DEF InRun
      <4> QED  BY <4>1, <4>2, <3>5, <1>0, <1>2, SMTT(20), SMTT(30)
    <3>7. r = s
      <4> SUFFICES ASSUME r # s PROVE FALSE
        OBVIOUS
      <4>1. r.page + r.pages <= s.page \/ s.page + s.pages <= r.page
        BY DEF Tiled
      <4>2. CASE r.page + r.pages <= s.page
        <5>1. Upto(r) <= From(s)
          BY <3>4, <4>2, Times, SMTT(20), SMTT(30) DEF From, Upto
        <5> QED  BY <5>1, <3>5, <3>6, <1>0, SMTT(20), SMTT(30)
      <4>3. CASE s.page + s.pages <= r.page
        <5>1. Upto(s) <= From(r)
          BY <3>4, <4>3, Times, SMTT(20), SMTT(30) DEF From, Upto
        <5>2. b + h.tags[b].real_size <= Upto(s)
          BY <3>3 DEF InRun
        <5> QED  BY <5>1, <5>2, <3>5, <3>6, <1>0, SMTT(20), SMTT(30)
      <4> QED  BY <4>1, <4>2, <4>3
    <3>8. a + (h.tags[a].real_size + h.tags[b].real_size) = b + h.tags[b].real_size
      BY <1>0, <1>2, SMTT(20), SMTT(30)
    <3>9. InRun(g.tags[a], a, r)
      <4>1. From(r) <= a /\ (h.tags[a].split_left = NULL <=> a = From(r))
        BY <3>2 DEF InRun
      <4>2. b + h.tags[b].real_size <= Upto(r) /\ (nb = NULL <=> b + h.tags[b].real_size = Upto(r))
        BY <3>3, <3>7 DEF InRun, nb
      <4> QED  BY <4>1, <4>2, <3>1, <3>8 DEF InRun
    <3>10. TagSize <= h.tags[a].real_size + h.tags[b].real_size
      BY <1>0, <1>2, SMTT(20), SMTT(30)
    <3> QED  BY <2>2, <3>1, <3>9, <3>10, <1>1
  <2> QED  BY <2>1, <2>2
<1>5. ASSUME NEW t \in DOMAIN g.tags, g.tags[t].split_right # NULL
      PROVE  /\ g.tags[t].split_right = t + g.tags[t].real_size
             /\ g.tags[g.tags[t].split_right].split_left = t
  <2>1. CASE t = a
    <3>1. nb # NULL /\ nb \in D \ {b} /\ g.tags[t].split_right = nb
      BY <2>1, <1>0, <1>1, <1>3, <1>5
    <3>2. nb = a + (h.tags[a].real_size + h.tags[b].real_size)
      BY <3>1, <1>0, <1>2, SMTT(20), SMTT(30)
    <3> QED  BY <2>1, <3>1, <3>2, <1>1
  <2>2. CASE t # a
    <3> DEFINE x == h.tags[t].split_right
    <3>1. t \in D /\ g.tags[t].split_right = x /\ g.tags[t].real_size = h.tags[t].real_size
      BY <2>2, <1>1
    <3>2. x # NULL /\ x = t + h.tags[t].real_size /\ h.tags[x].split_left = t /\ x \in D
      BY <3>1, <1>0, <1>5 DEF Tiled
    <3> HIDE DEF x
    <3>3. x # b /\ x # nb
      BY <3>1, <3>2, <2>2, <1>1, <1>2
    <3>4. g.tags[x].split_left = t
      BY <3>2, <3>3, <1>1
    <3> QED  BY <3>1, <3>2, <3>4
  <2> QED  BY <2>1, <2>2
<1>6. ASSUME NEW t \in DOMAIN g.tags, g.tags[t].split_left # NULL
      PROVE  g.tags[g.tags[t].split_left].split_right = t
  <2>1. CASE t = nb
    <3>1. g.tags[t].split_left = a /\ g.tags[a].split_right = nb
      BY <2>1, <1>1, <1>3
    <3> QED  BY <2>1, <3>1
  <2>2. CASE t # nb
    <3> DEFINE x == h.tags[t].split_left
    <3>1. t \in D /\ t # b /\ g.tags[t].split_left = x
      BY <2>2, <1>1
    <3>2. x # NULL /\ x \in D /\ h.tags[x].split_right = t
      BY <3>1, <1>0, <1>6 DEF Tiled
    <3> HIDE DEF x
    <3>3. x # b /\ x # a
      BY <3>1, <3>2, <2>2 DEF nb
    <3> QED  BY <3>1, <3>2, <3>3, <1>1
  <2> QED  BY <2>1, <2>2
<1>7. ASSUME NEW t \in DOMAIN g.tags, NEW u \in DOMAIN g.tags, t # u
      PROVE  Before(g.tags, t, u) \/ Before(g.tags, u, t)
  <2>0. /\ t \in D /\ u \in D /\ t # b /\ u # b
        /\ t \in Nat /\ u \in Nat /\ h.tags[t].real_size \in Nat /\ h.tags[u].real_size \in Nat
        /\ a \in Nat /\ b \in Nat /\ h.tags[a].real_size \in Nat /\ h.tags[b].real_size \in Nat
    BY <1>0, <1>1
  <2>1. \A x, y \in D : x # y => x + h.tags[x].real_size <= y \/ y + h.tags[y].real_size <= x
    BY DEF Tiled, Before
  <2>2. CASE t = a
    <3>1. u # a /\ g.tags[u].real_size = h.tags[u].real_size
          /\ g.tags[a].real_size = h.tags[a].real_size + h.tags[b].real_size
      BY <2>0, <2>2, <1>1, <1>3, <1>7
    <3>2. b + h.tags[b].real_size <= u \/ u + h.tags[u].real_size <= b
      BY <2>0, <2>1
    <3>3. a + h.tags[a].real_size <= u \/ u + h.tags[u].real_size <= a
      BY <2>0, <2>1, <3>1
    <3>4. h.tags[u].real_size > 0
      BY <2>0, <1>0, <1>2, SMTT(20), SMTT(30)
    <3> QED  BY <2>0, <2>2, <3>1, <3>2, <3>3, <3>4, <1>2, SMTT(20), SMTT(30) DEF Before
  <2>3. CASE u = a
    <3>1. t # a /\ g.tags[t].real_size = h.tags[t].real_size
          /\ g.tags[a].real_size = h.tags[a].real_size + h.tags[b].real_size
      BY <2>0, <2>3, <1>1, <1>3, <1>7
    <3>2. b + h.tags[b].real_size <= t \/ t + h.tags[t].real_size <= b
      BY <2>0, <2>1
    <3>3. a + h.tags[a].real_size <= t \/ t + h.tags[t].real_size <= a
      BY <2>0, <2>1, <3>1
    <3>4. h.tags[t].real_size > 0
      BY <2>0, <1>0, <1>2, SMTT(20), SMTT(30)
    <3> QED  BY <2>0, <2>3, <3>1, <3>2, <3>3, <3>4, <1>2, SMTT(20), SMTT(30) DEF Before
  <2>4. CASE t # a /\ u # a
    <3>1. g.tags[t].real_size = h.tags[t].real_size /\ g.tags[u].real_size = h.tags[u].real_size
      BY <2>0, <2>4, <1>1
    <3> QED  BY <2>0, <2>1, <3>1, <1>7 DEF Before
  <2> QED  BY <2>2, <2>3, <2>4
<1>8. ASSUME NEW r \in g.runs
      PROVE  /\ From(r) \in DOMAIN g.tags /\ g.tags[From(r)].split_left = NULL
             /\ r.pages >= PageCount
  <2>1. From(r) \in D /\ h.tags[From(r)].split_left = NULL /\ r.pages >= PageCount
    BY <1>1 DEF Tiled
  <2>2. From(r) # b /\ From(r) # nb
    BY <2>1, <1>0, <1>2
  <2> QED  BY <2>1, <2>2, <1>1
<1>9. \A r, s \in g.runs : r # s => r.page + r.pages <= s.page \/ s.page + s.pages <= r.page
  BY <1>1 DEF Tiled
<1> QED  BY <1>4, <1>5, <1>6, <1>7, <1>8, <1>9 DEF Tiled

\* No two neighbours are both free.
Parted(h) ==
  \A t \in DOMAIN h.tags : h.tags[t].split_right # NULL =>
    h.tags[t].index = -1 \/ h.tags[h.tags[t].split_right].index = -1

\* A free block is in the list of its own exponent.
Indexed(h) == \A t \in DOMAIN h.tags : h.tags[t].index # -1 => h.tags[t].index = index_of(h, t)

\* f is what callers hold: each block that is not free and not in `out' belongs
\* to one pointer and has room for what was asked for.  The blocks in `out' are
\* in the hands of malloc or free.
Owned(h, f, out) ==
  /\ f = [p \in DOMAIN f |-> f[p]]
  /\ out \subseteq DOMAIN h.tags
  /\ \A t \in out : h.tags[t].index = -1
  /\ \A p \in DOMAIN f : /\ p \in Int /\ p - TagSize \in DOMAIN h.tags \ out
                         /\ h.tags[p - TagSize].index = -1
                         /\ h.tags[p - TagSize].size = f[p] /\ f[p] \in Sizes
                         /\ TagSize + f[p] <= h.tags[p - TagSize].real_size
  /\ \A t \in DOMAIN h.tags \ out : h.tags[t].index = -1 => t + TagSize \in DOMAIN f

\* The allocator is sound, with the blocks `out' in hand.
Sound(h, f, out) ==
  Typed(h) /\ Filed(h) /\ Tiled(h) /\ Parted(h) /\ Indexed(h) /\ Owned(h, f, out)

\* The neighbours a and b have become one block in hand, a, and the lists are in
\* order.
Fused(h, g, a, b) ==
  /\ Typed(g) /\ Filed(g) /\ Tiled(g)
  /\ SameBut(h, g, {"tags", "l_freePages"})
  /\ DOMAIN g.tags = DOMAIN h.tags \ {b}
  /\ \A u \in DOMAIN g.tags :
       /\ g.tags[u].size = h.tags[u].size
       /\ g.tags[u].index = IF u = a THEN -1 ELSE h.tags[u].index
       /\ g.tags[u].real_size = IF u = a THEN h.tags[a].real_size + h.tags[b].real_size
                                ELSE h.tags[u].real_size
       /\ g.tags[u].split_right = IF u = a THEN h.tags[b].split_right ELSE h.tags[u].split_right
       /\ g.tags[u].split_left = IF u = h.tags[b].split_right THEN a ELSE h.tags[u].split_left

\* The right neighbour is at a higher address.
LEMMA RightBeyond ==
  ASSUME NEW h, Typed(h), Tiled(h), NEW t \in DOMAIN h.tags, h.tags[t].split_right # NULL
  PROVE  h.tags[t].split_right > t
<1>1. h.tags[t].split_right = t + h.tags[t].real_size /\ TagSize <= h.tags[t].real_size
  BY DEF Tiled
<1>2. t \in Nat /\ h.tags[t].real_size \in Nat /\ TagSize \in Nat /\ TagSize > 0
  BY Sizing DEF Typed, TagType
<1> QED  BY <1>1, <1>2, SMTT(20), SMTT(30)

\* Joining a block that is in no list leaves the lists as they are.
LEMMA FusesFiled ==
  ASSUME NEW h, Typed(h), Filed(h), NEW a, NEW b \in DOMAIN h.tags, h.tags[b].index = -1,
         NEW g, Fuses(h, g, a, b)
  PROVE  Filed(g)
<1>1. g.l_freePages = h.l_freePages
  BY DEF Fuses, SameBut, Fields
<1>2. \A u \in DOMAIN h.tags : u \in DOMAIN g.tags \/ h.tags[u].index = -1
  BY DEF Fuses
<1>3. \A u \in DOMAIN g.tags :
        IF u \in DOMAIN h.tags
        THEN /\ g.tags[u].index = h.tags[u].index
             /\ g.tags[u].next = h.tags[u].next /\ g.tags[u].prev = h.tags[u].prev
        ELSE g.tags[u].index = -1 /\ g.tags[u].next = NULL /\ g.tags[u].prev = NULL
  BY DEF Fuses
<1> QED  BY <1>1, <1>2, <1>3, FiledFrame

\* An iteration of the first loop of free: melt_left, then the left neighbour
\* is removed from its list.
LEMMA MeltFuses ==
  ASSUME NEW h, Typed(h), Filed(h), Tiled(h), NEW t \in DOMAIN h.tags, h.tags[t].index = -1,
         NEW left, left = h.tags[t].split_left, left # NULL, h.tags[left].index >= 0
  PROVE  Fused(h, remove_tag(melt_left(h, t), left), left, t)
<1> DEFINE m == melt_left(h, t)
           g == remove_tag(m, left)
<1>1. left \in DOMAIN h.tags /\ h.tags[left].split_right = t /\ h.tags[left].index \in Exponents
  BY SMTT(20), SMTT(30) DEF Typed, TagType, Tiled
<1>2. m = fuse(h, left, t)
  BY DEF melt_left, fuse
<1> HIDE DEF m
<1>3. Fuses(h, m, left, t)
  <2>1. Fuses(h, fuse(h, left, t), left, t)
    BY <1>1, FuseFields
  <2> QED  BY <1>2, <2>1
<1>4. Typed(m) /\ Filed(m) /\ Tiled(m)
  <2>1. Typed(m)
    BY <1>3 DEF Fuses
  <2>2. Filed(m)
    BY <1>1, <1>3, FusesFiled
  <2>3. Tiled(m)
    BY <1>1, <1>3, FusedTiled
  <2> QED  BY <2>1, <2>2, <2>3
<1>a. left # t
  BY <1>1, SMTT(20), SMTT(30) DEF Typed
<1>5. left \in DOMAIN m.tags /\ m.tags[left].index \in Exponents
  BY <1>1, <1>3, <1>a DEF Fuses
<1>6. Refiled(m, g, left, -1)
  BY <1>4, <1>5, RemoveRefiles
<1> HIDE DEF g
<1>7. Typed(g) /\ Filed(g) /\ SameBlocks(m, g) /\ g.runs = m.runs
  BY <1>6 DEF Refiled, SameBut, Fields
<1>8. Tiled(g)
  BY <1>4, <1>7, TiledFrame
<1>9. SameBut(h, g, {"tags", "l_freePages"})
  BY <1>3, <1>6 DEF Refiled, Fuses, SameBut
<1>10. Fused(h, g, left, t)
  <2>1. /\ DOMAIN g.tags = DOMAIN m.tags
        /\ \A u \in DOMAIN m.tags :
             /\ g.tags[u].size = m.tags[u].size /\ g.tags[u].real_size = m.tags[u].real_size
             /\ g.tags[u].split_left = m.tags[u].split_left
             /\ g.tags[u].split_right = m.tags[u].split_right
             /\ g.tags[u].index = IF u = left THEN -1 ELSE m.tags[u].index
    BY <1>6 DEF Refiled, SameBlocks, SameBlock
  <2>2. /\ DOMAIN m.tags = DOMAIN h.tags \ {t}
        /\ \A u \in DOMAIN m.tags :
             /\ m.tags[u].size = h.tags[u].size
             /\ m.tags[u].index = h.tags[u].index
             /\ m.tags[u].real_size = IF u = left THEN h.tags[left].real_size + h.tags[t].real_size
                                      ELSE h.tags[u].real_size
             /\ m.tags[u].split_right = IF u = left THEN h.tags[t].split_right ELSE h.tags[u].split_right
             /\ m.tags[u].split_left = IF u = h.tags[t].split_right THEN left ELSE h.tags[u].split_left
    BY <1>3 DEF Fuses
  <2>3. ASSUME NEW u \in DOMAIN g.tags
        PROVE  /\ g.tags[u].size = h.tags[u].size
               /\ g.tags[u].index = IF u = left THEN -1 ELSE h.tags[u].index
               /\ g.tags[u].real_size = IF u = left THEN h.tags[left].real_size + h.tags[t].real_size
                                        ELSE h.tags[u].real_size
               /\ g.tags[u].split_right = IF u = left THEN h.tags[t].split_right ELSE h.tags[u].split_right
               /\ g.tags[u].split_left = IF u = h.tags[t].split_right THEN left ELSE h.tags[u].split_left
    <3>1. u \in DOMAIN m.tags
      BY <2>1
    <3>2. /\ g.tags[u].size = m.tags[u].size /\ g.tags[u].real_size = m.tags[u].real_size
          /\ g.tags[u].split_left = m.tags[u].split_left
          /\ g.tags[u].split_right = m.tags[u].split_right
          /\ g.tags[u].index = IF u = left THEN -1 ELSE m.tags[u].index
      BY <3>1, <2>1
    <3>3. /\ m.tags[u].size = h.tags[u].size
          /\ m.tags[u].index = h.tags[u].index
          /\ m.tags[u].real_size = IF u = left THEN h.tags[left].real_size + h.tags[t].real_size
                                   ELSE h.tags[u].real_size
          /\ m.tags[u].split_right = IF u = left THEN h.tags[t].split_right ELSE h.tags[u].split_right
          /\ m.tags[u].split_left = IF u = h.tags[t].split_right THEN left ELSE h.tags[u].split_left
      BY <3>1, <2>2
    <3> QED  BY <3>2, <3>3, SMTT(20), SMTT(30)
  <2> QED  BY <2>1, <2>2, <2>3, <1>7, <1>8, <1>9 DEF Fused
<1> QED  BY <1>10 DEF g, m

\* An iteration of the second loop of free: absorb_right.
LEMMA AbsorbFuses ==
  ASSUME NEW h, Typed(h), Filed(h), Tiled(h), NEW t \in DOMAIN h.tags, h.tags[t].index = -1,
         NEW r, r = h.tags[t].split_right, r # NULL, h.tags[r].index >= 0
  PROVE  Fused(h, absorb_right(h, t), t, r)
<1> DEFINE k == remove_tag(h, r)
           g == fuse(k, t, r)
<1>1. r \in DOMAIN h.tags /\ h.tags[r].index \in Exponents /\ r # t
  BY SMTT(20), SMTT(30) DEF Typed, TagType
<1>2. Refiled(h, k, r, -1)
  BY <1>1, RemoveRefiles
<1>3. absorb_right(h, t) = g
  <2>1. k.tags[r].split_right = h.tags[r].split_right /\ k.tags[r].real_size = h.tags[r].real_size
    BY <1>1, <1>2 DEF Refiled, SameBlocks, SameBlock
  <2>2. absorb_right(h, t) =
          LET h2   == IF h.tags[r].split_right = NULL THEN k
                      ELSE [k EXCEPT !.tags[h.tags[r].split_right].split_left = t]
              tags == [h2.tags EXCEPT ![t].real_size = @ + h.tags[r].real_size,
                                      ![t].split_right = h.tags[r].split_right]
          IN  [h2 EXCEPT !.tags = without(tags, r)]
    BY DEF absorb_right
  <2> HIDE DEF k
  <2> QED  BY <2>1, <2>2 DEF fuse
<1> HIDE DEF k
<1>4. Typed(k) /\ Filed(k) /\ SameBlocks(h, k) /\ k.runs = h.runs
  BY <1>2 DEF Refiled, SameBut, Fields
<1>5. Tiled(k)
  BY <1>4, TiledFrame
<1>6. t \in DOMAIN k.tags /\ r \in DOMAIN k.tags /\ k.tags[t].split_right = r /\ k.tags[r].index = -1
  BY <1>1, <1>2 DEF Refiled, SameBlocks, SameBlock
<1>7. Fuses(k, g, t, r)
  BY <1>4, <1>5, <1>6, FuseFields
<1> HIDE DEF g
<1>8. Typed(g) /\ Filed(g) /\ Tiled(g)
  <2>1. Typed(g)
    BY <1>7 DEF Fuses
  <2>2. Filed(g)
    BY <1>4, <1>6, <1>7, FusesFiled
  <2>3. Tiled(g)
    BY <1>4, <1>5, <1>6, <1>7, FusedTiled
  <2> QED  BY <2>1, <2>2, <2>3
<1>9. SameBut(h, g, {"tags", "l_freePages"})
  BY <1>2, <1>7 DEF Refiled, Fuses, SameBut
<1>10. Fused(h, g, t, r)
  <2>1. /\ DOMAIN k.tags = DOMAIN h.tags
        /\ \A u \in DOMAIN h.tags :
             /\ k.tags[u].size = h.tags[u].size /\ k.tags[u].real_size = h.tags[u].real_size
             /\ k.tags[u].split_left = h.tags[u].split_left
             /\ k.tags[u].split_right = h.tags[u].split_right
             /\ u # r => k.tags[u].index = h.tags[u].index
    BY <1>2 DEF Refiled, SameBlocks, SameBlock
  <2>2. /\ DOMAIN g.tags = DOMAIN h.tags \ {r}
        /\ \A u \in DOMAIN g.tags :
             /\ g.tags[u].size = k.tags[u].size
             /\ g.tags[u].index = k.tags[u].index
             /\ g.tags[u].real_size = IF u = t THEN k.tags[t].real_size + k.tags[r].real_size
                                      ELSE k.tags[u].real_size
             /\ g.tags[u].split_right = IF u = t THEN k.tags[r].split_right ELSE k.tags[u].split_right
             /\ g.tags[u].split_left = IF u = k.tags[r].split_right THEN t ELSE k.tags[u].split_left
    BY <1>7, <2>1 DEF Fuses
  <2>3. ASSUME NEW u \in DOMAIN g.tags
        PROVE  /\ g.tags[u].size = h.tags[u].size
               /\ g.tags[u].index = IF u = t THEN -1 ELSE h.tags[u].index
               /\ g.tags[u].real_size = IF u = t THEN h.tags[t].real_size + h.tags[r].real_size
                                        ELSE h.tags[u].real_size
               /\ g.tags[u].split_right = IF u = t THEN h.tags[r].split_right ELSE h.tags[u].split_right
               /\ g.tags[u].split_left = IF u = h.tags[r].split_right THEN t ELSE h.tags[u].split_left
    <3>1. u \in DOMAIN h.tags /\ u # r
      BY <2>2
    <3>2. /\ k.tags[u].size = h.tags[u].size /\ k.tags[u].real_size = h.tags[u].real_size
          /\ k.tags[u].split_left = h.tags[u].split_left
          /\ k.tags[u].split_right = h.tags[u].split_right
          /\ k.tags[u].index = h.tags[u].index
      BY <3>1, <2>1
    <3>3. /\ k.tags[t].real_size = h.tags[t].real_size /\ k.tags[r].real_size = h.tags[r].real_size
          /\ k.tags[r].split_right = h.tags[r].split_right
      BY <1>1, <2>1
    <3>4. /\ g.tags[u].size = k.tags[u].size
          /\ g.tags[u].index = k.tags[u].index
          /\ g.tags[u].real_size = IF u = t THEN k.tags[t].real_size + k.tags[r].real_size
                                   ELSE k.tags[u].real_size
          /\ g.tags[u].split_right = IF u = t THEN k.tags[r].split_right ELSE k.tags[u].split_right
          /\ g.tags[u].split_left = IF u = k.tags[r].split_right THEN t ELSE k.tags[u].split_left
      BY <2>2
    <3> QED  BY <3>2, <3>3, <3>4, SMTT(20), SMTT(30)
  <2> QED  BY <2>2, <2>3, <1>8, <1>9 DEF Fused
<1> QED  BY <1>3, <1>10

\* Joining the block in hand with a free neighbour keeps the allocator sound.
LEMMA FusedSound ==
  ASSUME NEW h, NEW f, NEW x, Sound(h, f, {x}), NEW a \in DOMAIN h.tags, NEW b \in DOMAIN h.tags,
         NEW g, Fused(h, g, a, b), a # b,
         (x = a /\ h.tags[b].index # -1) \/ (x = b /\ h.tags[a].index # -1)
  PROVE  Sound(g, f, {a})
<1>1. /\ Typed(g) /\ Filed(g) /\ Tiled(g)
      /\ DOMAIN g.tags = DOMAIN h.tags \ {b}
  BY DEF Fused
<1>2. \A u \in DOMAIN g.tags :
        /\ u \in DOMAIN h.tags /\ u # b
        /\ g.tags[u].index = IF u = a THEN -1 ELSE h.tags[u].index
        /\ u # a => /\ g.tags[u].size = h.tags[u].size
                    /\ g.tags[u].real_size = h.tags[u].real_size
                    /\ g.tags[u].split_right = h.tags[u].split_right
  BY <1>1 DEF Fused
<1>3. Parted(g)
  <2> SUFFICES ASSUME NEW u \in DOMAIN g.tags, g.tags[u].split_right # NULL
               PROVE  g.tags[u].index = -1 \/ g.tags[g.tags[u].split_right].index = -1
    BY DEF Parted
  <2>1. g.tags[u].split_right \in DOMAIN g.tags
    BY <1>1 DEF Typed, TagType
  <2>2. u # a => h.tags[u].index = -1 \/ h.tags[h.tags[u].split_right].index = -1
    BY <1>2 DEF Sound, Parted
  <2> QED  BY <2>1, <2>2, <1>2
<1>4. Indexed(g)
  BY <1>2 DEF Sound, Indexed, index_of
<1>5. Owned(g, f, {a})
  <2>1. \A p \in DOMAIN f : p - TagSize \in DOMAIN h.tags /\ p - TagSize # a /\ p - TagSize # b
    BY DEF Sound, Owned
  <2>2. \A p \in DOMAIN f : /\ p \in Int /\ p - TagSize \in DOMAIN g.tags \ {a}
                            /\ g.tags[p - TagSize].index = -1
                            /\ g.tags[p - TagSize].size = f[p] /\ f[p] \in Sizes
                            /\ TagSize + f[p] <= g.tags[p - TagSize].real_size
    BY <2>1, <1>1, <1>2 DEF Sound, Owned
  <2>3. \A t \in DOMAIN g.tags \ {a} : g.tags[t].index = -1 => t + TagSize \in DOMAIN f
    <3> TAKE t \in DOMAIN g.tags \ {a}
    <3> HAVE g.tags[t].index = -1
    <3>1. t \in DOMAIN h.tags \ {x} /\ h.tags[t].index = -1
      BY <1>2
    <3> QED  BY <3>1 DEF Sound, Owned
  <2>4. a \in DOMAIN g.tags /\ g.tags[a].index = -1
    BY <1>1, <1>2
  <2>5. f = [p \in DOMAIN f |-> f[p]]
    BY DEF Sound, Owned
  <2> QED  BY <2>2, <2>3, <2>4, <2>5 DEF Owned
<1> QED  BY <1>1, <1>3, <1>4, <1>5 DEF Sound

\* The neighbour on that side, if any, is not free.
LeftHeld(h, t)  == h.tags[t].split_left # NULL => h.tags[h.tags[t].split_left].index = -1

RightHeld(h, t) == h.tags[t].split_right # NULL => h.tags[h.tags[t].split_right].index = -1

\* The block a is in hand, and its left neighbour is not free.
Melted(h, g, f, a) == Sound(g, f, {a}) /\ LeftHeld(g, a)

\* After one iteration of the first loop its condition is false: the left
\* neighbour of a free block is never free itself.
LEMMA MeltOnce ==
  ASSUME NEW h, NEW f, NEW t, Sound(h, f, {t}),
         NEW left, left = h.tags[t].split_left, left # NULL, h.tags[left].index >= 0
  PROVE  LET g == remove_tag(melt_left(h, t), left)
         IN  /\ Fused(h, g, left, t) /\ left \in DOMAIN h.tags /\ h.tags[left].split_right = t
             /\ Melted(h, g, f, left)
<1> DEFINE g == remove_tag(melt_left(h, t), left)
<1>1. Typed(h) /\ Filed(h) /\ Tiled(h) /\ Parted(h) /\ t \in DOMAIN h.tags /\ h.tags[t].index = -1
  BY DEF Sound, Owned
<1>2. Fused(h, g, left, t)
  BY <1>1, MeltFuses
<1> HIDE DEF g
<1>3. /\ left \in DOMAIN h.tags /\ h.tags[left].split_right = t /\ left # t
      /\ h.tags[left].index # -1 /\ NULL \notin DOMAIN h.tags
  BY <1>1, SMTT(20), SMTT(30) DEF Typed, TagType, Tiled
<1>4. Sound(g, f, {left})
  BY <1>1, <1>2, <1>3, FusedSound
<1>5. LeftHeld(g, left)
  <2> DEFINE y == g.tags[left].split_left
  <2> SUFFICES ASSUME y # NULL PROVE g.tags[y].index = -1
    BY DEF LeftHeld
  <2>a. left \in DOMAIN g.tags
    BY <1>2, <1>3 DEF Fused
  <2>1. y \in DOMAIN g.tags /\ left \in DOMAIN g.tags
    BY <2>a, <1>2, NeighboursAreTags DEF Fused
  <2>2. y = h.tags[left].split_left
    <3>1. left # h.tags[t].split_right
      <4>1. h.tags[t].split_right # NULL => h.tags[t].split_right > t
        BY <1>1, RightBeyond
      <4>2. t > left /\ t \in Nat /\ left \in Nat
        <5>1. h.tags[left].split_right > left
          BY <1>1, <1>3, RightBeyond
        <5> QED  BY <5>1, <1>1, <1>3 DEF Typed
      <4> QED  BY <4>1, <4>2, SMTT(20), SMTT(30)
    <3> QED  BY <3>1, <2>1, <1>2 DEF Fused
  <2> HIDE DEF y
  <2>3. h.tags[y].split_right = left
    BY <2>2, <1>1, <1>3 DEF Tiled
  <2>4. h.tags[y].index = -1
    BY <2>1, <2>3, <1>1, <1>2, <1>3, SMTT(20), SMTT(30) DEF Parted, Fused
  <2> QED  BY <2>1, <2>4, <1>2 DEF Fused
<1> QED  BY <1>2, <1>3, <1>4, <1>5 DEF Melted, g

\* The block a is in hand, and neither neighbour is free.
Absorbed(h, g, f, a) == Sound(g, f, {a}) /\ LeftHeld(g, a) /\ RightHeld(g, a)

\* After one iteration of the second loop its condition is false as well.
LEMMA AbsorbOnce ==
  ASSUME NEW h, NEW f, NEW t, Sound(h, f, {t}), LeftHeld(h, t),
         NEW r, r = h.tags[t].split_right, r # NULL, h.tags[r].index >= 0
  PROVE  /\ Fused(h, absorb_right(h, t), t, r) /\ r \in DOMAIN h.tags
         /\ Absorbed(h, absorb_right(h, t), f, t)
<1> DEFINE g == absorb_right(h, t)
<1>1. Typed(h) /\ Filed(h) /\ Tiled(h) /\ Parted(h) /\ t \in DOMAIN h.tags /\ h.tags[t].index = -1
  BY DEF Sound, Owned
<1>2. Fused(h, g, t, r)
  BY <1>1, AbsorbFuses
<1> HIDE DEF g
<1>3. r \in DOMAIN h.tags /\ r # t /\ h.tags[r].index # -1 /\ NULL \notin DOMAIN h.tags
  BY <1>1, SMTT(20), SMTT(30) DEF Typed, TagType
<1>4. Sound(g, f, {t})
  BY <1>1, <1>2, <1>3, FusedSound
<1>a. t \in DOMAIN g.tags
  BY <1>2, <1>3, <1>1 DEF Fused
<1>5. RightHeld(g, t)
  <2> DEFINE z == h.tags[r].split_right
  <2>1. g.tags[t].split_right = z
    BY <1>2, <1>a DEF Fused
  <2>2. z # NULL => z \in DOMAIN g.tags
    BY <2>1, <1>2, <1>a, NeighboursAreTags DEF Fused
  <2>3. z # NULL => h.tags[z].index = -1
    BY <1>1, <1>3 DEF Parted
  <2> QED  BY <2>1, <2>2, <2>3, <1>2 DEF Fused, RightHeld
<1>6. LeftHeld(g, t)
  <2> DEFINE y == g.tags[t].split_left
  <2> SUFFICES ASSUME y # NULL PROVE g.tags[y].index = -1
    BY DEF LeftHeld
  <2>1. y \in DOMAIN g.tags
    BY <1>2, <1>a, NeighboursAreTags DEF Fused
  <2>2. t # h.tags[r].split_right
    <3>1. h.tags[r].split_right # NULL => h.tags[r].split_right > r
      BY <1>1, <1>3, RightBeyond
    <3>2. r > t /\ t \in Nat /\ r \in Nat
      <4>1. h.tags[t].split_right > t
        BY <1>1, RightBeyond
      <4> QED  BY <4>1, <1>1, <1>3 DEF Typed
    <3> QED  BY <3>1, <3>2, <1>1, <1>3, SMTT(20), SMTT(30)
  <2>3. y = h.tags[t].split_left
    BY <2>2, <1>2, <1>a DEF Fused
  <2> HIDE DEF y
  <2>4. h.tags[y].index = -1
    BY <2>3 DEF LeftHeld
  <2> QED  BY <2>1, <2>4, <1>2 DEF Fused
<1> QED  BY <1>2, <1>3, <1>4, <1>5, <1>6 DEF Absorbed, g

\* The whole runs in the free list of e.
CompleteSet(h, e) == {t \in DOMAIN h.tags : Whole(h.tags[t]) /\ h.tags[t].index = e}

\* The whole runs that stand by, and their counts, are what they were.
Kept(h, g) ==
  /\ g.l_completePages = h.l_completePages
  /\ \A e \in Exponents : CompleteSet(g, e) = CompleteSet(h, e)

\* Joining neighbours concerns no whole run.
LEMMA FusedKept ==
  ASSUME NEW h, Typed(h), Tiled(h), NEW a \in DOMAIN h.tags, NEW b \in DOMAIN h.tags,
         h.tags[a].split_right = b, NEW g, Fused(h, g, a, b)
  PROVE  Kept(h, g)
<1>0. NULL \notin DOMAIN h.tags /\ -1 \notin Exponents
  BY ExponentsAre, SMTT(20), SMTT(30) DEF Typed
<1>1. /\ DOMAIN g.tags = DOMAIN h.tags \ {b} /\ g.l_completePages = h.l_completePages
      /\ g.tags[a].index = -1 \/ a = b
      /\ \A u \in DOMAIN g.tags : u # a =>
           /\ g.tags[u].index = h.tags[u].index
           /\ g.tags[u].split_right = h.tags[u].split_right
           /\ g.tags[u].split_left = IF u = h.tags[b].split_right THEN a ELSE h.tags[u].split_left
  BY DEF Fused, SameBut, Fields
<1>2. h.tags[b].split_left = a
  BY <1>0 DEF Tiled
<1>3. \A u \in DOMAIN h.tags : u = h.tags[b].split_right => h.tags[u].split_left = b
  BY <1>0 DEF Tiled
<1>4. ~ Whole(h.tags[a]) /\ ~ Whole(h.tags[b])
  BY <1>0, <1>2 DEF Whole
<1>5. \A u \in DOMAIN g.tags : u # a => (Whole(g.tags[u]) <=> Whole(h.tags[u]))
  BY <1>0, <1>1, <1>3, SMTT(20), SMTT(30) DEF Whole
<1>6. ASSUME NEW e \in Exponents
      PROVE  CompleteSet(g, e) = CompleteSet(h, e)
  BY <1>0, <1>1, <1>4, <1>5, SMTT(20), SMTT(30) DEF CompleteSet
<1> QED  BY <1>1, <1>6 DEF Kept

\* The counts have no part in soundness.
LEMMA SoundFrame ==
  ASSUME NEW h, NEW f, NEW out, Sound(h, f, out), NEW g, Typed(g),
         g.tags = h.tags, g.l_freePages = h.l_freePages, g.runs = h.runs
  PROVE  Sound(g, f, out)
<1>1. Filed(g)
  BY SMTT(20), SMTT(30) DEF Sound, Filed, ListOf
<1>2. Tiled(g)
  BY DEF Sound, Tiled
<1>3. Parted(g) /\ Owned(g, f, out)
  BY DEF Sound, Parted, Owned
<1>4. Indexed(g)
  BY DEF Sound, Indexed, index_of
<1> QED  BY <1>1, <1>2, <1>3, <1>4 DEF Sound

\* g differs from h in one count.
Tallies(h, g, e, x) ==
  /\ Typed(g)
  /\ SameBut(h, g, {"l_completePages"})
  /\ g.l_completePages = [h.l_completePages EXCEPT ![e] = x]

\* Assigning to l_completePages[e] changes nothing else.
LEMMA SetTally ==
  ASSUME NEW h, Typed(h), NEW e \in Exponents, NEW x \in Int,
         NEW g, g = [h EXCEPT !.l_completePages[e] = x]
  PROVE  Tallies(h, g, e, x)
<1>1. g.l_completePages = [h.l_completePages EXCEPT ![e] = x]
  BY DEF Typed, Fields
<1>2. [h.l_completePages EXCEPT ![e] = x] \in [Exponents -> Int]
  BY DEF Typed
<1>3. SameBut(h, g, {"l_completePages"})
  BY DEF Typed, Fields, SameBut
<1>4. Typed(g)
  BY <1>1, <1>2, <1>3 DEF Typed, Fields, SameBut
<1> QED  BY <1>1, <1>3, <1>4 DEF Tallies

\* Moving a block between lists leaves the blocks as they are.
LEMMA RefiledSame ==
  ASSUME NEW h, Typed(h), Tiled(h), NEW t, NEW e, NEW g, Refiled(h, g, t, e)
  PROVE  /\ Tiled(g) /\ DOMAIN g.tags = DOMAIN h.tags /\ g.l_completePages = h.l_completePages
         /\ \A b \in DOMAIN h.tags :
              /\ g.tags[b].index = IF b = t THEN e ELSE h.tags[b].index
              /\ g.tags[b].size = h.tags[b].size /\ g.tags[b].real_size = h.tags[b].real_size
              /\ g.tags[b].split_left = h.tags[b].split_left
              /\ g.tags[b].split_right = h.tags[b].split_right
              /\ Whole(g.tags[b]) <=> Whole(h.tags[b])
              /\ index_of(g, b) = index_of(h, b)
<1>1. SameBlocks(h, g) /\ g.runs = h.runs /\ g.l_completePages = h.l_completePages
  BY DEF Refiled, SameBut, Fields
<1>2. Tiled(g)
  BY <1>1, TiledFrame
<1>3. /\ DOMAIN g.tags = DOMAIN h.tags
      /\ \A b \in DOMAIN h.tags :
           /\ g.tags[b].index = IF b = t THEN e ELSE h.tags[b].index
           /\ g.tags[b].size = h.tags[b].size /\ g.tags[b].real_size = h.tags[b].real_size
           /\ g.tags[b].split_left = h.tags[b].split_left
           /\ g.tags[b].split_right = h.tags[b].split_right
  BY <1>1 DEF Refiled, SameBlocks, SameBlock
<1> QED  BY <1>1, <1>2, <1>3 DEF Whole, index_of

\* The block in hand becomes free, in the list of its exponent.
LEMMA FileSound ==
  ASSUME NEW h, NEW f, NEW out, Sound(h, f, out), NEW t \in out, LeftHeld(h, t), RightHeld(h, t),
         NEW g, Refiled(h, g, t, index_of(h, t)), index_of(h, t) \in Exponents
  PROVE  Sound(g, f, out \ {t})
<1> DEFINE e == index_of(h, t)
<1>0. Typed(h) /\ Tiled(h) /\ Parted(h) /\ t \in DOMAIN h.tags /\ -1 \notin Exponents
  BY ExponentsAre, SMTT(20), SMTT(30) DEF Sound, Owned
<1>1. /\ Tiled(g) /\ DOMAIN g.tags = DOMAIN h.tags
      /\ \A b \in DOMAIN h.tags :
           /\ g.tags[b].index = IF b = t THEN e ELSE h.tags[b].index
           /\ g.tags[b].size = h.tags[b].size /\ g.tags[b].real_size = h.tags[b].real_size
           /\ g.tags[b].split_left = h.tags[b].split_left
           /\ g.tags[b].split_right = h.tags[b].split_right
           /\ index_of(g, b) = index_of(h, b)
  BY <1>0, RefiledSame, SMTT(20), SMTT(30)
<1>2. Typed(g) /\ Filed(g)
  BY DEF Refiled
<1>3. Parted(g)
  <2> SUFFICES ASSUME NEW u \in DOMAIN h.tags, h.tags[u].split_right # NULL
               PROVE  g.tags[u].index = -1 \/ g.tags[h.tags[u].split_right].index = -1
    BY <1>1 DEF Parted
  <2> DEFINE v == h.tags[u].split_right
  <2>1. v \in DOMAIN h.tags /\ h.tags[v].split_left = u /\ u # v
    BY <1>0, RightBeyond, SMTT(20), SMTT(30) DEF Typed, TagType, Tiled
  <2>2. h.tags[u].index = -1 \/ h.tags[v].index = -1
    BY <1>0 DEF Parted
  <2>3. CASE u = t
    <3>1. h.tags[v].index = -1 /\ v # t
      BY <2>1, <2>3 DEF RightHeld
    <3> QED  BY <3>1, <2>1, <1>1
  <2>4. CASE v = t
    <3>1. h.tags[u].index = -1 /\ u # t
      <4>1. u # NULL
        BY <1>0 DEF Typed
      <4> QED  BY <4>1, <2>1, <2>4 DEF LeftHeld
    <3> QED  BY <3>1, <1>1
  <2>5. CASE u # t /\ v # t
    BY <2>1, <2>2, <2>5, <1>1
  <2> QED  BY <2>3, <2>4, <2>5
<1>4. Indexed(g)
  BY <1>1 DEF Sound, Indexed
<1>5. Owned(g, f, out \ {t})
  <2>1. \A p \in DOMAIN f : p - TagSize \in DOMAIN h.tags \ out /\ p - TagSize # t
    BY DEF Sound, Owned
  <2>0. /\ out \ {t} \subseteq DOMAIN g.tags
        /\ \A u \in out \ {t} : g.tags[u].index = -1
    BY <1>1 DEF Sound, Owned
  <2>2. \A p \in DOMAIN f : /\ p \in Int /\ p - TagSize \in DOMAIN g.tags \ (out \ {t})
                            /\ g.tags[p - TagSize].index = -1
                            /\ g.tags[p - TagSize].size = f[p] /\ f[p] \in Sizes
                            /\ TagSize + f[p] <= g.tags[p - TagSize].real_size
    BY <2>1, <1>1 DEF Sound, Owned
  <2>3. \A u \in DOMAIN g.tags \ (out \ {t}) : g.tags[u].index = -1 => u + TagSize \in DOMAIN f
    BY <1>0, <1>1 DEF Sound, Owned
  <2>4. f = [p \in DOMAIN f |-> f[p]]
    BY DEF Sound, Owned
  <2> QED  BY <2>0, <2>2, <2>3, <2>4 DEF Owned
<1> QED  BY <1>1, <1>2, <1>3, <1>4, <1>5 DEF Sound

\* A free block is taken in hand; its right neighbour is not free.
LEMMA TakeSound ==
  ASSUME NEW h, NEW f, Sound(h, f, {}), NEW t \in DOMAIN h.tags, h.tags[t].index # -1,
         NEW g, Refiled(h, g, t, -1)
  PROVE  Sound(g, f, {t}) /\ RightHeld(g, t)
<1>0. Typed(h) /\ Tiled(h) /\ Parted(h) /\ NULL \notin DOMAIN h.tags
  BY DEF Sound, Typed
<1>1. /\ Tiled(g) /\ DOMAIN g.tags = DOMAIN h.tags
      /\ \A b \in DOMAIN h.tags :
           /\ g.tags[b].index = IF b = t THEN -1 ELSE h.tags[b].index
           /\ g.tags[b].size = h.tags[b].size /\ g.tags[b].real_size = h.tags[b].real_size
           /\ g.tags[b].split_left = h.tags[b].split_left
           /\ g.tags[b].split_right = h.tags[b].split_right
           /\ index_of(g, b) = index_of(h, b)
  BY <1>0, RefiledSame, SMTT(20), SMTT(30)
<1>2. Typed(g) /\ Filed(g)
  BY DEF Refiled
<1>a. \A u \in DOMAIN h.tags : h.tags[u].split_right \in DOMAIN h.tags \cup {NULL}
  BY <1>0 DEF Typed, TagType
<1>3. Parted(g)
  BY <1>a, <1>0, <1>1, SMTT(20), SMTT(30) DEF Parted
<1>4. Indexed(g)
  BY <1>1 DEF Sound, Indexed
<1>5. Owned(g, f, {t})
  <2>1. \A p \in DOMAIN f : p - TagSize \in DOMAIN h.tags /\ p - TagSize # t
    BY DEF Sound, Owned
  <2>2. \A p \in DOMAIN f : /\ p \in Int /\ p - TagSize \in DOMAIN g.tags \ {t}
                            /\ g.tags[p - TagSize].index = -1
                            /\ g.tags[p - TagSize].size = f[p] /\ f[p] \in Sizes
                            /\ TagSize + f[p] <= g.tags[p - TagSize].real_size
    BY <2>1, <1>1, SMTT(20), SMTT(30) DEF Sound, Owned
  <2>3. \A u \in DOMAIN g.tags \ {t} : g.tags[u].index = -1 => u + TagSize \in DOMAIN f
    BY <1>1 DEF Sound, Owned
  <2>4. f = [p \in DOMAIN f |-> f[p]]
    BY DEF Sound, Owned
  <2> QED  BY <2>2, <2>3, <2>4, <1>1 DEF Owned
<1>6. RightHeld(g, t)
  BY <1>a, <1>0, <1>1, SMTT(20), SMTT(30) DEF Parted, RightHeld
<1> QED  BY <1>1, <1>2, <1>3, <1>4, <1>5, <1>6 DEF Sound

\* free begins: the block that the pointer names is in hand.
LEMMA ReleaseSound ==
  ASSUME NEW h, NEW f, Sound(h, f, {}), NEW p \in DOMAIN f
  PROVE  Sound(h, without(f, p), {p - TagSize})
<1> DEFINE f1 == without(f, p)
<1>1. DOMAIN f1 = DOMAIN f \ {p} /\ \A q \in DOMAIN f1 : f1[q] = f[q]
  BY DEF without
<1>2. f1 = [q \in DOMAIN f1 |-> f1[q]]
  BY DEF without
<1> HIDE DEF f1
<1>3. \A q \in DOMAIN f : q \in Int /\ TagSize \in Int
  BY Sizing, SMTT(20), SMTT(30) DEF Sound, Owned
<1>4. \A q \in DOMAIN f1 : q - TagSize # p - TagSize
  BY <1>1, <1>3, SMTT(20), SMTT(30)
<1>5. \A t \in DOMAIN h.tags \ {p - TagSize} : t + TagSize # p
  BY <1>3, SMTT(20), SMTT(30) DEF Sound, Typed
<1>6. Owned(h, f1, {p - TagSize})
  BY <1>1, <1>2, <1>4, <1>5 DEF Sound, Owned
<1> QED  BY <1>6 DEF Sound, f1

\* malloc ends: the block in hand is the caller's.
LEMMA GiveSound ==
  ASSUME NEW h, NEW f, NEW t, Sound(h, f, {t}), NEW size \in Sizes, h.tags[t].size = size,
         TagSize + size <= h.tags[t].real_size
  PROVE  Sound(h, Holding(f, t + TagSize, size), {})
<1> DEFINE p  == t + TagSize
           f1 == Holding(f, p, size)
<1>1. /\ DOMAIN f1 = DOMAIN f \cup {p}
      /\ \A q \in DOMAIN f1 : f1[q] = IF q = p THEN size ELSE f[q]
      /\ f1 = [q \in DOMAIN f1 |-> f1[q]]
  BY DEF Holding
<1> HIDE DEF f1
<1>2. t \in DOMAIN h.tags /\ t \in Nat /\ TagSize \in Nat /\ h.tags[t].index = -1
  BY Sizing DEF Sound, Owned, Typed
<1>3. p \in Int /\ p - TagSize = t
  BY <1>2, SMTT(20), SMTT(30)
<1> HIDE DEF p
<1>4. \A q \in DOMAIN f1 : /\ q \in Int /\ q - TagSize \in DOMAIN h.tags \ {}
                           /\ h.tags[q - TagSize].index = -1
                           /\ h.tags[q - TagSize].size = f1[q] /\ f1[q] \in Sizes
                           /\ TagSize + f1[q] <= h.tags[q - TagSize].real_size
  BY <1>1, <1>2, <1>3 DEF Sound, Owned
<1>5. \A u \in DOMAIN h.tags \ {} : h.tags[u].index = -1 => u + TagSize \in DOMAIN f1
  BY <1>1 DEF Sound, Owned, p
<1>6. Owned(h, f1, {})
  BY <1>1, <1>4, <1>5 DEF Owned
<1> QED  BY <1>6 DEF Sound, f1, p

\* g is h with the size of the block in hand set.
Sized(h, g, f, t, size) ==
  /\ Sound(g, f, {t}) /\ Kept(h, g) /\ g.status = h.status
  /\ DOMAIN g.tags = DOMAIN h.tags
  /\ g.tags[t].size = size /\ g.tags[t].real_size = h.tags[t].real_size
  /\ RightHeld(h, t) => RightHeld(g, t)

\* malloc stores the size in the tag of the block in hand.
LEMMA SizeSound ==
  ASSUME NEW h, NEW f, NEW t, Sound(h, f, {t}), NEW size \in Nat,
         NEW g, g = [h EXCEPT !.tags[t].size = size]
  PROVE  Sized(h, g, f, t, size)
<1>0. Typed(h) /\ Filed(h) /\ Tiled(h) /\ t \in DOMAIN h.tags
  BY DEF Sound, Owned
<1>1. /\ Sets(h, g, t)
      /\ TagIs(g.tags[t], size, h.tags[t].real_size, h.tags[t].index, h.tags[t].split_left,
               h.tags[t].split_right, h.tags[t].next, h.tags[t].prev)
  BY <1>0, SetSize
<1>2. /\ Typed(g) /\ g.l_freePages = h.l_freePages /\ g.runs = h.runs /\ g.status = h.status
      /\ g.l_completePages = h.l_completePages /\ DOMAIN g.tags = DOMAIN h.tags
  BY <1>1 DEF Sets, SameBut, Fields
<1>3. \A u \in DOMAIN h.tags :
        /\ g.tags[u].size = IF u = t THEN size ELSE h.tags[u].size
        /\ g.tags[u].real_size = h.tags[u].real_size /\ g.tags[u].index = h.tags[u].index
        /\ g.tags[u].split_left = h.tags[u].split_left
        /\ g.tags[u].split_right = h.tags[u].split_right
        /\ g.tags[u].next = h.tags[u].next /\ g.tags[u].prev = h.tags[u].prev
  BY <1>1, SMTT(20), SMTT(30) DEF Sets, TagIs
<1>a. \A u \in DOMAIN h.tags : h.tags[u].split_right \in DOMAIN h.tags \cup {NULL}
  BY <1>0 DEF Typed, TagType
<1>4. Filed(g)
  BY <1>0, <1>2, <1>3, FiledFrame
<1>5. Tiled(g)
  <2>1. \A u \in DOMAIN g.tags : /\ TagSize <= g.tags[u].real_size
                                 /\ \E r \in g.runs : InRun(g.tags[u], u, r)
    BY <1>0, <1>2, <1>3, SMTT(20), SMTT(30) DEF Tiled, InRun
  <2>2. \A u \in DOMAIN h.tags : h.tags[u].split_left \in DOMAIN h.tags \cup {NULL}
    BY <1>0 DEF Typed, TagType
  <2>3. /\ \A u \in DOMAIN g.tags : g.tags[u].split_right # NULL =>
             /\ g.tags[u].split_right = u + g.tags[u].real_size
             /\ g.tags[g.tags[u].split_right].split_left = u
        /\ \A u \in DOMAIN g.tags : g.tags[u].split_left # NULL =>
             g.tags[g.tags[u].split_left].split_right = u
    BY <1>0, <1>a, <2>2, <1>2, <1>3, SMTT(20), SMTT(30) DEF Tiled
  <2>4. \A u, v \in DOMAIN g.tags : u # v => Before(g.tags, u, v) \/ Before(g.tags, v, u)
    BY <1>0, <1>2, <1>3, SMTT(20), SMTT(30) DEF Tiled, Before
  <2>5. \A r \in g.runs : /\ From(r) \in DOMAIN g.tags /\ g.tags[From(r)].split_left = NULL
                          /\ r.pages >= PageCount
    BY <1>0, <1>2, <1>3, SMTT(20), SMTT(30) DEF Tiled
  <2>6. \A r, s \in g.runs : r # s => r.page + r.pages <= s.page \/ s.page + s.pages <= r.page
    BY <1>0, <1>2 DEF Tiled
  <2> QED  BY <2>1, <2>3, <2>4, <2>5, <2>6 DEF Tiled
<1>6. Parted(g)
  BY <1>a, <1>2, <1>3, SMTT(20), SMTT(30) DEF Sound, Parted
<1>7. Indexed(g)
  BY <1>2, <1>3, SMTT(20), SMTT(30) DEF Sound, Indexed, index_of
<1>8. Owned(g, f, {t})
  BY <1>2, <1>3, SMTT(20), SMTT(30) DEF Sound, Owned
<1>9. \A e \in Exponents : CompleteSet(g, e) = CompleteSet(h, e)
  BY <1>2, <1>3 DEF CompleteSet, Whole
<1>10. Kept(h, g)
  BY <1>2, <1>9 DEF Kept
<1>11. RightHeld(h, t) => RightHeld(g, t)
  BY <1>0, <1>a, <1>3 DEF RightHeld
<1>12. Sound(g, f, {t})
  BY <1>2, <1>4, <1>5, <1>6, <1>7, <1>8 DEF Sound
<1> QED  BY <1>0, <1>2, <1>3, <1>10, <1>11, <1>12 DEF Sized

\* How many pages free computes for a block.
PagesOf(rs) ==
  LET pages == IF rs % PageSize = 0 THEN rs \div PageSize ELSE (rs \div PageSize) + 1
  IN  IF pages < PageCount THEN PageCount ELSE pages

\* A block without neighbours is a run, and free computes the very page and
\* number of pages that allocate_new_tag obtained.
LEMMA WholeRun ==
  ASSUME NEW h, Typed(h), Tiled(h), NEW t \in DOMAIN h.tags, Whole(h.tags[t])
  PROVE  LET r == [page |-> t \div PageSize, pages |-> PagesOf(h.tags[t].real_size)]
         IN  r \in h.runs /\ t = From(r) /\ t + h.tags[t].real_size = Upto(r)
<1>1. PICK r \in h.runs : InRun(h.tags[t], t, r)
  BY DEF Tiled
<1>2. t = From(r) /\ t + h.tags[t].real_size = Upto(r)
  BY <1>1 DEF InRun, Whole
<1>3. r \in [page : Nat, pages : Nat] /\ r.pages >= PageCount /\ h.tags[t].real_size \in Nat
  BY DEF Typed, Tiled, TagType
<1>4. /\ From(r) \in Nat /\ Upto(r) = From(r) + r.pages * PageSize
      /\ r.pages * PageSize \in Nat
  BY <1>3, Bounds
<1>5. h.tags[t].real_size = r.pages * PageSize
  BY <1>2, <1>3, <1>4, SMTT(20), SMTT(30)
<1>6. t \div PageSize = r.page
  <2>1. (r.page * PageSize) \div PageSize = r.page
    BY <1>3, DivTimes
  <2> QED  BY <1>2, <2>1 DEF From
<1>7. PagesOf(h.tags[t].real_size) = r.pages
  <2>1. (r.pages * PageSize) \div PageSize = r.pages /\ (r.pages * PageSize) % PageSize = 0
    BY <1>3, DivTimes
  <2>2. r.pages \in Nat /\ ~(r.pages < PageCount)
    BY <1>3, Sizing, SMTT(20), SMTT(30)
  <2> QED  BY <1>5, <2>1, <2>2 DEF PagesOf
<1>8. r = [page |-> t \div PageSize, pages |-> PagesOf(h.tags[t].real_size)]
  BY <1>3, <1>6, <1>7
<1> QED  BY <1>2, <1>8

\* The run that was the block in hand is gone, and nothing else.
RunFreed(h, g, f, t) ==
  /\ Sound(g, f, {}) /\ Kept(h, g)
  /\ DOMAIN g.tags = DOMAIN h.tags \ {t} /\ g.status = h.status

\* liballoc_free of a whole run keeps the allocator sound.
LEMMA FreeRunSound ==
  ASSUME NEW h, NEW f, NEW t, Sound(h, f, {t}), Whole(h.tags[t]),
         NEW g, g = liballoc_free(h, t, PagesOf(h.tags[t].real_size))
  PROVE  RunFreed(h, g, f, t)
<1> DEFINE D  == DOMAIN h.tags
           r0 == [page |-> t \div PageSize, pages |-> PagesOf(h.tags[t].real_size)]
<1>0. /\ Typed(h) /\ Filed(h) /\ Tiled(h) /\ t \in D /\ h.tags[t].index = -1
      /\ NULL \notin D /\ D \subseteq Nat /\ h.tags \in [D -> TagType(D)] /\ -1 \notin Exponents
      /\ h.runs \subseteq [page : Nat, pages : Nat]
      /\ TagSize \in Nat /\ TagSize > 0
  BY Sizing, ExponentsAre, SMTT(20), SMTT(30) DEF Sound, Owned, Typed
<1>1. r0 \in h.runs /\ t = From(r0) /\ t + h.tags[t].real_size = Upto(r0)
  BY <1>0, WholeRun
<1>2. /\ g.tags = [u \in D \ {t} |-> h.tags[u]]
      /\ g.runs = h.runs \ {r0}
      /\ SameBut(h, g, {"tags", "runs"})
      /\ g = [x \in DOMAIN g |-> g[x]]
  BY <1>0 DEF liballoc_free, without, Typed, Fields, SameBut
<1> HIDE DEF r0
<1>3. DOMAIN g.tags = D \ {t} /\ \A u \in D \ {t} : g.tags[u] = h.tags[u]
  BY <1>2
<1>4. Unlisted(h, t)
  BY <1>0, HeldUnlisted
<1>5. \A u \in D : h.tags[u].split_left # t /\ h.tags[u].split_right # t
  <2>1. h.tags[t].split_left = NULL /\ h.tags[t].split_right = NULL
    BY DEF Whole
  <2>2. \A u \in D : /\ h.tags[u].split_right # NULL => h.tags[h.tags[u].split_right].split_left = u
                     /\ h.tags[u].split_left # NULL => h.tags[h.tags[u].split_left].split_right = u
    BY <1>0 DEF Tiled
  <2>3. t \in D /\ \A u \in D : u # NULL
    BY <1>0
  <2> QED  BY <2>1, <2>2, <2>3, SMTT(20), SMTT(30)
<1>6. Typed(g)
  <2>1. ASSUME NEW u \in D \ {t}
        PROVE  h.tags[u] \in TagType(D \ {t})
    <3>1. h.tags[u] \in TagType(D)
      BY <1>0
    <3>2. {h.tags[u].split_left, h.tags[u].split_right, h.tags[u].next, h.tags[u].prev}
             \subseteq (D \ {t}) \cup {NULL}
      BY <3>1, <1>4, <1>5 DEF Unlisted, TagType
    <3> QED  BY <3>1, <3>2 DEF TagType
  <2>2. g.tags \in [D \ {t} -> TagType(D \ {t})]
    BY <2>1, <1>2
  <2>3. g.l_freePages \in [Exponents -> (D \ {t}) \cup {NULL}]
    <3>1. g.l_freePages = h.l_freePages
      BY <1>2 DEF SameBut, Fields
    <3> QED  BY <3>1, <1>4, <1>0 DEF Unlisted, Typed
  <2>4. g.l_completePages \in [Exponents -> Int] /\ DOMAIN g = Fields
    BY <1>0, <1>2 DEF SameBut, Fields, Typed
  <2>5. g.runs \subseteq [page : Nat, pages : Nat] /\ DOMAIN g.tags \subseteq Nat \ {NULL}
    BY <1>0, <1>2, <1>3
  <2> QED  BY <2>2, <2>3, <2>4, <2>5, <1>2, <1>3 DEF Typed
<1>7. Filed(g)
  <2>1. g.l_freePages = h.l_freePages
    BY <1>2 DEF SameBut, Fields
  <2>2. /\ \A u \in DOMAIN h.tags : u \in DOMAIN g.tags \/ h.tags[u].index = -1
        /\ \A u \in DOMAIN g.tags :
             IF u \in DOMAIN h.tags
             THEN /\ g.tags[u].index = h.tags[u].index
                  /\ g.tags[u].next = h.tags[u].next /\ g.tags[u].prev = h.tags[u].prev
             ELSE g.tags[u].index = -1 /\ g.tags[u].next = NULL /\ g.tags[u].prev = NULL
    BY <1>0, <1>3
  <2> QED  BY <1>0, <2>1, <2>2, FiledFrame
<1>8. Tiled(g)
  <2>1. ASSUME NEW u \in D \ {t}
        PROVE  /\ TagSize <= g.tags[u].real_size
               /\ \E r \in g.runs : InRun(g.tags[u], u, r)
    <3>1. TagSize <= h.tags[u].real_size
      BY <1>0 DEF Tiled
    <3>2. PICK r \in h.runs : InRun(h.tags[u], u, r)
      BY <1>0 DEF Tiled
    <3>3. r # r0
      <4> SUFFICES ASSUME r = r0 PROVE FALSE
        OBVIOUS
      <4>1. t <= u /\ u + h.tags[u].real_size <= t + h.tags[t].real_size
        BY <3>2, <1>1 DEF InRun
      <4>2. t + h.tags[t].real_size <= u \/ u + h.tags[u].real_size <= t
        BY <1>0 DEF Tiled, Before
      <4>3. /\ t \in Nat /\ u \in Nat /\ h.tags[t].real_size \in Nat /\ h.tags[u].real_size \in Nat
            /\ TagSize <= h.tags[t].real_size
        BY <1>0 DEF Tiled, TagType
      <4> QED  BY <4>1, <4>2, <4>3, <3>1, <1>0, SMTT(20), SMTT(30)
    <3> QED  BY <3>1, <3>2, <3>3, <1>2, <1>3
  <2>2. \A u \in D \ {t} : h.tags[u].split_left \in (D \ {t}) \cup {NULL} /\ h.tags[u].split_right \in (D \ {t}) \cup {NULL}
    BY <1>0, <1>5 DEF TagType
  <2>3. /\ \A u \in DOMAIN g.tags : g.tags[u].split_right # NULL =>
             /\ g.tags[u].split_right = u + g.tags[u].real_size
             /\ g.tags[g.tags[u].split_right].split_left = u
        /\ \A u \in DOMAIN g.tags : g.tags[u].split_left # NULL =>
             g.tags[g.tags[u].split_left].split_right = u
    <3> SUFFICES ASSUME NEW u \in D \ {t}
                 PROVE  /\ h.tags[u].split_right # NULL =>
                             /\ h.tags[u].split_right = u + h.tags[u].real_size
                             /\ g.tags[h.tags[u].split_right].split_left = u
                        /\ h.tags[u].split_left # NULL =>
                             g.tags[h.tags[u].split_left].split_right = u
      BY <1>3, ZenonT(60)
    <3> DEFINE x == h.tags[u].split_right
               y == h.tags[u].split_left
    <3>1. /\ x # NULL => x \in D \ {t} /\ x = u + h.tags[u].real_size /\ h.tags[x].split_left = u
          /\ y # NULL => y \in D \ {t} /\ h.tags[y].split_right = u
      BY <1>0, <2>2 DEF Tiled
    <3> QED  BY <3>1, <1>3
  <2>4. \A u, v \in DOMAIN g.tags : u # v => Before(g.tags, u, v) \/ Before(g.tags, v, u)
    <3> SUFFICES ASSUME NEW u \in D \ {t}, NEW v \in D \ {t}, u # v
                 PROVE  Before(g.tags, u, v) \/ Before(g.tags, v, u)
      BY <1>3
    <3>1. Before(h.tags, u, v) \/ Before(h.tags, v, u)
      BY <1>0 DEF Tiled
    <3>2. g.tags[u] = h.tags[u] /\ g.tags[v] = h.tags[v]
      BY <1>3
    <3> QED  BY <3>1, <3>2 DEF Before
  <2>5. ASSUME NEW r \in g.runs
        PROVE  /\ From(r) \in DOMAIN g.tags /\ g.tags[From(r)].split_left = NULL
               /\ r.pages >= PageCount
    <3>1. /\ r \in h.runs /\ r # r0 /\ From(r) \in D
          /\ h.tags[From(r)].split_left = NULL /\ r.pages >= PageCount
      BY <1>0, <1>2 DEF Tiled
    <3>2. r0.page + r0.pages <= r.page \/ r.page + r.pages <= r0.page
      BY <1>0, <1>1, <3>1 DEF Tiled
    <3>3. /\ r.page \in Nat /\ r.pages \in Nat /\ r0.page \in Nat /\ r0.pages \in Nat
          /\ r0.pages >= PageCount /\ PageCount \in Nat /\ PageCount > 0
      BY <1>0, <1>1, <3>1, Sizing DEF Tiled
    <3>4. r0.page < r.page \/ r.page < r0.page
      BY <3>1, <3>2, <3>3, SMTT(20), SMTT(30)
    <3>5. r0.page * PageSize < r.page * PageSize \/ r.page * PageSize < r0.page * PageSize
      BY <3>3, <3>4, TimesLess
    <3>6. From(r) # t
      <4>1. r0.page * PageSize \in Nat /\ r.page * PageSize \in Nat
        BY <3>3, Sizing, SMTT(20), SMTT(30)
      <4> QED  BY <3>5, <4>1, <1>1, SMTT(20), SMTT(30) DEF From
    <3> QED  BY <3>1, <3>6, <1>3
  <2>6. \A r, s \in g.runs : r # s => r.page + r.pages <= s.page \/ s.page + s.pages <= r.page
    BY <1>0, <1>2 DEF Tiled
  <2> QED  BY <2>1, <2>3, <2>4, <2>5, <2>6, <1>3 DEF Tiled
<1>9. Parted(g)
  <2> SUFFICES ASSUME NEW u \in D \ {t}, h.tags[u].split_right # NULL
               PROVE  h.tags[u].index = -1 \/ g.tags[h.tags[u].split_right].index = -1
    BY <1>3 DEF Parted
  <2> DEFINE x == h.tags[u].split_right
  <2>1. x \in D \ {t}
    BY <1>0, <1>5 DEF TagType
  <2>2. h.tags[u].index = -1 \/ h.tags[x].index = -1
    BY DEF Sound, Parted
  <2> QED  BY <2>1, <2>2, <1>3
<1>10. Indexed(g)
  BY <1>3 DEF Sound, Indexed, index_of
<1>11. Owned(g, f, {})
  BY <1>3 DEF Sound, Owned
<1>12. Kept(h, g)
  <2>1. g.l_completePages = h.l_completePages
    BY <1>2 DEF SameBut, Fields
  <2>2. \A e \in Exponents : CompleteSet(g, e) = CompleteSet(h, e)
    BY <1>0, <1>3 DEF CompleteSet
  <2> QED  BY <2>1, <2>2 DEF Kept
<1>13. g.status = h.status
  BY <1>2 DEF SameBut, Fields
<1>14. Sound(g, f, {})
  BY <1>6, <1>7, <1>8, <1>9, <1>10, <1>11 DEF Sound
<1> QED  BY <1>3, <1>12, <1>13, <1>14 DEF RunFreed
=============================================================================
