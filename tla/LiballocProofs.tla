--------------------------- MODULE LiballocProofs ---------------------------
(***************************************************************************)
(* Proofs about malloc, free and realloc of liballoc.c, for all sizes of   *)
(* pages and tags, all requests and all limits.                            *)
(*                                                                         *)
(* LiballocTagProofs shows that joining, filing, taking, sizing and        *)
(* returning a block keep the heap sound.  Here follow splitting a block   *)
(* and obtaining a new run; then the loops of malloc and free, the count   *)
(* of the runs that stand by, and the calls as a whole.  The inductive     *)
(* invariant is Good: between two calls no block is in hand, and           *)
(* l_completePages counts the whole runs in the free lists.                *)
(***************************************************************************)
EXTENDS LiballocTagProofs

\* Most leaves are first-order: Zenon first, then arithmetic for the SMT solver.
\* A prover is named twice where tlapm may give up the first translation.
USE ZenonT(4), SMTT(20), ZenonT(20), SMTT(30)

\* The count of e changes by d, and the whole runs that stand by in e are S.
Tally(h, g, e, d, S) ==
  /\ g.l_completePages = [h.l_completePages EXCEPT ![e] = h.l_completePages[e] + d]
  /\ \A x \in Exponents : CompleteSet(g, x) = IF x = e THEN S ELSE CompleteSet(h, x)

\* A whole run leaves the runs that stand by, or joins them.
Leaves(h, g, t, e) == t \in CompleteSet(h, e) /\ Tally(h, g, e, -1, CompleteSet(h, e) \ {t})
Joins(h, g, t, e)  == t \notin CompleteSet(h, e) /\ Tally(h, g, e, 1, CompleteSet(h, e) \cup {t})

\* malloc takes a free block from its list; when it is a whole run, the count
\* goes down with it.
LEMMA TakenSound ==
  ASSUME NEW h, NEW f, Sound(h, f, {}), NEW t \in DOMAIN h.tags, NEW e \in Exponents,
         h.tags[t].index = e, NEW g, g = taken_from_list(h, t, e)
  PROVE  /\ Sound(g, f, {t}) /\ RightHeld(g, t)
         /\ DOMAIN g.tags = DOMAIN h.tags /\ g.runs = h.runs /\ g.status = h.status
         /\ g.tags[t].real_size = h.tags[t].real_size
         /\ Leaves(h, g, t, e) \/ Kept(h, g)
<1> DEFINE h1 == remove_tag(h, t)
<1>0. Typed(h) /\ Filed(h) /\ Tiled(h) /\ -1 \notin Exponents
  BY ExponentsAre, SMTT(20), SMTT(30) DEF Sound
<1>1. Refiled(h, h1, t, -1)
  BY <1>0, RemoveRefiles
<1>2. g = IF Whole(h.tags[t]) THEN [h1 EXCEPT !.l_completePages[e] = h1.l_completePages[e] - 1] ELSE h1
  BY DEF taken_from_list
<1> HIDE DEF h1
<1>3. Sound(h1, f, {t}) /\ RightHeld(h1, t)
  <2>1. h.tags[t].index # -1
    BY <1>0
  <2> QED  BY <1>1, <2>1, TakeSound
<1>4. /\ DOMAIN h1.tags = DOMAIN h.tags /\ h1.l_completePages = h.l_completePages
      /\ \A b \in DOMAIN h.tags :
           /\ h1.tags[b].index = IF b = t THEN -1 ELSE h.tags[b].index
           /\ h1.tags[b].real_size = h.tags[b].real_size
           /\ Whole(h1.tags[b]) <=> Whole(h.tags[b])
  BY <1>0, <1>1, RefiledSame, SMTT(20), SMTT(30)
<1>5. h1.runs = h.runs /\ h1.status = h.status
  BY <1>1 DEF Refiled, SameBut, Fields
<1>6. CASE ~ Whole(h.tags[t])
  <2>1. g = h1
    BY <1>2, <1>6
  <2>2. \A x \in Exponents : CompleteSet(h1, x) = CompleteSet(h, x)
    BY <1>0, <1>4, <1>6 DEF CompleteSet
  <2> QED  BY <2>1, <2>2, <1>3, <1>4, <1>5 DEF Kept
<1>7. CASE Whole(h.tags[t])
  <2>0. Typed(h1) /\ h1.l_completePages[e] \in Int
    BY <1>3 DEF Sound, Typed
  <2>1. Tallies(h1, g, e, h1.l_completePages[e] - 1)
    <3>1. g = [h1 EXCEPT !.l_completePages[e] = h1.l_completePages[e] - 1]
      BY <1>2, <1>7
    <3>2. h1.l_completePages[e] - 1 \in Int
      BY <2>0, SMTT(20), SMTT(30)
    <3> QED  BY <2>0, <3>1, <3>2, SetTally
  <2>2. /\ Typed(g) /\ g.tags = h1.tags /\ g.l_freePages = h1.l_freePages /\ g.runs = h1.runs
        /\ g.status = h1.status
        /\ g.l_completePages = [h1.l_completePages EXCEPT ![e] = h1.l_completePages[e] - 1]
    BY <2>1 DEF Tallies, SameBut, Fields
  <2>3. Sound(g, f, {t})
    BY <1>3, <2>2, SoundFrame
  <2>4. RightHeld(g, t)
    BY <1>3, <2>2 DEF RightHeld
  <2>5. t \in CompleteSet(h, e)
    BY <1>7 DEF CompleteSet
  <2>6. \A x \in Exponents : CompleteSet(g, x) = IF x = e THEN CompleteSet(h, e) \ {t} ELSE CompleteSet(h, x)
    BY <1>0, <1>4, <1>7, <2>2, SMTT(20), SMTT(30) DEF CompleteSet
  <2>7. g.l_completePages = [h.l_completePages EXCEPT ![e] = h.l_completePages[e] + (-1)]
    <3>1. h.l_completePages[e] - 1 = h.l_completePages[e] + (-1)
      BY <2>0, <1>4
    <3> QED  BY <3>1, <2>2, <1>4
  <2>8. Leaves(h, g, t, e)
    BY <2>5, <2>6, <2>7 DEF Leaves, Tally
  <2> QED  BY <2>2, <2>3, <2>4, <2>8, <1>4, <1>5
<1> QED  BY <1>6, <1>7

\* free puts the block in hand into the list of its exponent; when it is a
\* whole run, the count goes up with it.
LEMMA StandBySound ==
  ASSUME Counting, NEW h, NEW f, NEW t, Sound(h, f, {t}), LeftHeld(h, t), RightHeld(h, t),
         NEW g, g = stand_by(h, t)
  PROVE  /\ Sound(g, f, {}) /\ DOMAIN g.tags = DOMAIN h.tags /\ g.status = h.status
         /\ index_of(h, t) \in Exponents
         /\ IF Whole(h.tags[t]) THEN Joins(h, g, t, index_of(h, t)) ELSE Kept(h, g)
<1> DEFINE e  == index_of(h, t)
           h1 == IF Whole(h.tags[t])
                 THEN [h EXCEPT !.l_completePages[e] = h.l_completePages[e] + 1] ELSE h
<1>0. /\ Typed(h) /\ t \in DOMAIN h.tags /\ h.tags[t].index = -1 /\ -1 \notin Exponents
      /\ h.tags[t].real_size - TagSize \in Int
  BY ExponentsAre, Sizing, SMTT(20), SMTT(30) DEF Sound, Owned, Typed, TagType
<1>1. e \in Exponents
  BY <1>0, IndexType DEF index_of
<1>2. g = insert_tag(h1, t, e)
  BY DEF stand_by
<1>a. h.l_completePages[e] \in Int
  BY <1>0, <1>1 DEF Typed
<1>3. /\ Typed(h1) /\ h1.tags = h.tags /\ h1.l_freePages = h.l_freePages /\ h1.runs = h.runs
      /\ h1.status = h.status
      /\ h1.l_completePages = IF Whole(h.tags[t])
                              THEN [h.l_completePages EXCEPT ![e] = h.l_completePages[e] + 1]
                              ELSE h.l_completePages
  <2>1. CASE ~ Whole(h.tags[t])
    BY <2>1, <1>0
  <2>2. CASE Whole(h.tags[t])
    <3>1. h1 = [h EXCEPT !.l_completePages[e] = h.l_completePages[e] + 1]
      BY <2>2
    <3> HIDE DEF h1, e
    <3>2. Tallies(h, h1, e, h.l_completePages[e] + 1)
      <4>1. h.l_completePages[e] + 1 \in Int
        BY <1>a, SMTT(20), SMTT(30)
      <4> QED  BY <4>1, <3>1, <1>0, <1>1, SetTally
    <3> QED  BY <3>2, <2>2 DEF Tallies, SameBut, Fields
  <2> QED  BY <2>1, <2>2
<1> HIDE DEF h1
<1>4. Sound(h1, f, {t})
  BY <1>3, SoundFrame
<1>5. LeftHeld(h1, t) /\ RightHeld(h1, t) /\ index_of(h1, t) = e
  BY <1>3 DEF LeftHeld, RightHeld, index_of
<1> HIDE DEF e
<1>6. Refiled(h1, g, t, e)
  <2>1. Filed(h1) /\ t \in DOMAIN h1.tags /\ h1.tags[t].index = -1
    BY <1>0, <1>3, <1>4 DEF Sound
  <2> QED  BY <2>1, <1>1, <1>2, <1>3, InsertRefiles
<1>7. Sound(g, f, {})
  <2>1. t \in {t} /\ {t} \ {t} = {}
    OBVIOUS
  <2>2. Sound(g, f, {t} \ {t})
    BY <2>1, <1>1, <1>4, <1>5, <1>6, FileSound
  <2> QED  BY <2>1, <2>2
<1>8. /\ DOMAIN g.tags = DOMAIN h1.tags /\ g.l_completePages = h1.l_completePages
      /\ \A b \in DOMAIN h1.tags :
           /\ g.tags[b].index = IF b = t THEN e ELSE h1.tags[b].index
           /\ Whole(g.tags[b]) <=> Whole(h1.tags[b])
  BY <1>4, <1>6, RefiledSame, SMTT(20), SMTT(30) DEF Sound
<1>9. g.status = h.status
  BY <1>3, <1>6 DEF Refiled, SameBut, Fields
<1>10. CASE Whole(h.tags[t])
  <2>1. t \notin CompleteSet(h, e)
    BY <1>0, <1>1 DEF CompleteSet
  <2>2. \A x \in Exponents : CompleteSet(g, x) = IF x = e THEN CompleteSet(h, e) \cup {t} ELSE CompleteSet(h, x)
    BY <1>0, <1>3, <1>8, <1>10, SMTT(20), SMTT(30) DEF CompleteSet
  <2>3. Joins(h, g, t, e)
    BY <2>1, <2>2, <1>3, <1>8, <1>10 DEF Joins, Tally
  <2> QED  BY <2>3, <1>1, <1>3, <1>7, <1>8, <1>9, <1>10 DEF e
<1>11. CASE ~ Whole(h.tags[t])
  <2>1. \A x \in Exponents : CompleteSet(g, x) = CompleteSet(h, x)
    BY <1>0, <1>3, <1>8, <1>11, SMTT(20), SMTT(30) DEF CompleteSet
  <2>2. Kept(h, g)
    BY <2>1, <1>3, <1>8, <1>11 DEF Kept
  <2> QED  BY <2>2, <1>1, <1>3, <1>7, <1>8, <1>9, <1>11 DEF e
<1> QED  BY <1>10, <1>11

\* The block t of h has been cut: b is the part behind the first `keep' units.
Divides(h, g, t, b, keep) ==
  /\ Typed(g)
  /\ SameBut(h, g, {"tags"})
  /\ DOMAIN g.tags = DOMAIN h.tags \cup {b}
  /\ TagIs(g.tags[b], 0, h.tags[t].real_size - keep, -1, t, h.tags[t].split_right, NULL, NULL)
  /\ \A u \in DOMAIN h.tags :
       TagIs(g.tags[u], h.tags[u].size, IF u = t THEN keep ELSE h.tags[u].real_size,
             h.tags[u].index,
             IF u = h.tags[t].split_right THEN b ELSE h.tags[u].split_left,
             IF u = t THEN b ELSE h.tags[u].split_right, h.tags[u].next, h.tags[u].prev)

\* split_tag before it files the new block.
cut(h, t) ==
  LET tag       == h.tags[t]
      remainder == tag.real_size - TagSize - tag.size
      new       == t + TagSize + tag.size
      new_tag   == [size |-> 0, real_size |-> remainder, index |-> -1,
                    split_left |-> t, split_right |-> tag.split_right,
                    next |-> NULL, prev |-> NULL]
      tags1 == [u \in DOMAIN h.tags \cup {new} |-> IF u = new THEN new_tag ELSE h.tags[u]]
      tags2 == IF tag.split_right = NULL THEN tags1
               ELSE [tags1 EXCEPT ![tag.split_right].split_left = new]
      tags3 == [tags2 EXCEPT ![t].split_right = new, ![t].real_size = @ - remainder]
  IN  [h EXCEPT !.tags = tags3]

\* The place for a new tag inside a block, with room for a tag on both sides.
Fits(h, t, b, keep) ==
  /\ keep \in Nat /\ TagSize <= keep /\ keep + TagSize <= h.tags[t].real_size
  /\ b = t + keep

\* No tag is there yet.
LEMMA CutIsNew ==
  ASSUME NEW h, Typed(h), Tiled(h), NEW t \in DOMAIN h.tags, NEW b, NEW keep, Fits(h, t, b, keep)
  PROVE  /\ b \notin DOMAIN h.tags /\ b \in Nat /\ b > t /\ b < t + h.tags[t].real_size
         /\ h.tags[t].real_size - keep \in Nat /\ b # NULL
<1>1. /\ TagSize \in Nat /\ TagSize > 0 /\ t \in Nat /\ h.tags[t].real_size \in Nat
      /\ keep \in Nat /\ TagSize <= keep /\ keep + TagSize <= h.tags[t].real_size /\ b = t + keep
  BY Sizing DEF Typed, TagType, Fits
<1>2. /\ b \in Nat /\ b > t /\ b < t + h.tags[t].real_size /\ h.tags[t].real_size - keep \in Nat
      /\ b # NULL
  BY <1>1, SMTT(20), SMTT(30) DEF NULL
<1>3. b \notin DOMAIN h.tags
  <2> SUFFICES ASSUME b \in DOMAIN h.tags PROVE FALSE
    OBVIOUS
  <2>1. Before(h.tags, t, b) \/ Before(h.tags, b, t)
    BY <1>1, <1>2, SMTT(20), SMTT(30) DEF Tiled
  <2>2. h.tags[b].real_size \in Nat
    BY DEF Typed, TagType
  <2> QED  BY <2>1, <2>2, <1>1, <1>2, SMTT(20), SMTT(30) DEF Before
<1> QED  BY <1>2, <1>3

\* Field by field, what split_tag does before it files the new block.
LEMMA CutFields ==
  ASSUME NEW h, Typed(h), Tiled(h), NEW t \in DOMAIN h.tags,
         NEW b, NEW keep, keep = TagSize + h.tags[t].size, Fits(h, t, b, keep)
  PROVE  Divides(h, cut(h, t), t, b, keep)
<1> DEFINE D   == DOMAIN h.tags
           sr  == h.tags[t].split_right
           rem == h.tags[t].real_size - TagSize - h.tags[t].size
           nt  == [size |-> 0, real_size |-> rem, index |-> -1, split_left |-> t,
                   split_right |-> sr, next |-> NULL, prev |-> NULL]
           T1  == [u \in D \cup {b} |-> IF u = b THEN nt ELSE h.tags[u]]
           T2  == IF sr = NULL THEN T1 ELSE [T1 EXCEPT ![sr].split_left = b]
           T3  == [T2 EXCEPT ![t].split_right = b, ![t].real_size = T2[t].real_size - rem]
<1>0. /\ b \notin D /\ b \in Nat /\ h.tags[t].real_size - keep \in Nat /\ b # NULL
  BY CutIsNew
<1>1. /\ D \subseteq Nat /\ NULL \notin D /\ h.tags \in [D -> TagType(D)] /\ sr \in D \cup {NULL}
      /\ TagSize \in Nat /\ t \in Nat /\ h.tags[t].real_size \in Nat /\ h.tags[t].size \in Nat
      /\ 0 \in Nat /\ NULL \in D \cup {b} \cup {NULL} /\ sr # t
  <2>1. sr # t
    BY RightBeyond, SMTT(20), SMTT(30) DEF Typed
  <2> QED  BY <2>1, Sizing DEF Typed, TagType
<1>2. b = t + TagSize + h.tags[t].size /\ rem = h.tags[t].real_size - keep /\ rem \in Nat
      /\ h.tags[t].real_size - rem = keep /\ keep \in Nat
  BY <1>0, <1>1, SMTT(20), SMTT(30) DEF Fits
<1>3. cut(h, t) = [h EXCEPT !.tags = T3]
  BY <1>2, SMTT(20), SMTT(30) DEF cut
<1> HIDE DEF rem
<1>4. nt \in TagType(D \cup {b})
  BY <1>1, <1>2 DEF TagType
<1>5. TagIs(nt, 0, rem, -1, t, sr, NULL, NULL)
  BY DEF TagIs
<1> HIDE DEF nt
<1>6. /\ T1 \in [D \cup {b} -> TagType(D \cup {b})]
      /\ T1[b] = nt /\ \A u \in D : T1[u] = h.tags[u]
  <2>1. TagType(D) \subseteq TagType(D \cup {b})
    BY DEF TagType
  <2> QED  BY <2>1, <1>0, <1>1, <1>4
<1> HIDE DEF T1
<1>7. /\ T2 \in [D \cup {b} -> TagType(D \cup {b})]
      /\ T2[b] = nt
      /\ \A u \in D : u # sr => T2[u] = h.tags[u]
      /\ sr # NULL => TagIs(T2[sr], h.tags[sr].size, h.tags[sr].real_size, h.tags[sr].index, b,
                            h.tags[sr].split_right, h.tags[sr].next, h.tags[sr].prev)
  <2>1. CASE sr = NULL
    BY <2>1, <1>1, <1>6
  <2>2. CASE sr # NULL
    <3>1. T2 = [T1 EXCEPT ![sr].split_left = b] /\ sr \in D /\ sr # b
      BY <2>2, <1>0, <1>1
    <3> HIDE DEF T2
    <3>2. T2 \in [D \cup {b} -> TagType(D \cup {b})]
      BY <3>1, <1>6, SMTT(20), SMTT(30) DEF TagType
    <3>3. T2[b] = nt /\ \A u \in D : u # sr => T2[u] = h.tags[u]
      BY <3>1, <1>0, <1>6
    <3>4. T1[sr] \in TagType(D \cup {b}) /\ T2[sr] = [T1[sr] EXCEPT !.split_left = b] /\ T1[sr] = h.tags[sr]
      BY <3>1, <1>6
    <3>5. TagIs(T2[sr], h.tags[sr].size, h.tags[sr].real_size, h.tags[sr].index, b,
                h.tags[sr].split_right, h.tags[sr].next, h.tags[sr].prev)
      BY <3>4 DEF TagIs, TagType
    <3> QED  BY <3>2, <3>3, <3>5
  <2> QED  BY <2>1, <2>2
<1> HIDE DEF T2
<1>8. T2[t] = h.tags[t] /\ T2[t].real_size - rem = keep /\ t # b
  BY <1>0, <1>1, <1>2, <1>7
<1>9. /\ T3 \in [D \cup {b} -> TagType(D \cup {b})]
      /\ \A u \in D \cup {b} : u # t => T3[u] = T2[u]
      /\ TagIs(T3[t], h.tags[t].size, keep, h.tags[t].index, h.tags[t].split_left, b,
               h.tags[t].next, h.tags[t].prev)
  <2>1. T3 = [T2 EXCEPT ![t].split_right = b, ![t].real_size = keep]
    BY <1>8
  <2> HIDE DEF T3
  <2>2. T3 \in [D \cup {b} -> TagType(D \cup {b})]
    <3>1. T2[t] \in TagType(D \cup {b}) /\ keep \in Nat
      BY <1>2, <1>7
    <3> DEFINE a == [T2[t] EXCEPT !.split_right = b]
               c == [a EXCEPT !.real_size = keep]
    <3>2. a \in TagType(D \cup {b})
      BY <3>1 DEF TagType
    <3>3. T3 = [T2 EXCEPT ![t] = c]
      BY <2>1, <1>7
    <3> HIDE DEF a
    <3>4. c \in TagType(D \cup {b})
      BY <3>1, <3>2, SMTT(20), SMTT(30) DEF TagType
    <3> HIDE DEF c
    <3> QED  BY <3>3, <3>4, <1>7
  <2>3. \A u \in D \cup {b} : u # t => T3[u] = T2[u]
    BY <2>1, <1>7
  <2>4. T2[t] \in TagType(D \cup {b}) /\ T3[t] = [[T2[t] EXCEPT !.split_right = b] EXCEPT !.real_size = keep]
    BY <2>1, <1>7
  <2>5. TagIs(T3[t], h.tags[t].size, keep, h.tags[t].index, h.tags[t].split_left, b,
              h.tags[t].next, h.tags[t].prev)
    BY <2>4, <1>8 DEF TagIs, TagType
  <2> QED  BY <2>2, <2>3, <2>5
<1> HIDE DEF T3
<1> DEFINE g == cut(h, t)
<1>10. g.tags = T3 /\ SameBut(h, g, {"tags"}) /\ g = [x \in DOMAIN g |-> g[x]] /\ DOMAIN g = Fields
  BY <1>3 DEF Typed, Fields, SameBut
<1> HIDE DEF g
<1>11. DOMAIN T3 = D \cup {b}
  BY <1>9
<1>12. Typed(g)
  <2>1. /\ g.l_freePages = h.l_freePages /\ g.l_completePages = h.l_completePages /\ g.runs = h.runs
    BY <1>10 DEF SameBut, Fields
  <2>2. g.l_freePages \in [Exponents -> (D \cup {b}) \cup {NULL}]
    BY <2>1 DEF Typed
  <2>3. D \cup {b} \subseteq Nat \ {NULL}
    BY <1>0, <1>1
  <2> QED  BY <2>1, <2>2, <2>3, <1>9, <1>10, <1>11 DEF Typed
<1>13. TagIs(g.tags[b], 0, h.tags[t].real_size - keep, -1, t, h.tags[t].split_right, NULL, NULL)
  BY <1>2, <1>5, <1>7, <1>8, <1>9, <1>10
<1>14. ASSUME NEW u \in DOMAIN h.tags
       PROVE  TagIs(g.tags[u], h.tags[u].size, IF u = t THEN keep ELSE h.tags[u].real_size,
                    h.tags[u].index,
                    IF u = h.tags[t].split_right THEN b ELSE h.tags[u].split_left,
                    IF u = t THEN b ELSE h.tags[u].split_right, h.tags[u].next, h.tags[u].prev)
  <2>1. CASE u = t
    BY <2>1, <1>1, <1>9, <1>10
  <2>2. CASE u # t /\ u = sr
    <3>1. sr # NULL
      BY <2>2, <1>1
    <3> QED  BY <3>1, <2>2, <1>7, <1>9, <1>10
  <2>3. CASE u # t /\ u # sr
    <3>1. g.tags[u] = h.tags[u]
      BY <2>3, <1>7, <1>9, <1>10
    <3> QED  BY <3>1, <2>3 DEF TagIs
  <2> QED  BY <2>1, <2>2, <2>3
<1> QED  BY <1>10, <1>11, <1>12, <1>13, <1>14 DEF Divides, g

\* Splitting a block keeps the tiling.
LEMMA DividesTiled ==
  ASSUME NEW h, Typed(h), Tiled(h), NEW t \in DOMAIN h.tags, NEW b, NEW keep, Fits(h, t, b, keep),
         NEW g, Divides(h, g, t, b, keep)
  PROVE  Tiled(g)
<1> DEFINE D  == DOMAIN h.tags
           sr == h.tags[t].split_right
<1>0. /\ b \notin D /\ b \in Nat /\ b > t /\ b < t + h.tags[t].real_size /\ b # NULL
  BY CutIsNew
<1>1. /\ D \subseteq Nat /\ NULL \notin D /\ sr \in D \cup {NULL} /\ t \in Nat
      /\ \A u \in D : /\ h.tags[u].real_size \in Nat
                      /\ h.tags[u].split_left \in D \cup {NULL}
                      /\ h.tags[u].split_right \in D \cup {NULL}
      /\ TagSize \in Nat /\ TagSize > 0
  BY Sizing DEF Typed, TagType
<1>2. sr # t /\ (sr # NULL => sr = t + h.tags[t].real_size /\ h.tags[sr].split_left = t)
  <2>1. sr # NULL => sr > t
    BY RightBeyond
  <2> QED  BY <2>1, <1>1, SMTT(20), SMTT(30) DEF Tiled
<1>3. keep \in Nat /\ TagSize <= keep /\ keep + TagSize <= h.tags[t].real_size /\ b = t + keep
  BY DEF Fits
<1>4. DOMAIN g.tags = D \cup {b} /\ g.runs = h.runs
  BY DEF Divides, SameBut, Fields
<1>5. /\ g.tags[b].real_size = h.tags[t].real_size - keep
      /\ g.tags[b].split_left = t /\ g.tags[b].split_right = sr
  BY DEF Divides, TagIs
<1>6. \A u \in D :
        /\ g.tags[u].real_size = IF u = t THEN keep ELSE h.tags[u].real_size
        /\ g.tags[u].split_left = IF u = sr THEN b ELSE h.tags[u].split_left
        /\ g.tags[u].split_right = IF u = t THEN b ELSE h.tags[u].split_right
  BY DEF Divides, TagIs
<1>7. ASSUME NEW u \in D \cup {b}
      PROVE  /\ TagSize <= g.tags[u].real_size
             /\ \E r \in g.runs : InRun(g.tags[u], u, r)
  <2>a. PICK s \in h.runs : InRun(h.tags[t], t, s)
    BY DEF Tiled
  <2>b. /\ From(s) <= t /\ t + h.tags[t].real_size <= Upto(s)
        /\ h.tags[t].split_left = NULL <=> t = From(s)
        /\ sr = NULL <=> t + h.tags[t].real_size = Upto(s)
    BY <2>a DEF InRun
  <2>c. From(s) \in Nat /\ Upto(s) \in Nat
    BY Bounds DEF Typed
  <2>1. CASE u = b
    <3>1. TagSize <= h.tags[t].real_size - keep
      BY <1>1, <1>3, SMTT(20), SMTT(30)
    <3>2. b # From(s) /\ From(s) <= b /\ b + (h.tags[t].real_size - keep) = t + h.tags[t].real_size
      BY <2>b, <2>c, <1>0, <1>1, <1>3, SMTT(20), SMTT(30)
    <3>3. t # NULL
      BY <1>1
    <3>4. InRun(g.tags[b], b, s)
      BY <3>2, <3>3, <2>b, <1>5 DEF InRun
    <3> QED  BY <2>1, <3>1, <3>4, <1>4, <1>5
  <2>2. CASE u = t
    <3>1. t + keep <= Upto(s) /\ t + keep # Upto(s)
      BY <2>b, <2>c, <1>1, <1>3, SMTT(20), SMTT(30)
    <3>2. g.tags[t].real_size = keep /\ g.tags[t].split_left = h.tags[t].split_left /\ g.tags[t].split_right = b
      BY <1>2, <1>6
    <3>3. InRun(g.tags[t], t, s)
      BY <3>1, <3>2, <2>b, <1>0 DEF InRun
    <3> QED  BY <2>2, <3>2, <3>3, <1>3, <1>4
  <2>3. CASE u \in D /\ u # t
    <3>1. PICK r \in h.runs : InRun(h.tags[u], u, r)
      BY <2>3 DEF Tiled
    <3>2. /\ g.tags[u].real_size = h.tags[u].real_size /\ g.tags[u].split_right = h.tags[u].split_right
          /\ g.tags[u].split_left = NULL <=> h.tags[u].split_left = NULL
      <4>1. u = sr => h.tags[u].split_left = t /\ t # NULL
        BY <2>3, <1>1, <1>2
      <4> QED  BY <4>1, <2>3, <1>0, <1>6
    <3>3. InRun(g.tags[u], u, r)
      BY <3>1, <3>2 DEF InRun
    <3>4. TagSize <= h.tags[u].real_size
      BY <2>3 DEF Tiled
    <3> QED  BY <3>2, <3>3, <3>4, <1>4
  <2> QED  BY <2>1, <2>2, <2>3
<1>8. ASSUME NEW u \in D \cup {b}, g.tags[u].split_right # NULL
      PROVE  /\ g.tags[u].split_right = u + g.tags[u].real_size
             /\ g.tags[g.tags[u].split_right].split_left = u
  <2>1. CASE u = b
    <3>1. g.tags[u].split_right = sr /\ sr # NULL /\ sr \in D
      BY <2>1, <1>1, <1>5, <1>8
    <3>2. sr = t + h.tags[t].real_size /\ g.tags[sr].split_left = b
      BY <3>1, <1>2, <1>6
    <3>3. t + h.tags[t].real_size = b + (h.tags[t].real_size - keep)
      BY <1>1, <1>3, SMTT(20), SMTT(30)
    <3> QED  BY <2>1, <3>1, <3>2, <3>3, <1>5
  <2>2. CASE u = t
    BY <2>2, <1>3, <1>5, <1>6
  <2>3. CASE u \in D /\ u # t
    <3> DEFINE x == h.tags[u].split_right
    <3>1. g.tags[u].split_right = x /\ g.tags[u].real_size = h.tags[u].real_size /\ x # NULL /\ x \in D
      BY <2>3, <1>1, <1>6, <1>8
    <3>2. x = u + h.tags[u].real_size /\ h.tags[x].split_left = u
      BY <2>3, <3>1 DEF Tiled
    <3>3. x # sr
      BY <2>3, <3>1, <3>2, <1>2
    <3>4. g.tags[x].split_left = u
      BY <3>1, <3>2, <3>3, <1>6
    <3> QED  BY <3>1, <3>2, <3>4
  <2> QED  BY <2>1, <2>2, <2>3
<1>9. ASSUME NEW u \in D \cup {b}, g.tags[u].split_left # NULL
      PROVE  g.tags[g.tags[u].split_left].split_right = u
  <2>1. CASE u = b
    BY <2>1, <1>5, <1>6
  <2>2. CASE u \in D /\ u = sr
    BY <2>2, <1>5, <1>6
  <2>3. CASE u \in D /\ u # sr
    <3> DEFINE y == h.tags[u].split_left
    <3>1. g.tags[u].split_left = y /\ y # NULL /\ y \in D
      BY <2>3, <1>1, <1>6, <1>9
    <3>2. h.tags[y].split_right = u
      BY <2>3, <3>1 DEF Tiled
    <3>3. y # t
      BY <2>3, <3>2
    <3>4. g.tags[y].split_right = u
      BY <3>1, <3>2, <3>3, <1>6
    <3> QED  BY <3>1, <3>4
  <2> QED  BY <2>1, <2>2, <2>3
<1>10. ASSUME NEW u \in D \cup {b}, NEW v \in D \cup {b}, u # v
       PROVE  Before(g.tags, u, v) \/ Before(g.tags, v, u)
  <2>1. ASSUME NEW x \in D, x # t
        PROVE  (Before(g.tags, x, b) \/ Before(g.tags, b, x)) /\ (Before(g.tags, x, t) \/ Before(g.tags, t, x))
    <3>1. x + h.tags[x].real_size <= t \/ t + h.tags[t].real_size <= x
      BY <2>1 DEF Tiled, Before
    <3>2. x \in Nat /\ t \in Nat /\ h.tags[x].real_size \in Nat /\ h.tags[t].real_size \in Nat
      BY <1>1
    <3>3. g.tags[x].real_size = h.tags[x].real_size /\ g.tags[t].real_size = keep
      BY <2>1, <1>6
    <3>4. x + h.tags[x].real_size <= b \/ b + (h.tags[t].real_size - keep) <= x
      BY <3>1, <3>2, <1>3, SMTT(20), SMTT(30)
    <3>5. x + h.tags[x].real_size <= t \/ t + keep <= x
      BY <3>1, <3>2, <1>1, <1>3, SMTT(20), SMTT(30)
    <3> QED  BY <3>3, <3>4, <3>5, <1>5 DEF Before
  <2>2. Before(g.tags, t, b)
    <3>1. t + keep <= b
      BY <1>1, <1>3, SMTT(20), SMTT(30)
    <3>2. g.tags[t].real_size = keep
      BY <1>6
    <3> QED  BY <3>1, <3>2 DEF Before
  <2>3. CASE u \in D /\ u # t /\ v \in D /\ v # t
    BY <2>3, <1>6, <1>10 DEF Tiled, Before
  <2>4. CASE u = t \/ u = b
    BY <2>1, <2>2, <2>4, <1>10, SMTT(20), SMTT(30)
  <2>5. CASE v = t \/ v = b
    BY <2>1, <2>2, <2>5, <1>10, SMTT(20), SMTT(30)
  <2> QED  BY <2>3, <2>4, <2>5
<1>11. ASSUME NEW r \in g.runs
       PROVE  /\ From(r) \in DOMAIN g.tags /\ g.tags[From(r)].split_left = NULL
              /\ r.pages >= PageCount
  <2>1. From(r) \in D /\ h.tags[From(r)].split_left = NULL /\ r.pages >= PageCount
    BY <1>4 DEF Tiled
  <2>2. From(r) # sr
    BY <2>1, <1>1, <1>2
  <2> QED  BY <2>1, <2>2, <1>4, <1>6
<1>12. \A r, s \in g.runs : r # s => r.page + r.pages <= s.page \/ s.page + s.pages <= r.page
  BY <1>4 DEF Tiled
<1> QED  BY <1>4, <1>7, <1>8, <1>9, <1>10, <1>11, <1>12 DEF Tiled

\* Splitting the block in hand keeps the allocator sound, with both in hand.
LEMMA DividesSound ==
  ASSUME NEW h, NEW f, NEW t, Sound(h, f, {t}), NEW b, NEW keep, Fits(h, t, b, keep),
         NEW g, Divides(h, g, t, b, keep)
  PROVE  Sound(g, f, {t, b}) /\ Kept(h, g) /\ LeftHeld(g, b) /\ (RightHeld(h, t) => RightHeld(g, b))
<1> DEFINE D  == DOMAIN h.tags
           sr == h.tags[t].split_right
<1>0. /\ Typed(h) /\ Filed(h) /\ Tiled(h) /\ Parted(h) /\ t \in D /\ h.tags[t].index = -1
      /\ NULL \notin D /\ sr \in D \cup {NULL} /\ -1 \notin Exponents
      /\ \A u \in D : h.tags[u].split_right \in D \cup {NULL}
  BY ExponentsAre, SMTT(20), SMTT(30) DEF Sound, Owned, Typed, TagType
<1>1. b \notin D /\ b # NULL
  BY <1>0, CutIsNew
<1>2. Tiled(g) /\ Typed(g)
  <2>1. Typed(g)
    BY DEF Divides
  <2> QED  BY <2>1, <1>0, DividesTiled
<1>3. DOMAIN g.tags = D \cup {b} /\ g.l_freePages = h.l_freePages /\ g.l_completePages = h.l_completePages
  BY DEF Divides, SameBut, Fields
<1>4. /\ g.tags[b].index = -1 /\ g.tags[b].split_left = t /\ g.tags[b].split_right = sr
      /\ g.tags[b].next = NULL /\ g.tags[b].prev = NULL
  BY DEF Divides, TagIs
<1>5. \A u \in D :
        /\ g.tags[u].size = h.tags[u].size /\ g.tags[u].index = h.tags[u].index
        /\ g.tags[u].real_size = IF u = t THEN keep ELSE h.tags[u].real_size
        /\ g.tags[u].split_left = IF u = sr THEN b ELSE h.tags[u].split_left
        /\ g.tags[u].split_right = IF u = t THEN b ELSE h.tags[u].split_right
        /\ g.tags[u].next = h.tags[u].next /\ g.tags[u].prev = h.tags[u].prev
  BY DEF Divides, TagIs
<1>6. Filed(g)
  <2>1. /\ \A u \in DOMAIN h.tags : u \in DOMAIN g.tags \/ h.tags[u].index = -1
        /\ \A u \in DOMAIN g.tags :
             IF u \in DOMAIN h.tags
             THEN /\ g.tags[u].index = h.tags[u].index
                  /\ g.tags[u].next = h.tags[u].next /\ g.tags[u].prev = h.tags[u].prev
             ELSE g.tags[u].index = -1 /\ g.tags[u].next = NULL /\ g.tags[u].prev = NULL
    BY <1>3, <1>4, <1>5
  <2> QED  BY <1>0, <1>3, <2>1, FiledFrame
<1>7. Parted(g)
  <2> SUFFICES ASSUME NEW u \in D \cup {b}, g.tags[u].split_right # NULL, g.tags[u].index # -1
               PROVE  g.tags[g.tags[u].split_right].index = -1
    BY <1>3 DEF Parted
  <2> DEFINE x == h.tags[u].split_right
  <2>1. u \in D /\ u # t
    BY <1>0, <1>4, <1>5
  <2>2. x \in D /\ g.tags[u].split_right = x /\ h.tags[u].index # -1
    BY <2>1, <1>0, <1>5
  <2>3. h.tags[x].index = -1
    BY <2>1, <2>2, <1>0 DEF Parted
  <2> QED  BY <2>2, <2>3, <1>5
<1>8. Indexed(g)
  <2> SUFFICES ASSUME NEW u \in D \cup {b}, g.tags[u].index # -1
               PROVE  g.tags[u].index = index_of(g, u)
    BY <1>3 DEF Indexed
  <2>1. u \in D /\ u # t
    BY <1>0, <1>4, <1>5
  <2>2. h.tags[u].index = index_of(h, u)
    BY <2>1, <1>5 DEF Sound, Indexed
  <2> QED  BY <2>1, <2>2, <1>5 DEF index_of
<1>9. Owned(g, f, {t, b})
  <2>1. \A p \in DOMAIN f : /\ p \in Int /\ p - TagSize \in D \ {t}
                            /\ h.tags[p - TagSize].index = -1
                            /\ h.tags[p - TagSize].size = f[p] /\ f[p] \in Sizes
                            /\ TagSize + f[p] <= h.tags[p - TagSize].real_size
    BY DEF Sound, Owned
  <2>2. \A p \in DOMAIN f : /\ p \in Int /\ p - TagSize \in DOMAIN g.tags \ {t, b}
                            /\ g.tags[p - TagSize].index = -1
                            /\ g.tags[p - TagSize].size = f[p] /\ f[p] \in Sizes
                            /\ TagSize + f[p] <= g.tags[p - TagSize].real_size
    BY <2>1, <1>1, <1>3, <1>5, SMTT(20), SMTT(30)
  <2>3. \A u \in DOMAIN g.tags \ {t, b} : g.tags[u].index = -1 => u + TagSize \in DOMAIN f
    BY <1>3, <1>5 DEF Sound, Owned
  <2>4. /\ {t, b} \subseteq DOMAIN g.tags /\ \A u \in {t, b} : g.tags[u].index = -1
        /\ f = [p \in DOMAIN f |-> f[p]]
    BY <1>0, <1>3, <1>4, <1>5 DEF Sound, Owned
  <2> QED  BY <2>2, <2>3, <2>4 DEF Owned
<1>10. Kept(h, g)
  <2>1. ASSUME NEW e \in Exponents, NEW u \in D \cup {b}
        PROVE  u \in CompleteSet(g, e) <=> u \in CompleteSet(h, e)
    <3>1. CASE u = b
      BY <3>1, <2>1, <1>0, <1>1, <1>4 DEF CompleteSet
    <3>2. CASE u = t
      BY <3>2, <2>1, <1>0, <1>5, SMTT(20), SMTT(30) DEF CompleteSet
    <3>3. CASE u \in D /\ u # t
      <4>1. g.tags[u].split_left = NULL <=> h.tags[u].split_left = NULL
        <5>1. u = sr => h.tags[u].split_left = t /\ t # NULL
          BY <3>3, <1>0, SMTT(20), SMTT(30) DEF Tiled
        <5> QED  BY <5>1, <3>3, <1>1, <1>5
      <4> QED  BY <3>3, <4>1, <1>3, <1>5 DEF CompleteSet, Whole
    <3> QED  BY <3>1, <3>2, <3>3
  <2>2. \A e \in Exponents : CompleteSet(g, e) = CompleteSet(h, e)
    <3>1. \A e \in Exponents : CompleteSet(g, e) \subseteq D \cup {b} /\ CompleteSet(h, e) \subseteq D \cup {b}
      BY <1>3 DEF CompleteSet
    <3> QED  BY <2>1, <3>1
  <2> QED  BY <2>2, <1>3 DEF Kept
<1>11. LeftHeld(g, b)
  BY <1>0, <1>4, <1>5 DEF LeftHeld
<1>12. RightHeld(h, t) => RightHeld(g, b)
  BY <1>0, <1>4, <1>5, SMTT(20), SMTT(30) DEF RightHeld
<1>13. Sound(g, f, {t, b})
  BY <1>2, <1>6, <1>7, <1>8, <1>9 DEF Sound
<1> QED  BY <1>10, <1>11, <1>12, <1>13

\* Kept is transitive.
LEMMA KeptOn ==
  ASSUME NEW h, NEW g, NEW k, Kept(h, g), Kept(g, k)
  PROVE  Kept(h, k)
  BY DEF Kept

\* The rest of the block in hand has become a free block.
SplitOff(h, g, f, t) ==
  /\ Sound(g, f, {t}) /\ Kept(h, g) /\ g.status = h.status
  /\ DOMAIN g.tags = DOMAIN h.tags \cup {t + TagSize + h.tags[t].size}
  /\ g.tags[t].size = h.tags[t].size
  /\ g.tags[t].real_size = TagSize + h.tags[t].size

\* split_tag keeps the allocator sound.  Its test leaves room for a tag, and the
\* new block has no free neighbour to its right, as malloc calls it.
LEMMA SplitSound ==
  ASSUME Counting, NEW h, NEW f, NEW t, Sound(h, f, {t}), RightHeld(h, t), splittable(h, t),
         NEW g, g = split_tag(h, t)
  PROVE  SplitOff(h, g, f, t)
<1> DEFINE keep == TagSize + h.tags[t].size
           b    == t + TagSize + h.tags[t].size
           h1   == cut(h, t)
           e    == index_of(h1, b)
<1>0. /\ Typed(h) /\ Tiled(h) /\ t \in DOMAIN h.tags /\ t \in Nat
      /\ h.tags[t].size \in Nat /\ h.tags[t].real_size \in Nat
      /\ TagSize \in Nat /\ TagSize > 0 /\ NULL \notin DOMAIN h.tags
  BY Sizing DEF Sound, Owned, Typed, TagType
<1>1. Fits(h, t, b, keep)
  <2>1. h.tags[t].real_size - h.tags[t].size - TagSize * 2 > 0
    BY DEF splittable
  <2>2. TagSize * 2 = TagSize + TagSize
    BY <1>0, SMTT(20), SMTT(30)
  <2> QED  BY <2>1, <2>2, <1>0, SMTT(20), SMTT(30) DEF Fits
<1>2. Divides(h, h1, t, b, keep)
  <2>1. keep = TagSize + h.tags[t].size
    OBVIOUS
  <2> HIDE DEF b, keep, h1
  <2>2. Divides(h, cut(h, t), t, b, keep)
    BY <2>1, <1>0, <1>1, CutFields
  <2> QED  BY <2>2 DEF h1
<1>3. g = insert_tag(h1, b, e)
  BY DEF split_tag, cut
<1>4. b \notin DOMAIN h.tags /\ b # t
  BY <1>0, <1>1, CutIsNew
<1> HIDE DEF b, keep, h1, e
<1>5. Sound(h1, f, {t, b}) /\ Kept(h, h1) /\ LeftHeld(h1, b) /\ RightHeld(h1, b)
  BY <1>1, <1>2, DividesSound
<1>6. /\ DOMAIN h1.tags = DOMAIN h.tags \cup {b} /\ h1.tags[b].split_left = t
      /\ h1.tags[t].size = h.tags[t].size /\ h1.tags[t].real_size = keep /\ h1.tags[b].index = -1
      /\ h1.status = h.status
  BY <1>0, <1>2 DEF Divides, TagIs, SameBut, Fields
<1>7. Typed(h1) /\ Filed(h1) /\ Tiled(h1) /\ b \in DOMAIN h1.tags
  BY <1>5, <1>6 DEF Sound
<1>8. e \in Exponents
  <2>1. h1.tags[b].real_size - TagSize \in Int
    BY <1>0, <1>7, SMTT(20), SMTT(30) DEF Typed, TagType
  <2> QED  BY <2>1, IndexType DEF index_of, e
<1>9. Refiled(h1, g, b, e)
  BY <1>3, <1>6, <1>7, <1>8, InsertRefiles
<1>10. Sound(g, f, {t})
  <2>1. b \in {t, b} /\ {t, b} \ {b} = {t}
    BY <1>4
  <2>2. Refiled(h1, g, b, index_of(h1, b)) /\ index_of(h1, b) \in Exponents
    BY <1>8, <1>9 DEF e
  <2>3. Sound(g, f, {t, b} \ {b})
    BY <2>1, <2>2, <1>5, FileSound
  <2> QED  BY <2>1, <2>3
<1>11. /\ DOMAIN g.tags = DOMAIN h1.tags /\ g.l_completePages = h1.l_completePages
       /\ \A u \in DOMAIN h1.tags :
            /\ g.tags[u].index = IF u = b THEN e ELSE h1.tags[u].index
            /\ g.tags[u].size = h1.tags[u].size /\ g.tags[u].real_size = h1.tags[u].real_size
            /\ Whole(g.tags[u]) <=> Whole(h1.tags[u])
  BY <1>7, <1>9, RefiledSame, SMTT(20), SMTT(30)
<1>12. ~ Whole(h1.tags[b])
  BY <1>0, <1>6 DEF Whole
<1>13. Kept(h1, g)
  BY <1>11, <1>12 DEF Kept, CompleteSet
<1>14. Kept(h, g)
  BY <1>5, <1>13, KeptOn
<1>15. g.status = h1.status
  BY <1>9 DEF Refiled, SameBut, Fields
<1> QED  BY <1>0, <1>6, <1>10, <1>11, <1>14, <1>15 DEF b, keep, SplitOff

\* The lowest of a nonempty set of numbers is one of them.
LEMMA LowestIn ==
  ASSUME Counting, NEW S, S \subseteq Nat, S # {}
  PROVE  lowest(S) \in S /\ \A x \in S : lowest(S) <= x
<1>1. \E x \in S : \A y \in S : x <= y
  BY LeastNat
<1> QED  BY <1>1, Zenon DEF lowest

\* allocate_new_tag brings a run that overlaps none of the others, as one block
\* in hand that is large enough.
LEMMA NewRunSound ==
  ASSUME Counting, NEW h, NEW f, Sound(h, f, {}), NEW size \in Nat, FreeRuns(h, pages_for(size)) # {},
         NEW g, g = allocate_new_tag(h, size)
  PROVE  \E t : /\ Sound(g, f, {t}) /\ Kept(h, g) /\ g.status = h.status /\ RightHeld(g, t)
                /\ t \notin DOMAIN h.tags /\ DOMAIN g.tags = DOMAIN h.tags \cup {t}
                /\ t \in Nat /\ TagSize + size <= g.tags[t].real_size
<1> DEFINE D     == DOMAIN h.tags
           pages == pages_for(size)
           page  == lowest(FreeRuns(h, pages))
           t     == page * PageSize
           tag   == [size |-> size, real_size |-> pages * PageSize, index |-> -1,
                     split_left |-> NULL, split_right |-> NULL, next |-> NULL, prev |-> NULL]
           r0    == [page |-> page, pages |-> pages]
<1>0. /\ Typed(h) /\ Filed(h) /\ Tiled(h) /\ Parted(h)
      /\ D \subseteq Nat /\ NULL \notin D /\ h.tags \in [D -> TagType(D)]
      /\ h.runs \subseteq [page : Nat, pages : Nat] /\ -1 \notin Exponents
      /\ TagSize \in Nat /\ TagSize > 0 /\ PageSize \in Nat /\ PageSize > 0
      /\ \A u \in D : /\ h.tags[u].real_size \in Nat
                      /\ h.tags[u].split_left \in D \cup {NULL}
                      /\ h.tags[u].split_right \in D \cup {NULL}
  BY Sizing, ExponentsAre, SMTT(20), SMTT(30) DEF Sound, Typed, TagType
<1>1. pages \in Nat /\ pages >= PageCount /\ size + TagSize <= pages * PageSize
  BY PagesEnough
<1>2. g.tags = [u \in D \cup {t} |-> IF u = t THEN tag ELSE h.tags[u]]
      /\ g.runs = h.runs \cup {r0}
      /\ SameBut(h, g, {"tags", "runs"})
      /\ g = [x \in DOMAIN g |-> g[x]]
  BY <1>0 DEF allocate_new_tag, Typed, Fields, SameBut
<1>3. page \in FreeRuns(h, pages)
  <2>1. FreeRuns(h, pages) \subseteq Nat
    BY SMTT(20), SMTT(30) DEF FreeRuns
  <2> QED  BY <2>1, LowestIn
<1> HIDE DEF page, pages
<1>4. /\ page \in Nat /\ page >= 1
      /\ \A r \in h.runs : page + pages <= r.page \/ r.page + r.pages <= page
  BY <1>3, SMTT(20), SMTT(30) DEF FreeRuns
<1>5. /\ r0 \in [page : Nat, pages : Nat] /\ From(r0) = t /\ t \in Nat
      /\ Upto(r0) = t + pages * PageSize /\ pages * PageSize \in Nat
  <2>1. r0 \in [page : Nat, pages : Nat] /\ r0.page = page /\ r0.pages = pages
    BY <1>1, <1>4
  <2> HIDE DEF r0
  <2>2. From(r0) = t
    BY <2>1 DEF From
  <2> QED  BY <2>1, <2>2, Bounds
<1>6. t # NULL
  BY <1>0, <1>4, SMTT(20), SMTT(30) DEF NULL
<1>7. TagIs(tag, size, pages * PageSize, -1, NULL, NULL, NULL, NULL) /\ tag \in TagType(D \cup {t})
  BY <1>5 DEF TagIs, TagType
<1>8. r0.page = page /\ r0.pages = pages
  OBVIOUS
<1> HIDE DEF tag, r0, t
<1>9. ASSUME NEW u \in D
      PROVE  u + h.tags[u].real_size <= t \/ t + pages * PageSize <= u
  <2>1. PICK r \in h.runs : InRun(h.tags[u], u, r)
    BY <1>0 DEF Tiled
  <2>2. From(r) <= u /\ u + h.tags[u].real_size <= Upto(r)
    BY <2>1 DEF InRun
  <2>3. r.page \in Nat /\ r.pages \in Nat /\ r.page + r.pages \in Nat /\ page + pages \in Nat
    BY <1>0, <1>1, <1>4, SMTT(20), SMTT(30)
  <2>4. CASE page + pages <= r.page
    <3>1. (page + pages) * PageSize <= r.page * PageSize
      BY <2>3, <2>4, Times
    <3>2. Upto(r0) <= From(r)
      BY <3>1, <1>8 DEF Upto, From
    <3>3. From(r) \in Nat /\ Upto(r0) \in Nat
      BY <1>0, <1>5, Bounds
    <3> QED  BY <3>2, <3>3, <2>2, <1>0, <1>5, SMTT(20), SMTT(30)
  <2>5. CASE r.page + r.pages <= page
    <3>1. (r.page + r.pages) * PageSize <= page * PageSize
      BY <2>3, <2>5, <1>4, Times
    <3>2. Upto(r) <= t
      BY <3>1, <1>5, <1>8 DEF Upto, From
    <3>3. Upto(r) \in Nat
      BY <1>0, Bounds
    <3> QED  BY <3>2, <3>3, <2>2, <1>0, <1>5, SMTT(20), SMTT(30)
  <2> QED  BY <2>4, <2>5, <1>4
<1>10. t \notin D
  <2>1. t \in D => TagSize <= h.tags[t].real_size /\ h.tags[t].real_size \in Nat
    BY <1>0 DEF Tiled
  <2>2. t \in D => t + h.tags[t].real_size <= t \/ t + pages * PageSize <= t
    BY <1>9
  <2> QED  BY <2>1, <2>2, <1>0, <1>1, <1>5, SMTT(20), SMTT(30)
<1>11. DOMAIN g.tags = D \cup {t} /\ g.tags[t] = tag /\ \A u \in D : g.tags[u] = h.tags[u]
  BY <1>2, <1>10
<1>12. /\ g.tags[t].size = size /\ g.tags[t].real_size = pages * PageSize
       /\ g.tags[t].index = -1 /\ g.tags[t].split_left = NULL /\ g.tags[t].split_right = NULL
       /\ g.tags[t].next = NULL /\ g.tags[t].prev = NULL
  BY <1>7, <1>11 DEF TagIs
<1>13. /\ g.l_freePages = h.l_freePages /\ g.l_completePages = h.l_completePages
       /\ g.status = h.status /\ DOMAIN g = DOMAIN h
  BY <1>2 DEF SameBut, Fields
<1>14. Typed(g)
  <2>1. TagType(D) \subseteq TagType(D \cup {t})
    BY DEF TagType
  <2>2. g.tags \in [D \cup {t} -> TagType(D \cup {t})]
    BY <2>1, <1>0, <1>2, <1>7
  <2>3. g.l_freePages \in [Exponents -> (D \cup {t}) \cup {NULL}] /\ g.l_completePages \in [Exponents -> Int]
    BY <1>0, <1>13 DEF Typed
  <2>4. D \cup {t} \subseteq Nat \ {NULL} /\ g.runs \subseteq [page : Nat, pages : Nat]
    BY <1>0, <1>2, <1>5, <1>6, SMTT(20), SMTT(30)
  <2>5. DOMAIN g = Fields
    BY <1>0, <1>13 DEF Typed
  <2> QED  BY <2>2, <2>3, <2>4, <2>5, <1>2, <1>11 DEF Typed
<1>15. Filed(g)
  <2>1. /\ \A u \in DOMAIN h.tags : u \in DOMAIN g.tags \/ h.tags[u].index = -1
        /\ \A u \in DOMAIN g.tags :
             IF u \in DOMAIN h.tags
             THEN /\ g.tags[u].index = h.tags[u].index
                  /\ g.tags[u].next = h.tags[u].next /\ g.tags[u].prev = h.tags[u].prev
             ELSE g.tags[u].index = -1 /\ g.tags[u].next = NULL /\ g.tags[u].prev = NULL
    BY <1>11, <1>12
  <2> QED  BY <1>0, <1>13, <2>1, FiledFrame
<1>16. Tiled(g)
  <2>1. ASSUME NEW u \in D \cup {t}
        PROVE  /\ TagSize <= g.tags[u].real_size
               /\ \E r \in g.runs : InRun(g.tags[u], u, r)
    <3>1. CASE u = t
      <4>1. TagSize <= pages * PageSize
        BY <1>0, <1>1, <1>5, SMTT(20), SMTT(30)
      <4>2. InRun(g.tags[t], t, r0)
        BY <1>5, <1>12, SMTT(20), SMTT(30) DEF InRun
      <4> QED  BY <3>1, <4>1, <4>2, <1>2, <1>12
    <3>2. CASE u \in D
      <4>1. /\ TagSize <= h.tags[u].real_size
            /\ \E r \in h.runs : InRun(h.tags[u], u, r)
        BY <3>2, <1>0 DEF Tiled
      <4> QED  BY <3>2, <4>1, <1>2, <1>11
    <3> QED  BY <3>1, <3>2
  <2>2. ASSUME NEW u \in D \cup {t}
        PROVE  /\ g.tags[u].split_right # NULL =>
                    /\ g.tags[u].split_right = u + g.tags[u].real_size
                    /\ g.tags[g.tags[u].split_right].split_left = u
               /\ g.tags[u].split_left # NULL =>
                    g.tags[g.tags[u].split_left].split_right = u
    <3>1. CASE u = t
      BY <3>1, <1>12
    <3>2. CASE u \in D
      <4> DEFINE x == h.tags[u].split_right
                 y == h.tags[u].split_left
      <4>1. /\ x # NULL => x \in D /\ x = u + h.tags[u].real_size /\ h.tags[x].split_left = u
            /\ y # NULL => y \in D /\ h.tags[y].split_right = u
        BY <3>2, <1>0 DEF Tiled
      <4> QED  BY <3>2, <4>1, <1>11
    <3> QED  BY <3>1, <3>2
  <2>3. ASSUME NEW u \in D \cup {t}, NEW v \in D \cup {t}, u # v
        PROVE  Before(g.tags, u, v) \/ Before(g.tags, v, u)
    <3>1. CASE u \in D /\ v \in D
      BY <3>1, <2>3, <1>0, <1>11 DEF Tiled, Before
    <3>2. CASE u = t /\ v \in D
      BY <3>2, <1>9, <1>11, <1>12 DEF Before
    <3>3. CASE v = t /\ u \in D
      BY <3>3, <1>9, <1>11, <1>12 DEF Before
    <3> QED  BY <3>1, <3>2, <3>3, <2>3
  <2>4. ASSUME NEW r \in g.runs
        PROVE  /\ From(r) \in DOMAIN g.tags /\ g.tags[From(r)].split_left = NULL
               /\ r.pages >= PageCount
    <3>1. CASE r = r0
      BY <3>1, <1>1, <1>5, <1>8, <1>11, <1>12
    <3>2. CASE r \in h.runs
      <4>1. From(r) \in D /\ h.tags[From(r)].split_left = NULL /\ r.pages >= PageCount
        BY <3>2, <1>0 DEF Tiled
      <4> QED  BY <4>1, <1>11
    <3> QED  BY <3>1, <3>2, <1>2
  <2>5. ASSUME NEW r \in g.runs, NEW s \in g.runs, r # s
        PROVE  r.page + r.pages <= s.page \/ s.page + s.pages <= r.page
    <3>1. CASE r \in h.runs /\ s \in h.runs
      BY <3>1, <2>5, <1>0 DEF Tiled
    <3>2. CASE r = r0 /\ s \in h.runs
      BY <3>2, <1>4, <1>8
    <3>3. CASE s = r0 /\ r \in h.runs
      BY <3>3, <1>4, <1>8
    <3> QED  BY <3>1, <3>2, <3>3, <2>5, <1>2
  <2> QED  BY <2>1, <2>2, <2>3, <2>4, <2>5, <1>11 DEF Tiled
<1>17. Parted(g)
  <2> SUFFICES ASSUME NEW u \in D \cup {t}, g.tags[u].split_right # NULL
               PROVE  g.tags[u].index = -1 \/ g.tags[g.tags[u].split_right].index = -1
    BY <1>11 DEF Parted
  <2>1. u \in D
    BY <1>12
  <2> DEFINE x == h.tags[u].split_right
  <2>2. x \in D /\ g.tags[u] = h.tags[u]
    BY <2>1, <1>0, <1>11
  <2>3. h.tags[u].index = -1 \/ h.tags[x].index = -1
    BY <2>1, <2>2, <1>0 DEF Parted
  <2> QED  BY <2>2, <2>3, <1>11
<1>18. Indexed(g)
  BY <1>11, <1>12 DEF Sound, Indexed, index_of
<1>19. Owned(g, f, {t})
  BY <1>10, <1>11, <1>12 DEF Sound, Owned
<1>20. Kept(h, g)
  <2>1. \A e \in Exponents : CompleteSet(g, e) = CompleteSet(h, e)
    BY <1>0, <1>11, <1>12 DEF CompleteSet
  <2> QED  BY <2>1, <1>13 DEF Kept
<1>21. Sound(g, f, {t})
  BY <1>14, <1>15, <1>16, <1>17, <1>18, <1>19 DEF Sound
<1>22. RightHeld(g, t) /\ TagSize + size <= g.tags[t].real_size
  BY <1>0, <1>1, <1>5, <1>12, SMTT(20), SMTT(30) DEF RightHeld
<1> QED  BY <1>5, <1>10, <1>11, <1>13, <1>20, <1>21, <1>22

\* One step along a free list.
Follow(h, t) == IF t = NULL THEN NULL ELSE h.tags[t].next

\* The walk along the free list of e, N steps long.
Walk(h, e, N, at) ==
  at = [i \in 0..N |-> IF i = 0 THEN h.l_freePages[e] ELSE Follow(h, at[i - 1])]

\* The walk has visited the n tags of c, and then stands at NULL.
Visits(at, N, n, c) == \A i \in 0..N : at[i] = IF i < n THEN c[i + 1] ELSE NULL

\* A function that follows the rail is a walk.
LEMMA WalkExists ==
  ASSUME NEW h, NEW e, NEW n, NEW c, Rail(h.tags, h.l_freePages[e], n, c), NEW N \in Nat,
         NULL \notin DOMAIN h.tags,
         NEW g, g = [i \in 0..N |-> IF i < n THEN c[i + 1] ELSE NULL]
  PROVE  Walk(h, e, N, g)
<1>1. /\ n \in Nat /\ c[n + 1] = NULL /\ c[1] = h.l_freePages[e]
      /\ \A i \in 1..n : c[i] \in DOMAIN h.tags /\ h.tags[c[i]].next = c[i + 1]
  BY DEF Rail
<1>2. ASSUME NEW i \in 0..N
      PROVE  g[i] = IF i = 0 THEN h.l_freePages[e] ELSE Follow(h, g[i - 1])
  <2>1. CASE i = 0
    BY <2>1, <1>1, SMTT(20), SMTT(30)
  <2>2. CASE i # 0
    <3>1. i - 1 \in 0..N /\ g[i - 1] = IF i - 1 < n THEN c[(i - 1) + 1] ELSE NULL
      BY <2>2, SMTT(20), SMTT(30)
    <3>2. CASE i <= n
      <4>1. i \in 1..n /\ g[i - 1] = c[i]
        BY <2>2, <3>1, <3>2, <1>1, SMTT(20), SMTT(30)
      <4>2. Follow(h, g[i - 1]) = c[i + 1]
        BY <4>1, <1>1 DEF Follow
      <4>3. g[i] = c[i + 1]
        <5>1. i = n => c[i + 1] = NULL
          BY <1>1
        <5> QED  BY <3>2, <5>1, <1>1, SMTT(20), SMTT(30)
      <4> QED  BY <2>2, <4>2, <4>3
    <3>3. CASE i > n
      <4>1. g[i - 1] = NULL
        BY <3>1, <3>3, <1>1, SMTT(20), SMTT(30)
      <4>2. g[i] = NULL
        BY <3>3, <1>1, SMTT(20), SMTT(30)
      <4> QED  BY <2>2, <4>1, <4>2 DEF Follow
    <3> QED  BY <3>2, <3>3, <1>1, SMTT(20), SMTT(30)
  <2> QED  BY <2>1, <2>2
<1>3. g = [i \in 0..N |-> g[i]]
  OBVIOUS
<1> QED  BY <1>2, <1>3 DEF Walk

\* A walk follows the rail: the recursive function of FreeList is known in
\* closed form.
LEMMA WalkIsRail ==
  ASSUME Counting, NEW h, NEW e, NEW n, NEW c, Rail(h.tags, h.l_freePages[e], n, c), NEW N \in Nat,
         NULL \notin DOMAIN h.tags, NEW at, Walk(h, e, N, at)
  PROVE  Visits(at, N, n, c)
<1> DEFINE g == [i \in 0..N |-> IF i < n THEN c[i + 1] ELSE NULL]
           T == {i \in 0..N : at[i] # g[i]}
<1>0. g = [i \in 0..N |-> IF i < n THEN c[i + 1] ELSE NULL]
  OBVIOUS
<1>1. Walk(h, e, N, g)
  <2> HIDE DEF g
  <2> QED  BY <1>0, WalkExists
<1>2. /\ \A i \in 0..N : g[i] = IF i = 0 THEN h.l_freePages[e] ELSE Follow(h, g[i - 1])
      /\ \A i \in 0..N : at[i] = IF i = 0 THEN h.l_freePages[e] ELSE Follow(h, at[i - 1])
  <2> HIDE DEF g
  <2> QED  BY <1>1 DEF Walk
<1>3. T = {}
  <2> SUFFICES ASSUME T # {} PROVE FALSE
    OBVIOUS
  <2>1. T \subseteq Nat
    BY SMTT(20), SMTT(30)
  <2> HIDE DEF T
  <2>2. PICK x \in T : \A y \in T : x <= y
    BY <2>1, LeastNat
  <2>3. x \in 0..N /\ at[x] # g[x]
    BY <2>2 DEF T
  <2> HIDE DEF g
  <2>4. x # 0
    BY <2>3, <1>2
  <2>5. x - 1 \in 0..N /\ x - 1 \notin T
    BY <2>2, <2>3, <2>4, SMTT(20), SMTT(30)
  <2>6. at[x - 1] = g[x - 1]
    BY <2>5 DEF T
  <2> QED  BY <2>3, <2>4, <2>6, <1>2
<1> QED  BY <1>3 DEF Visits

-----------------------------------------------------------------------------

\* A sequence lists the tags of a rail.
Lines(list, n, c) == list = [i \in 1..n |-> c[i]]

\* A loop whose first step reaches a state that the next ones do not leave.
LEMMA Settles ==
  ASSUME Counting, NEW N \in Nat, N >= 1, NEW x, NEW at, at[1] = x,
         \A i \in 2..N : at[i - 1] = x => at[i] = x
  PROVE  at[N] = x
<1> DEFINE T == {i \in 1..N : at[i] # x}
<1>1. T = {}
  <2> SUFFICES ASSUME T # {} PROVE FALSE
    OBVIOUS
  <2>1. T \subseteq Nat
    BY SMTT(20), SMTT(30)
  <2> HIDE DEF T
  <2>2. PICK k \in T : \A y \in T : k <= y
    BY <2>1, LeastNat
  <2>3. k \in 1..N /\ at[k] # x
    BY <2>2 DEF T
  <2>4. k # 1
    BY <2>3
  <2>5. k \in 2..N /\ k - 1 \in 1..N /\ k - 1 \notin T
    BY <2>2, <2>3, <2>4, SMTT(20), SMTT(30)
  <2>6. at[k - 1] = x
    BY <2>5 DEF T
  <2> QED  BY <2>3, <2>5, <2>6
<1> QED  BY <1>1, SMTT(20), SMTT(30)

\* The first loop of free: its condition, its body, its iterations.
can_melt(x) == /\ x.h.tags[x.t].split_left # NULL
               /\ x.h.tags[x.h.tags[x.t].split_left].index >= 0

melt_step(x) ==
  IF can_melt(x)
  THEN LET left == x.h.tags[x.t].split_left
       IN  [h |-> remove_tag(melt_left(x.h, x.t), left), t |-> left]
  ELSE x

Melting(N, x, at) == at = [i \in 0..N |-> IF i = 0 THEN x ELSE melt_step(at[i - 1])]

\* The second loop of free: its condition, its body, its iterations.
can_absorb(g, t) == g.tags[t].split_right # NULL /\ g.tags[g.tags[t].split_right].index >= 0

absorb_step(g, t) == IF can_absorb(g, t) THEN absorb_right(g, t) ELSE g

Absorbing(N, h, t, at) == at = [i \in 0..N |-> IF i = 0 THEN h ELSE absorb_step(at[i - 1], t)]

\* A free neighbour has been taken in, or there was none.
Grown(h, g, f, t) ==
  /\ Sound(g, f, {t}) /\ LeftHeld(g, t)
  /\ Kept(h, g) /\ DOMAIN g.tags \subseteq DOMAIN h.tags /\ g.status = h.status

\* The first loop of free is done after one iteration.
LEMMA MeltStep ==
  ASSUME NEW h, NEW f, NEW t, Sound(h, f, {t}), NEW x, x = melt_step([h |-> h, t |-> t])
  PROVE  Grown(h, x.h, f, x.t) /\ melt_step(x) = x
<1> DEFINE x0   == [h |-> h, t |-> t]
           left == h.tags[t].split_left
<1>a. x0.h = h /\ x0.t = t
  OBVIOUS
<1>0. /\ Typed(h) /\ Tiled(h) /\ t \in DOMAIN h.tags /\ left \in DOMAIN h.tags \cup {NULL}
      /\ \A u \in DOMAIN h.tags : h.tags[u].index \in {-1} \cup Exponents
      /\ Exponents \subseteq Nat
  BY ExponentsAre DEF Sound, Owned, Typed, TagType
<1>1. Grown(h, x.h, f, x.t)
  <2>1. CASE can_melt(x0)
    <3> DEFINE g == remove_tag(melt_left(h, t), left)
    <3>1. x = [h |-> g, t |-> left]
      BY <2>1, <1>a DEF melt_step
    <3>2. left # NULL /\ h.tags[left].index >= 0
      BY <2>1, <1>a DEF can_melt
    <3>3. Fused(h, g, left, t) /\ left \in DOMAIN h.tags /\ h.tags[left].split_right = t /\ Melted(h, g, f, left)
      BY <3>2, MeltOnce
    <3> HIDE DEF g
    <3>4. Kept(h, g)
      BY <3>3, <1>0, FusedKept
    <3>5. DOMAIN g.tags \subseteq DOMAIN h.tags /\ g.status = h.status
      BY <3>3 DEF Fused, SameBut, Fields
    <3>6. x.h = g /\ x.t = left
      BY <3>1, SMTT(20), SMTT(30)
    <3> QED  BY <3>3, <3>4, <3>5, <3>6 DEF Melted, Grown
  <2>2. CASE ~ can_melt(x0)
    <3>1. x = x0
      BY <2>2 DEF melt_step
    <3>2. left # NULL => h.tags[left].index = -1
      <4>1. left # NULL => ~(h.tags[left].index >= 0)
        BY <2>2, <1>a DEF can_melt
      <4>2. left # NULL => h.tags[left].index = -1 \/ h.tags[left].index \in Nat
        BY <1>0
      <4> QED  BY <4>1, <4>2, SMTT(20), SMTT(30)
    <3> QED  BY <3>1, <3>2, <1>a DEF Grown, LeftHeld, Kept
  <2> QED  BY <2>1, <2>2
<1>2. ~ can_melt(x)
  <2>1. LeftHeld(x.h, x.t)
    BY <1>1 DEF Grown
  <2>2. ~(-1 >= 0)
    BY SMTT(20), SMTT(30)
  <2> QED  BY <2>1, <2>2 DEF LeftHeld, can_melt
<1> QED  BY <1>1, <1>2 DEF melt_step

\* The second loop of free is done after one iteration.
LEMMA AbsorbStep ==
  ASSUME NEW h, NEW f, NEW t, Sound(h, f, {t}), LeftHeld(h, t), NEW g, g = absorb_step(h, t)
  PROVE  Grown(h, g, f, t) /\ RightHeld(g, t) /\ absorb_step(g, t) = g
<1> DEFINE r == h.tags[t].split_right
<1>0. /\ Typed(h) /\ Tiled(h) /\ t \in DOMAIN h.tags /\ r \in DOMAIN h.tags \cup {NULL}
      /\ \A u \in DOMAIN h.tags : h.tags[u].index \in {-1} \cup Exponents
      /\ Exponents \subseteq Nat
  BY ExponentsAre DEF Sound, Owned, Typed, TagType
<1>1. Grown(h, g, f, t) /\ RightHeld(g, t)
  <2>1. CASE can_absorb(h, t)
    <3>1. g = absorb_right(h, t)
      BY <2>1 DEF absorb_step
    <3>2. r # NULL /\ h.tags[r].index >= 0
      BY <2>1 DEF can_absorb
    <3>3. Fused(h, g, t, r) /\ r \in DOMAIN h.tags /\ Absorbed(h, g, f, t)
      BY <3>1, <3>2, AbsorbOnce
    <3>4. Kept(h, g)
      BY <3>3, <1>0, FusedKept
    <3>5. DOMAIN g.tags \subseteq DOMAIN h.tags /\ g.status = h.status
      BY <3>3 DEF Fused, SameBut, Fields
    <3> QED  BY <3>3, <3>4, <3>5 DEF Absorbed, Grown
  <2>2. CASE ~ can_absorb(h, t)
    <3>1. g = h
      BY <2>2 DEF absorb_step
    <3>2. r # NULL => h.tags[r].index = -1
      <4>1. r # NULL => ~(h.tags[r].index >= 0)
        BY <2>2 DEF can_absorb
      <4>2. r # NULL => h.tags[r].index = -1 \/ h.tags[r].index \in Nat
        BY <1>0
      <4> QED  BY <4>1, <4>2, SMTT(20), SMTT(30)
    <3> QED  BY <3>1, <3>2 DEF Grown, RightHeld, Kept
  <2> QED  BY <2>1, <2>2
<1>2. ~ can_absorb(g, t)
  <2>1. ~(-1 >= 0)
    BY SMTT(20), SMTT(30)
  <2> QED  BY <2>1, <1>1 DEF RightHeld, can_absorb
<1> QED  BY <1>1, <1>2 DEF absorb_step

\* l_completePages counts the whole runs that stand by, and keeps its limit.
Counted(h) ==
  /\ IsFiniteSet(DOMAIN h.tags)
  /\ \A e \in Exponents : /\ h.l_completePages[e] = Cardinality(CompleteSet(h, e))
                          /\ h.l_completePages[e] <= MAXCOMPLETE

\* The counts stay right where no whole run comes or goes.
LEMMA KeptCounted ==
  ASSUME NEW h, Counted(h), NEW g, Kept(h, g), IsFiniteSet(DOMAIN g.tags)
  PROVE  Counted(g)
  BY DEF Counted, Kept

\* The inductive invariant: the state of the allocator between two calls.
Good(h, f) == Sound(h, f, {}) /\ Counted(h)

\* Subsets of the tags are finite.
LEMMA Count ==
  ASSUME Counting
  PROVE  /\ IsFiniteSet({}) /\ Cardinality({}) = 0
         /\ \A S : IsFiniteSet(S) => Cardinality(S) \in Nat
         /\ \A S, T : IsFiniteSet(S) /\ T \subseteq S => IsFiniteSet(T)
  BY DEF Counting

\* One more element counts for one.
LEMMA CountIn ==
  ASSUME Counting, NEW S, IsFiniteSet(S), NEW x
  PROVE  IsFiniteSet(S \cup {x}) /\ (x \notin S => Cardinality(S \cup {x}) = Cardinality(S) + 1)
  BY DEF Counting

\* One element less counts for one.
LEMMA CountOut ==
  ASSUME Counting, NEW S, IsFiniteSet(S), NEW x \in S
  PROVE  Cardinality(S \ {x}) = Cardinality(S) - 1
  BY DEF Counting

\* The positions of a list of n tags are n.
LEMMA Positions ==
  ASSUME Counting, NEW n \in Nat
  PROVE  Cardinality(0..(n - 1)) = n /\ Cardinality(1..n) = n
  BY DEF Counting

\* A free list is no longer than there are tags.
LEMMA RailBound ==
  ASSUME Counting, NEW T, IsFiniteSet(DOMAIN T), NEW head, NEW n, NEW c, Rail(T, head, n, c)
  PROVE  Cardinality(DOMAIN T) \in Nat /\ n <= Cardinality(DOMAIN T)
<1> DEFINE f == [i \in 1..n |-> c[i]]
<1>1. n \in Nat
  BY DEF Rail
<1>2. OneToOne(f, 1..n, DOMAIN T)
  BY DEF OneToOne, Rail
<1> HIDE DEF f
<1>3. Cardinality(1..n) <= Cardinality(DOMAIN T) /\ Cardinality(DOMAIN T) \in Nat
  BY <1>2 DEF Counting
<1> QED  BY <1>1, <1>3, Positions

\* FreeList, the walk of malloc's search, is the rail of the list.
LEMMA FreeListIsRail ==
  ASSUME Counting, NEW h, Typed(h), IsFiniteSet(DOMAIN h.tags), NEW e, NEW n, NEW c, Rail(h.tags, h.l_freePages[e], n, c)
  PROVE  Lines(FreeList(h, e), n, c)
<1> DEFINE N  == Cardinality(DOMAIN h.tags) + 1
           at == CHOOSE at : Walk(h, e, N, at)
           on == {i \in DOMAIN at : at[i] # NULL}
<1>0. /\ NULL \notin DOMAIN h.tags /\ n \in Nat
      /\ \A i \in 1..n : c[i] \in DOMAIN h.tags
  BY DEF Typed, Rail
<1>1. N \in Nat /\ n <= N
  <2>1. Cardinality(DOMAIN h.tags) \in Nat /\ n <= Cardinality(DOMAIN h.tags)
    BY RailBound
  <2> QED  BY <2>1, <1>0, SMTT(20), SMTT(30)
<1>2. FreeList(h, e) = [i \in 1..Cardinality(on) |-> at[i - 1]]
  BY DEF FreeList, Walk, Follow
<1> HIDE DEF N
<1>3. Walk(h, e, N, at)
  <2>1. \E g : Walk(h, e, N, g)
    BY <1>0, <1>1, WalkExists
  <2> QED  BY <2>1, Zenon
<1> HIDE DEF at
<1>4. \A i \in 0..N : at[i] = IF i < n THEN c[i + 1] ELSE NULL
  <2>1. Visits(at, N, n, c)
    BY <1>0, <1>1, <1>3, WalkIsRail
  <2> QED  BY <2>1 DEF Visits
<1>5. on = 0..(n - 1)
  <2>1. DOMAIN at = 0..N
    BY <1>3 DEF Walk
  <2>2. \A i \in 0..N : i < n => c[i + 1] # NULL
    BY <1>0, SMTT(20), SMTT(30)
  <2> QED  BY <2>1, <2>2, <1>0, <1>1, <1>4, SMTT(20), SMTT(30)
<1> HIDE DEF on
<1>6. Cardinality(on) = n
  BY <1>0, <1>5, Positions
<1>7. \A i \in 1..n : at[i - 1] = c[i]
  BY <1>0, <1>1, <1>4, SMTT(20), SMTT(30)
<1> QED  BY <1>2, <1>6, <1>7 DEF Lines

\* What the search of malloc finds is free, in the list of the request's
\* exponent, and large enough.
LEMMA FoundFits ==
  ASSUME Counting, NEW h, Typed(h), Filed(h), IsFiniteSet(DOMAIN h.tags), NEW size \in Nat,
         NEW t, t = found(h, size), t # NULL,
         NEW e, e = atleast_MINEXP(getexp(size))
  PROVE  t \in DOMAIN h.tags /\ e \in Exponents /\ h.tags[t].index = e /\ large_enough(h.tags[t], size)
<1> DEFINE list == FreeList(h, e)
           hits == {i \in DOMAIN list : large_enough(h.tags[list[i]], size)}
<1>0. e \in Exponents
  BY IndexType, SMTT(20), SMTT(30)
<1>1. PICK n, c : ListOf(h, e, n, c)
  BY <1>0 DEF Filed
<1>2. Rail(h.tags, h.l_freePages[e], n, c)
  BY <1>1 DEF ListOf
<1>3. list = [i \in 1..n |-> c[i]]
  <2>1. Lines(list, n, c)
    BY <1>2, FreeListIsRail
  <2> QED  BY <2>1 DEF Lines
<1>4. t = IF hits = {} THEN NULL ELSE list[lowest(hits)]
  BY DEF found
<1> HIDE DEF list
<1>5. hits # {} /\ t = list[lowest(hits)]
  BY <1>4
<1>6. lowest(hits) \in hits
  <2>1. hits \subseteq Nat
    BY <1>3, SMTT(20), SMTT(30)
  <2> HIDE DEF hits
  <2> QED  BY <2>1, <1>5, LowestIn
<1> DEFINE k == lowest(hits)
<1>7. k \in 1..n /\ t = c[k] /\ large_enough(h.tags[c[k]], size)
  <2> HIDE DEF k
  <2>1. k \in hits /\ t = list[k]
    BY <1>5, <1>6 DEF k
  <2> QED  BY <2>1, <1>3
<1> HIDE DEF k
<1>8. c[k] \in DOMAIN h.tags
  BY <1>2, <1>7 DEF Rail
<1>9. h.tags[c[k]].index = e
  BY <1>1, <1>7, <1>8 DEF ListOf
<1> QED  BY <1>0, <1>7, <1>8, <1>9

\* The first loop of free as a whole.
LEMMA MeltAll ==
  ASSUME Counting, NEW h, NEW f, NEW t, Sound(h, f, {t}), IsFiniteSet(DOMAIN h.tags), NEW x, x = melt_all(h, t)
  PROVE  Grown(h, x.h, f, x.t)
<1> DEFINE N  == Cardinality(DOMAIN h.tags)
           x0 == [h |-> h, t |-> t]
           x1 == melt_step(x0)
           at == CHOOSE at : Melting(N, x0, at)
<1>1. N \in Nat /\ N >= 1
  <2>1. t \in DOMAIN h.tags
    BY DEF Sound, Owned
  <2>2. Cardinality(DOMAIN h.tags \ {t}) = N - 1 /\ N \in Nat
    BY <2>1, CountOut, Count
  <2>3. Cardinality(DOMAIN h.tags \ {t}) \in Nat
    <3>1. IsFiniteSet(DOMAIN h.tags \ {t})
      BY Count
    <3> QED  BY <3>1, Count
  <2> QED  BY <2>2, <2>3, SMTT(20), SMTT(30)
<1>2. x = at[N]
  BY DEF melt_all, Melting, melt_step, can_melt
<1>3. Grown(h, x1.h, f, x1.t) /\ melt_step(x1) = x1
  BY MeltStep
<1> HIDE DEF N, x0, x1
<1>a. x1 = melt_step(x0)
  BY DEF x1
<1>4. Melting(N, x0, at)
  <2> DEFINE g == [i \in 0..N |-> IF i = 0 THEN x0 ELSE x1]
  <2>1. \A i \in 0..N : g[i] = IF i = 0 THEN x0 ELSE melt_step(g[i - 1])
    <3> SUFFICES ASSUME NEW i \in 0..N, i # 0
                 PROVE  x1 = melt_step(g[i - 1])
      OBVIOUS
    <3>1. CASE i = 1
      BY <3>1, <1>1, <1>a, SMTT(20), SMTT(30)
    <3>2. CASE i # 1
      <4>1. i - 1 \in 0..N /\ i - 1 # 0
        BY <3>2, <1>1, SMTT(20), SMTT(30)
      <4>2. g[i - 1] = x1
        BY <4>1
      <4> QED  BY <4>2, <1>3
    <3> QED  BY <3>1, <3>2
  <2>2. g = [i \in 0..N |-> g[i]]
    OBVIOUS
  <2> HIDE DEF g
  <2>3. Melting(N, x0, g)
    BY <2>1, <2>2 DEF Melting
  <2> QED  BY <2>3, Zenon
<1> HIDE DEF at
<1>5. \A i \in 0..N : at[i] = IF i = 0 THEN x0 ELSE melt_step(at[i - 1])
  BY <1>4 DEF Melting
<1>6. at[1] = x1
  BY <1>1, <1>5, <1>a, SMTT(20), SMTT(30)
<1>7. \A i \in 2..N : at[i - 1] = x1 => at[i] = x1
  BY <1>1, <1>3, <1>5, SMTT(20), SMTT(30)
<1>8. at[N] = x1
  BY <1>1, <1>6, <1>7, Settles, SMTT(20), SMTT(30)
<1> QED  BY <1>2, <1>3, <1>8

\* The second loop of free as a whole.
LEMMA AbsorbAll ==
  ASSUME Counting, NEW h, NEW f, NEW t, Sound(h, f, {t}), LeftHeld(h, t), IsFiniteSet(DOMAIN h.tags),
         NEW g, g = absorb_all(h, t)
  PROVE  Grown(h, g, f, t) /\ RightHeld(g, t)
<1> DEFINE N  == Cardinality(DOMAIN h.tags)
           h1 == absorb_step(h, t)
           at == CHOOSE at : Absorbing(N, h, t, at)
<1>1. N \in Nat /\ N >= 1
  <2>1. t \in DOMAIN h.tags
    BY DEF Sound, Owned
  <2>2. Cardinality(DOMAIN h.tags \ {t}) = N - 1 /\ N \in Nat
    BY <2>1, CountOut, Count
  <2>3. Cardinality(DOMAIN h.tags \ {t}) \in Nat
    <3>1. IsFiniteSet(DOMAIN h.tags \ {t})
      BY Count
    <3> QED  BY <3>1, Count
  <2> QED  BY <2>2, <2>3, SMTT(20), SMTT(30)
<1>2. g = at[N]
  BY DEF absorb_all, Absorbing, absorb_step, can_absorb
<1>3. Grown(h, h1, f, t) /\ RightHeld(h1, t) /\ absorb_step(h1, t) = h1
  BY AbsorbStep, SMTT(20), SMTT(30)
<1> HIDE DEF N, h1
<1>a. h1 = absorb_step(h, t)
  BY DEF h1
<1>4. Absorbing(N, h, t, at)
  <2> DEFINE k == [i \in 0..N |-> IF i = 0 THEN h ELSE h1]
  <2>1. \A i \in 0..N : k[i] = IF i = 0 THEN h ELSE absorb_step(k[i - 1], t)
    <3> SUFFICES ASSUME NEW i \in 0..N, i # 0
                 PROVE  h1 = absorb_step(k[i - 1], t)
      OBVIOUS
    <3>1. CASE i = 1
      BY <3>1, <1>1, <1>a, SMTT(20), SMTT(30)
    <3>2. CASE i # 1
      <4>1. i - 1 \in 0..N /\ i - 1 # 0
        BY <3>2, <1>1, SMTT(20), SMTT(30)
      <4>2. k[i - 1] = h1
        BY <4>1
      <4> QED  BY <4>2, <1>3
    <3> QED  BY <3>1, <3>2
  <2>2. k = [i \in 0..N |-> k[i]]
    OBVIOUS
  <2> HIDE DEF k
  <2>3. Absorbing(N, h, t, k)
    BY <2>1, <2>2 DEF Absorbing
  <2> QED  BY <2>3, Zenon
<1> HIDE DEF at
<1>5. \A i \in 0..N : at[i] = IF i = 0 THEN h ELSE absorb_step(at[i - 1], t)
  BY <1>4 DEF Absorbing
<1>6. at[1] = h1
  BY <1>1, <1>5, <1>a, SMTT(20), SMTT(30)
<1>7. \A i \in 2..N : at[i - 1] = h1 => at[i] = h1
  BY <1>1, <1>3, <1>5, SMTT(20), SMTT(30)
<1>8. at[N] = h1
  BY <1>1, <1>6, <1>7, Settles, SMTT(20), SMTT(30)
<1> QED  BY <1>2, <1>3, <1>8

\* The whole runs that stand by can be counted.
LEMMA CompleteFinite ==
  ASSUME Counting, NEW h, IsFiniteSet(DOMAIN h.tags), NEW e
  PROVE  IsFiniteSet(CompleteSet(h, e)) /\ Cardinality(CompleteSet(h, e)) \in Nat
<1>1. CompleteSet(h, e) \subseteq DOMAIN h.tags
  BY DEF CompleteSet
<1>2. IsFiniteSet(CompleteSet(h, e))
  BY <1>1, Count
<1> QED  BY <1>2, Count

\* The count stays right when malloc takes a whole run.
LEMMA LeavesCounted ==
  ASSUME Counting, NEW h, Typed(h), Counted(h), NEW g, NEW t, NEW e \in Exponents, Leaves(h, g, t, e),
         IsFiniteSet(DOMAIN g.tags)
  PROVE  Counted(g)
<1>1. /\ t \in CompleteSet(h, e)
      /\ g.l_completePages = [h.l_completePages EXCEPT ![e] = h.l_completePages[e] + (-1)]
      /\ \A x \in Exponents : CompleteSet(g, x) = IF x = e THEN CompleteSet(h, e) \ {t} ELSE CompleteSet(h, x)
  BY DEF Leaves, Tally
<1>2. IsFiniteSet(CompleteSet(h, e)) /\ Cardinality(CompleteSet(h, e)) \in Nat
  BY CompleteFinite DEF Counted
<1>3. Cardinality(CompleteSet(h, e) \ {t}) = Cardinality(CompleteSet(h, e)) - 1
  BY <1>1, <1>2, CountOut
<1>4. /\ \A x \in Exponents : h.l_completePages[x] = Cardinality(CompleteSet(h, x))
      /\ \A x \in Exponents : h.l_completePages[x] <= MAXCOMPLETE
      /\ MAXCOMPLETE \in Nat /\ DOMAIN h.l_completePages = Exponents
  BY Sizing DEF Counted, Typed
<1>5. ASSUME NEW x \in Exponents
      PROVE  g.l_completePages[x] = Cardinality(CompleteSet(g, x)) /\ g.l_completePages[x] <= MAXCOMPLETE
  <2>1. CASE x = e
    <3>1. g.l_completePages[e] = h.l_completePages[e] + (-1)
      BY <1>1, <1>4
    <3>2. h.l_completePages[e] = Cardinality(CompleteSet(h, e)) /\ h.l_completePages[e] <= MAXCOMPLETE
      BY <1>4
    <3>3. CompleteSet(g, e) = CompleteSet(h, e) \ {t}
      BY <1>1
    <3> QED  BY <2>1, <3>1, <3>2, <3>3, <1>2, <1>3, <1>4, SMTT(20), SMTT(30)
  <2>2. CASE x # e
    BY <2>2, <1>1, <1>4
  <2> QED  BY <2>1, <2>2
<1> QED  BY <1>5 DEF Counted

\* The count stays right, and within MAXCOMPLETE, when free keeps a whole run:
\* it does so only below the limit.
LEMMA JoinsCounted ==
  ASSUME Counting, NEW h, Typed(h), Counted(h), NEW g, NEW t, NEW e \in Exponents, Joins(h, g, t, e),
         IsFiniteSet(DOMAIN g.tags), h.l_completePages[e] # MAXCOMPLETE
  PROVE  Counted(g)
<1>1. /\ t \notin CompleteSet(h, e)
      /\ g.l_completePages = [h.l_completePages EXCEPT ![e] = h.l_completePages[e] + 1]
      /\ \A x \in Exponents : CompleteSet(g, x) = IF x = e THEN CompleteSet(h, e) \cup {t} ELSE CompleteSet(h, x)
  BY DEF Joins, Tally
<1>2. IsFiniteSet(CompleteSet(h, e)) /\ Cardinality(CompleteSet(h, e)) \in Nat
  BY CompleteFinite DEF Counted
<1>3. Cardinality(CompleteSet(h, e) \cup {t}) = Cardinality(CompleteSet(h, e)) + 1
  BY <1>1, <1>2, CountIn
<1>4. /\ \A x \in Exponents : h.l_completePages[x] = Cardinality(CompleteSet(h, x))
      /\ \A x \in Exponents : h.l_completePages[x] <= MAXCOMPLETE
      /\ MAXCOMPLETE \in Nat /\ DOMAIN h.l_completePages = Exponents
  BY Sizing DEF Counted, Typed
<1>5. ASSUME NEW x \in Exponents
      PROVE  g.l_completePages[x] = Cardinality(CompleteSet(g, x)) /\ g.l_completePages[x] <= MAXCOMPLETE
  <2>1. CASE x = e
    <3>1. g.l_completePages[e] = h.l_completePages[e] + 1
      BY <1>1, <1>4
    <3>2. h.l_completePages[e] = Cardinality(CompleteSet(h, e)) /\ h.l_completePages[e] <= MAXCOMPLETE
      BY <1>4
    <3>3. CompleteSet(g, e) = CompleteSet(h, e) \cup {t}
      BY <1>1
    <3> QED  BY <2>1, <3>1, <3>2, <3>3, <1>2, <1>3, <1>4, SMTT(20), SMTT(30)
  <2>2. CASE x # e
    BY <2>2, <1>1, <1>4
  <2> QED  BY <2>1, <2>2
<1> QED  BY <1>5 DEF Counted

\* free, as a whole: join, then return the run or keep the block.
LEMMA FreeGood ==
  ASSUME Counting, NEW h, NEW f, Good(h, f), NEW p \in DOMAIN f, NEW g, g = after_free(h, p)
  PROVE  Good(g, without(f, p)) /\ g.status = h.status
<1> DEFINE f1 == without(f, p)
           t0 == p - TagSize
           x  == melt_all(h, t0)
           t  == x.t
           h1 == absorb_all(x.h, t)
           e  == index_of(h1, t)
<1>1. Sound(h, f1, {t0}) /\ Counted(h) /\ IsFiniteSet(DOMAIN h.tags)
  <2>1. Sound(h, f, {}) /\ Counted(h) /\ IsFiniteSet(DOMAIN h.tags)
    BY DEF Good, Counted
  <2> QED  BY <2>1, ReleaseSound
<1>2. g = IF Whole(h1.tags[t]) /\ h1.l_completePages[e] = MAXCOMPLETE
          THEN liballoc_free(h1, t, PagesOf(h1.tags[t].real_size)) ELSE stand_by(h1, t)
  BY DEF after_free, PagesOf
<1> HIDE DEF f1, t0
<1>3. Grown(h, x.h, f1, x.t)
  BY <1>1, MeltAll
<1> HIDE DEF x
<1>4. Sound(x.h, f1, {t}) /\ LeftHeld(x.h, t) /\ Kept(h, x.h) /\ x.h.status = h.status
      /\ DOMAIN x.h.tags \subseteq DOMAIN h.tags
  BY <1>3 DEF Grown
<1>5. IsFiniteSet(DOMAIN x.h.tags)
  BY <1>1, <1>4, Count
<1> HIDE DEF t
<1>6. Grown(x.h, h1, f1, t) /\ RightHeld(h1, t)
  BY <1>4, <1>5, AbsorbAll
<1> HIDE DEF h1, e
<1>7. /\ Sound(h1, f1, {t}) /\ LeftHeld(h1, t) /\ Kept(x.h, h1) /\ h1.status = x.h.status
      /\ DOMAIN h1.tags \subseteq DOMAIN x.h.tags
  BY <1>6 DEF Grown
<1>8. IsFiniteSet(DOMAIN h1.tags)
  BY <1>5, <1>7, Count
<1>9. Counted(h1)
  <2>1. Kept(h, h1)
    BY <1>4, <1>7, KeptOn
  <2> QED  BY <2>1, <1>1, <1>8, KeptCounted
<1>10. CASE Whole(h1.tags[t]) /\ h1.l_completePages[e] = MAXCOMPLETE
  <2>1. g = liballoc_free(h1, t, PagesOf(h1.tags[t].real_size)) /\ Whole(h1.tags[t])
    BY <1>2, <1>10
  <2>2. Sound(g, f1, {}) /\ Kept(h1, g) /\ DOMAIN g.tags = DOMAIN h1.tags \ {t} /\ g.status = h1.status
    <3>1. RunFreed(h1, g, f1, t)
      BY <2>1, <1>7, FreeRunSound
    <3> QED  BY <3>1 DEF RunFreed
  <2>3. IsFiniteSet(DOMAIN g.tags)
    <3>1. DOMAIN g.tags \subseteq DOMAIN h1.tags
      BY <2>2
    <3> QED  BY <3>1, <1>8, Count
  <2>4. Counted(g)
    BY <2>2, <2>3, <1>9, KeptCounted
  <2> QED  BY <2>2, <2>4, <1>4, <1>7 DEF Good, f1
<1>11. CASE ~(Whole(h1.tags[t]) /\ h1.l_completePages[e] = MAXCOMPLETE)
  <2>1. g = stand_by(h1, t)
    BY <1>2, <1>11
  <2>2. /\ Sound(g, f1, {}) /\ DOMAIN g.tags = DOMAIN h1.tags /\ g.status = h1.status
        /\ e \in Exponents
        /\ IF Whole(h1.tags[t]) THEN Joins(h1, g, t, e) ELSE Kept(h1, g)
    BY <2>1, <1>6, <1>7, StandBySound DEF e
  <2>3. Counted(g)
    <3>0. IsFiniteSet(DOMAIN g.tags) /\ Typed(h1)
      BY <2>2, <1>7, <1>8 DEF Sound
    <3>1. CASE Whole(h1.tags[t])
      <4>1. Joins(h1, g, t, e) /\ h1.l_completePages[e] # MAXCOMPLETE
        BY <3>1, <2>2, <1>11
      <4> QED  BY <4>1, <3>0, <2>2, <1>9, JoinsCounted
    <3>2. CASE ~ Whole(h1.tags[t])
      BY <3>0, <3>2, <2>2, <1>9, KeptCounted
    <3> QED  BY <3>1, <3>2
  <2> QED  BY <2>2, <2>3, <1>4, <1>7 DEF Good, f1
<1> QED  BY <1>10, <1>11

\* From a block in hand to the caller's pointer: set the size and split.
LEMMA GivenGood ==
  ASSUME Counting, NEW h, NEW f, NEW t, Sound(h, f, {t}), Counted(h), RightHeld(h, t), NEW size \in Sizes,
         TagSize + size <= h.tags[t].real_size,
         NEW k, k = [h EXCEPT !.tags[t].size = size],
         NEW g, g = IF splittable(k, t) THEN split_tag(k, t) ELSE k
  PROVE  Good(g, Holding(f, t + TagSize, size)) /\ g.status = h.status
<1>0. size \in Nat /\ TagSize \in Nat /\ IsFiniteSet(DOMAIN h.tags)
  BY Sizing DEF Counted
<1>1. /\ Sound(k, f, {t}) /\ Kept(h, k) /\ k.status = h.status /\ RightHeld(k, t)
      /\ DOMAIN k.tags = DOMAIN h.tags
      /\ k.tags[t].size = size /\ k.tags[t].real_size = h.tags[t].real_size
  <2>1. Sized(h, k, f, t, size)
    BY <1>0, SizeSound
  <2> QED  BY <2>1 DEF Sized
<1>2. IsFiniteSet(DOMAIN k.tags)
  BY <1>0, <1>1
<1>3. Counted(k)
  BY <1>1, <1>2, KeptCounted
<1>4. /\ Sound(g, f, {t}) /\ Counted(g) /\ g.status = h.status
      /\ g.tags[t].size = size /\ TagSize + size <= g.tags[t].real_size
  <2>1. CASE splittable(k, t)
    <3>1. g = split_tag(k, t)
      BY <2>1
    <3>2. /\ Sound(g, f, {t}) /\ Kept(k, g) /\ g.status = k.status
          /\ DOMAIN g.tags = DOMAIN k.tags \cup {t + TagSize + k.tags[t].size}
          /\ g.tags[t].size = k.tags[t].size
          /\ g.tags[t].real_size = TagSize + k.tags[t].size
      <4>1. Sound(k, f, {t}) /\ RightHeld(k, t)
        BY <1>1
      <4>2. SplitOff(k, g, f, t)
        BY <2>1, <3>1, <4>1, SplitSound
      <4> QED  BY <4>2 DEF SplitOff
    <3>3. IsFiniteSet(DOMAIN g.tags)
      BY <3>2, <1>2, CountIn, SMTT(20), SMTT(30)
    <3>4. Counted(g)
      BY <3>2, <3>3, <1>3, KeptCounted
    <3> QED  BY <3>2, <3>4, <1>0, <1>1, SMTT(20), SMTT(30)
  <2>2. CASE ~ splittable(k, t)
    BY <2>2, <1>1, <1>3
  <2> QED  BY <2>1, <2>2
<1>5. Sound(g, Holding(f, t + TagSize, size), {})
  BY <1>4, GiveSound
<1> QED  BY <1>4, <1>5 DEF Good

\* malloc, as a whole: search, take or allocate, set the size, split.  When the
\* pages run out the kernel stops, and the allocator is still sound.
LEMMA MallocGood ==
  ASSUME Counting, NEW h, NEW f, Good(h, f), Running(h), NEW size \in Sizes, NEW m, m = after_malloc(h, size)
  PROVE  IF Running(m.heap) THEN Good(m.heap, Holding(f, m.ptr, size)) ELSE Good(m.heap, f)
<1> DEFINE hit == found(h, size)
           e   == atleast_MINEXP(getexp(size))
           h1  == IF hit = NULL THEN allocate_new_tag(h, size) ELSE taken_from_list(h, hit, e)
           t   == IF hit = NULL THEN lowest(DOMAIN h1.tags \ DOMAIN h.tags) ELSE hit
           h2  == [h1 EXCEPT !.tags[t].size = size]
           g   == IF splittable(h2, t) THEN split_tag(h2, t) ELSE h2
<1>0. /\ Sound(h, f, {}) /\ Counted(h) /\ Typed(h) /\ Filed(h) /\ IsFiniteSet(DOMAIN h.tags)
      /\ size \in Nat /\ TagSize \in Nat
  BY Sizing DEF Good, Sound, Counted
<1>1. m = IF ~ Running(h1) THEN [heap |-> h1, ptr |-> NULL] ELSE [heap |-> g, ptr |-> t + TagSize]
  BY DEF after_malloc
<1>2. ASSUME Running(h1), Sound(h1, f, {t}), Counted(h1), RightHeld(h1, t),
             TagSize + size <= h1.tags[t].real_size
      PROVE  IF Running(m.heap) THEN Good(m.heap, Holding(f, m.ptr, size)) ELSE Good(m.heap, f)
  <2>1. m.heap = g /\ m.ptr = t + TagSize
    BY <1>1, <1>2, SMTT(20), SMTT(30)
  <2> HIDE DEF h1, t
  <2>2. Good(g, Holding(f, t + TagSize, size)) /\ g.status = h1.status
    BY <1>2, GivenGood, SMTT(20), SMTT(30)
  <2>3. Running(g)
    BY <2>2, <1>2 DEF Running
  <2> QED  BY <2>1, <2>2, <2>3
<1> HIDE DEF g, h2
<1>3. CASE hit # NULL
  <2>0. h1 = taken_from_list(h, hit, e) /\ t = hit
    BY <1>3
  <2>1. hit \in DOMAIN h.tags /\ e \in Exponents /\ h.tags[hit].index = e /\ large_enough(h.tags[hit], size)
    BY <1>0, <1>3, FoundFits
  <2> HIDE DEF h1, t, hit, e
  <2>2. /\ Sound(h1, f, {hit}) /\ RightHeld(h1, hit)
        /\ DOMAIN h1.tags = DOMAIN h.tags /\ h1.status = h.status
        /\ h1.tags[hit].real_size = h.tags[hit].real_size
        /\ Leaves(h, h1, hit, e) \/ Kept(h, h1)
    BY <1>0, <2>0, <2>1, TakenSound, SMTT(20), SMTT(30)
  <2>3. Counted(h1)
    <3>1. IsFiniteSet(DOMAIN h1.tags)
      BY <2>2, <1>0
    <3>2. CASE Leaves(h, h1, hit, e)
      BY <3>1, <3>2, <2>1, <1>0, LeavesCounted
    <3>3. CASE Kept(h, h1)
      BY <3>1, <3>3, <1>0, KeptCounted
    <3> QED  BY <3>2, <3>3, <2>2
  <2>4. TagSize + size <= h1.tags[hit].real_size
    <3>1. h.tags[hit].real_size - TagSize >= size + TagSize
      BY <2>1 DEF large_enough
    <3>2. h.tags[hit].real_size \in Nat
      BY <2>1, <1>0 DEF Typed, TagType
    <3> QED  BY <3>1, <3>2, <2>2, <1>0, SMTT(20), SMTT(30)
  <2>5. Running(h1)
    BY <2>2 DEF Running
  <2> QED  BY <2>0, <2>2, <2>3, <2>4, <2>5, <1>2
<1>4. CASE hit = NULL /\ FreeRuns(h, pages_for(size)) # {}
  <2>0. h1 = allocate_new_tag(h, size) /\ t = lowest(DOMAIN h1.tags \ DOMAIN h.tags)
    BY <1>4
  <2> HIDE DEF h1, t
  <2>1. PICK u : /\ Sound(h1, f, {u}) /\ Kept(h, h1) /\ h1.status = h.status /\ RightHeld(h1, u)
                 /\ u \notin DOMAIN h.tags /\ DOMAIN h1.tags = DOMAIN h.tags \cup {u}
                 /\ u \in Nat /\ TagSize + size <= h1.tags[u].real_size
    BY <1>0, <1>4, <2>0, NewRunSound
  <2>2. t = u
    <3>1. DOMAIN h1.tags \ DOMAIN h.tags = {u}
      BY <2>1
    <3>2. {u} \subseteq Nat /\ {u} # {}
      BY <2>1
    <3>3. lowest({u}) \in {u}
      BY <3>2, LowestIn
    <3> QED  BY <2>0, <3>1, <3>3
  <2>3. Counted(h1)
    <3>1. IsFiniteSet(DOMAIN h1.tags)
      BY <2>1, <1>0, CountIn
    <3> QED  BY <3>1, <2>1, <1>0, KeptCounted
  <2>4. Running(h1)
    BY <2>1 DEF Running
  <2> QED  BY <2>1, <2>2, <2>3, <2>4, <1>2
<1>5. CASE hit = NULL /\ FreeRuns(h, pages_for(size)) = {}
  <2>1. h1 = [h EXCEPT !.status = "Out of memory"]
    BY <1>5 DEF allocate_new_tag
  <2> HIDE DEF h1, t
  <2>2. /\ Typed(h1) /\ h1.tags = h.tags /\ h1.l_freePages = h.l_freePages /\ h1.runs = h.runs
        /\ h1.l_completePages = h.l_completePages /\ h1.status = "Out of memory"
    BY <2>1, <1>0 DEF Typed, Fields
  <2>3. Sound(h1, f, {})
    BY <2>2, <1>0, SoundFrame
  <2>4. Counted(h1)
    BY <2>2, <1>0 DEF Counted, CompleteSet
  <2>5. ~ Running(h1)
    BY <2>2 DEF Running
  <2>6. m.heap = h1
    BY <1>1, <2>5, SMTT(20), SMTT(30)
  <2> QED  BY <2>3, <2>4, <2>5, <2>6 DEF Good
<1> QED  BY <1>3, <1>4, <1>5

\* Before the first call there is nothing.
LEMMA FreshGood ==
  ASSUME Counting
  PROVE  Good(Fresh, [p \in {} |-> 0])
<1> DEFINE h == Fresh
           f == [p \in {} |-> 0]
<1>1. /\ h.tags = [t \in {} |-> 0] /\ DOMAIN h.tags = {} /\ h.runs = {}
      /\ h.l_freePages = [e \in Exponents |-> NULL]
      /\ h.l_completePages = [e \in Exponents |-> 0]
      /\ h = [x \in DOMAIN h |-> h[x]] /\ DOMAIN h = Fields
  BY DEF Fresh, Fields
<1>2. f = [p \in DOMAIN f |-> f[p]] /\ DOMAIN f = {}
  OBVIOUS
<1> HIDE DEF h, f
<1>3. Typed(h)
  BY <1>1, SMTT(20), SMTT(30) DEF Typed
<1>4. Filed(h)
  <2>1. ASSUME NEW e \in Exponents
        PROVE  \E n, c : ListOf(h, e, n, c)
    <3> DEFINE c == [i \in 0..1 |-> NULL]
    <3>1. Rail(h.tags, h.l_freePages[e], 0, c)
      BY <1>1, SMTT(20), SMTT(30) DEF Rail
    <3> HIDE DEF c
    <3>2. ListOf(h, e, 0, c)
      BY <3>1, <1>1 DEF ListOf
    <3> QED  BY <3>2
  <2> QED  BY <2>1, <1>1 DEF Filed
<1>5. Tiled(h) /\ Parted(h) /\ Indexed(h)
  BY <1>1 DEF Tiled, Parted, Indexed
<1>6. Owned(h, f, {})
  BY <1>1, <1>2 DEF Owned
<1>7. Counted(h)
  <2>1. \A e \in Exponents : CompleteSet(h, e) = {}
    BY <1>1 DEF CompleteSet
  <2>2. \A e \in Exponents : h.l_completePages[e] = 0
    BY <1>1
  <2>3. IsFiniteSet({}) /\ Cardinality({}) = 0
    BY Count
  <2>4. 0 <= MAXCOMPLETE
    BY Sizing, SMTT(20), SMTT(30)
  <2> QED  BY <2>1, <2>2, <2>3, <2>4, <1>1 DEF Counted
<1> QED  BY <1>3, <1>4, <1>5, <1>6, <1>7 DEF Good, Sound, h, f

\* malloc, free and realloc keep the invariant.
LEMMA StepGood ==
  ASSUME Counting
  PROVE  Good(heap, held) /\ [Next]_vars => Good(heap, held)'
<1> SUFFICES ASSUME Good(heap, held), [Next]_vars PROVE Good(heap', held')
  OBVIOUS
<1>1. ASSUME NEW size \in Sizes, malloc(size)
      PROVE  Good(heap', held')
  <2> DEFINE m == after_malloc(heap, size)
  <2>1. /\ Running(heap) /\ heap' = m.heap
        /\ held' = IF Running(m.heap) THEN Holding(held, m.ptr, size) ELSE held
    BY <1>1 DEF malloc
  <2>2. IF Running(m.heap) THEN Good(m.heap, Holding(held, m.ptr, size)) ELSE Good(m.heap, held)
    BY <2>1, MallocGood
  <2> HIDE DEF m
  <2> QED  BY <2>1, <2>2
<1>2. ASSUME NEW ptr \in DOMAIN held, free(ptr)
      PROVE  Good(heap', held')
  <2>1. heap' = after_free(heap, ptr) /\ held' = without(held, ptr)
    BY <1>2 DEF free
  <2>2. Good(after_free(heap, ptr), without(held, ptr))
    BY FreeGood
  <2> QED  BY <2>1, <2>2
<1>3. ASSUME NEW ptr \in DOMAIN held, NEW size \in Sizes, realloc(ptr, size)
      PROVE  Good(heap', held')
  <2> DEFINE m == after_malloc(heap, size)
             f == Holding(held, m.ptr, size)
  <2>0. Running(heap)
    BY <1>3 DEF realloc
  <2>1. \/ Running(m.heap) /\ heap' = after_free(m.heap, ptr) /\ held' = without(f, ptr)
        \/ ~ Running(m.heap) /\ heap' = m.heap /\ held' = held
    BY <1>3 DEF realloc
  <2>2. IF Running(m.heap) THEN Good(m.heap, f) ELSE Good(m.heap, held)
    BY <2>0, MallocGood
  <2>3. ptr \in DOMAIN f
    BY DEF Holding
  <2> HIDE DEF m, f
  <2>4. CASE Running(m.heap)
    <3>1. Good(after_free(m.heap, ptr), without(f, ptr))
      BY <2>2, <2>3, <2>4, FreeGood
    <3> QED  BY <2>1, <2>4, <3>1
  <2>5. CASE ~ Running(m.heap)
    BY <2>1, <2>2, <2>5
  <2> QED  BY <2>4, <2>5
<1>4. CASE hang
  BY <1>4 DEF hang, vars
<1>5. CASE UNCHANGED vars
  BY <1>5 DEF vars
<1> QED  BY <1>1, <1>2, <1>3, <1>4, <1>5 DEF Next

-----------------------------------------------------------------------------
(* The theorems. *)
INSTANCE FiniteSetTheorems

\* The facts on counting hold.
LEMMA CountingHolds == Counting
<1>1. \A T : T \subseteq Nat /\ T # {} => \E x \in T : \A y \in T : x <= y
  <2> SUFFICES ASSUME NEW T, T \subseteq Nat, T # {} PROVE \E x \in T : \A y \in T : x <= y
    OBVIOUS
  <2>1. PICK x \in T : \A y \in T : ~(<<y, x>> \in OpToRel(<, Nat))
    BY NatLessThanWellFounded, WFMin, Zenon
  <2>2. ASSUME NEW y \in T PROVE x <= y
    <3>1. ~(<<y, x>> \in OpToRel(<, Nat))
      BY <2>1
    <3>2. ~(y < x)
      BY <3>1, Zenon DEF OpToRel
    <3> QED  BY <3>2, SMTT(20), SMTT(30)
  <2> QED  BY <2>2
<1>2. IsFiniteSet({}) /\ Cardinality({}) = 0
  BY FS_EmptySet
<1>3. \A S : IsFiniteSet(S) => Cardinality(S) \in Nat
  BY FS_CardinalityType
<1>4. \A S, T : IsFiniteSet(S) /\ T \subseteq S => IsFiniteSet(T)
  BY FS_Subset
<1>5. \A S, x : IsFiniteSet(S) =>
        IsFiniteSet(S \cup {x}) /\ (x \notin S => Cardinality(S \cup {x}) = Cardinality(S) + 1)
  BY FS_AddElement
<1>6. \A S, x : IsFiniteSet(S) /\ x \in S => Cardinality(S \ {x}) = Cardinality(S) - 1
  BY FS_RemoveElement
<1>7. \A n \in Nat : Cardinality(0..(n - 1)) = n /\ Cardinality(1..n) = n
  BY FS_Interval, SMTT(20), SMTT(30)
<1>8. ASSUME NEW S, NEW T, NEW f, IsFiniteSet(T), OneToOne(f, S, T)
      PROVE  Cardinality(S) <= Cardinality(T)
  <2>1. f \in Injection(S, T)
    BY <1>8 DEF OneToOne, Injection, IsInjective
  <2> QED  BY <1>8, <2>1, FS_Injection
<1> QED  BY <1>1, <1>2, <1>3, <1>4, <1>5, <1>6, <1>7, <1>8 DEF Counting

(***************************************************************************)
(* The inductive invariant Good holds of every behaviour: whatever is      *)
(* allocated, reallocated and freed in whatever order, between two calls   *)
(* the free lists, the tiling of the runs, the ownership of the blocks and *)
(* the counts of whole runs are all in order.                              *)
(***************************************************************************)
THEOREM Invariance == Spec => []Good(heap, held)
<1>1. Init => Good(heap, held)
  BY FreshGood, CountingHolds DEF Init
<1>2. Good(heap, held) /\ [Next]_vars => Good(heap, held)'
  BY StepGood, CountingHolds
<1> QED  BY <1>1, <1>2, PTL DEF Spec

(***************************************************************************)
(* TypeOK holds for all sizes, exponents and limits.  The pointers of the  *)
(* tags lead to tags, and l_completePages stays between 0 and MAXCOMPLETE. *)
(***************************************************************************)
THEOREM TypeCorrect == Spec => []TypeOK
<1>1. Good(heap, held) => TypeOK
  <2> SUFFICES ASSUME Good(heap, held) PROVE TypeOK
    OBVIOUS
  <2>1. Typed(heap) /\ Owned(heap, held, {}) /\ Counted(heap)
    BY DEF Good, Sound
  <2>2. \A t \in Tags :
          /\ heap.tags[t].real_size \in Nat /\ heap.tags[t].size \in Nat
          /\ heap.tags[t].index \in {-1} \cup Exponents
          /\ {heap.tags[t].split_left, heap.tags[t].split_right,
              heap.tags[t].next, heap.tags[t].prev} \subseteq Tags \cup {NULL}
    BY <2>1 DEF Typed, TagType, Tags
  <2>3. heap.l_freePages \in [Exponents -> Tags \cup {NULL}]
    BY <2>1 DEF Typed, Tags
  <2>4. heap.l_completePages \in [Exponents -> 0..MAXCOMPLETE]
    <3>1. \A e \in Exponents : heap.l_completePages[e] \in Nat /\ heap.l_completePages[e] <= MAXCOMPLETE
      BY <2>1, CompleteFinite, CountingHolds DEF Counted
    <3>2. heap.l_completePages \in [Exponents -> Int] /\ MAXCOMPLETE \in Nat
      BY <2>1, Sizing DEF Typed
    <3> QED  BY <3>1, <3>2, SMTT(20), SMTT(30)
  <2>5. held \in [DOMAIN held -> Sizes]
    BY <2>1 DEF Owned
  <2> QED  BY <2>2, <2>3, <2>4, <2>5 DEF TypeOK
<1> QED  BY <1>1, Invariance, PTL

(***************************************************************************)
(* split_tag, melt_left and absorb_right lose no memory: the blocks tile   *)
(* the runs, liballoc_free gets the runs that liballoc_alloc gave, and no  *)
(* two neighbours are free, for every sequence of calls.                   *)
(***************************************************************************)
THEOREM RunsStayTiled == Spec => []RunsTiled
<1>1. Good(heap, held) => RunsTiled
  <2> SUFFICES ASSUME Good(heap, held) PROVE RunsTiled
    OBVIOUS
  <2>1. Tiled(heap) /\ Parted(heap)
    BY DEF Good, Sound
  <2>2. ASSUME NEW t \in Tags
        PROVE  \E r \in heap.runs :
                 /\ r.page * PageSize <= t
                 /\ t + heap.tags[t].real_size <= (r.page + r.pages) * PageSize
                 /\ heap.tags[t].split_left = NULL <=> t = r.page * PageSize
                 /\ heap.tags[t].split_right = NULL <=>
                      t + heap.tags[t].real_size = (r.page + r.pages) * PageSize
    BY <2>1 DEF Tiled, InRun, From, Upto, Tags
  <2>3. ASSUME NEW t \in Tags, heap.tags[t].split_right # NULL
        PROVE  /\ heap.tags[t].split_right = t + heap.tags[t].real_size
               /\ heap.tags[heap.tags[t].split_right].split_left = t
               /\ heap.tags[t].index = -1 \/ heap.tags[heap.tags[t].split_right].index = -1
    BY <2>1, <2>3 DEF Tiled, Parted, Tags
  <2>4. \A r \in heap.runs : r.page * PageSize \in Tags
    BY <2>1 DEF Tiled, From, Tags
  <2> QED  BY <2>2, <2>3, <2>4 DEF RunsTiled
<1> QED  BY <1>1, Invariance, PTL

(***************************************************************************)
(* malloc and realloc never hand out memory that a caller holds, and every *)
(* block is as large as was asked for, whatever the sizes.                 *)
(***************************************************************************)
THEOREM HeldBlocksStayApart == Spec => []HeldBlocksApart
<1>1. Good(heap, held) => HeldBlocksApart
  <2> SUFFICES ASSUME Good(heap, held), NEW p \in DOMAIN held
               PROVE  /\ p - TagSize \in Tags
                      /\ heap.tags[p - TagSize].index = -1
                      /\ heap.tags[p - TagSize].size = held[p]
                      /\ \A t \in Tags \ {p - TagSize} :
                           p + held[p] <= t \/ t + heap.tags[t].real_size <= p - TagSize
    BY DEF HeldBlocksApart
  <2> DEFINE a == p - TagSize
  <2>0. TagSize \in Nat /\ Sizes \subseteq Nat
    BY Sizing
  <2>1. /\ p \in Int /\ a \in Tags /\ heap.tags[a].index = -1
        /\ heap.tags[a].size = held[p] /\ held[p] \in Sizes
        /\ TagSize + held[p] <= heap.tags[a].real_size
    BY DEF Good, Sound, Owned, Tags
  <2>2. ASSUME NEW t \in Tags, t # a
        PROVE  p + held[p] <= t \/ t + heap.tags[t].real_size <= a
    <3>1. a + heap.tags[a].real_size <= t \/ t + heap.tags[t].real_size <= a
      BY <2>1, <2>2 DEF Good, Sound, Tiled, Before, Tags
    <3>2. /\ t \in Nat /\ heap.tags[a].real_size \in Nat /\ heap.tags[t].real_size \in Nat
          /\ a \in Int /\ held[p] \in Nat /\ p = a + TagSize
          /\ TagSize + held[p] <= heap.tags[a].real_size
      BY <2>0, <2>1, SMTT(20), SMTT(30) DEF Good, Sound, Typed, TagType, Tags
    <3> HIDE DEF a
    <3> QED  BY <3>1, <3>2, <2>0, SMTT(20), SMTT(30)
  <2> QED  BY <2>1, <2>2
<1> QED  BY <1>1, Invariance, PTL

(***************************************************************************)
(* Each free list, walked from its head, has exactly the free blocks of    *)
(* its exponent, once each and linked both ways: remove_tag and insert_tag *)
(* leave no stale link, on no path through malloc and free.                *)
(***************************************************************************)
THEOREM FreeListsStayExact == Spec => []FreeListsExact
<1>1. Good(heap, held) => FreeListsExact
  <2> SUFFICES ASSUME Good(heap, held), NEW e \in Exponents
               PROVE  LET list == FreeList(heap, e)
                      IN  /\ \A i \in DOMAIN list :
                               /\ heap.tags[list[i]].prev = IF i = 1 THEN NULL ELSE list[i - 1]
                               /\ list[i] + TagSize \notin DOMAIN held
                          /\ {list[i] : i \in DOMAIN list}
                               = {t \in Tags : t + TagSize \notin DOMAIN held /\ index_of(heap, t) = e}
                          /\ \A t \in Tags : heap.tags[t].index = e <=> \E i \in DOMAIN list : list[i] = t
    BY DEF FreeListsExact
  <2> DEFINE list == FreeList(heap, e)
  <2>0. /\ Typed(heap) /\ Filed(heap) /\ Indexed(heap) /\ Owned(heap, held, {})
        /\ IsFiniteSet(DOMAIN heap.tags) /\ -1 \notin Exponents /\ TagSize \in Nat
        /\ Tags \subseteq Nat
    BY ExponentsAre, Sizing, SMTT(20), SMTT(30) DEF Good, Sound, Counted, Typed, Tags
  <2>1. PICK n, c : ListOf(heap, e, n, c)
    BY <2>0 DEF Filed
  <2>2. Rail(heap.tags, heap.l_freePages[e], n, c)
    BY <2>1 DEF ListOf
  <2>3. list = [i \in 1..n |-> c[i]]
    <3>1. Lines(list, n, c)
      BY <2>0, <2>2, FreeListIsRail, CountingHolds
    <3> QED  BY <3>1 DEF Lines
  <2> HIDE DEF list
  <2>4. /\ DOMAIN list = 1..n /\ \A i \in 1..n : list[i] = c[i]
        /\ n \in Nat /\ c[0] = NULL
        /\ \A i \in 1..n : c[i] \in Tags /\ heap.tags[c[i]].prev = c[i - 1]
    BY <2>2, <2>3 DEF Rail, Tags
  <2>5. \A t \in Tags : heap.tags[t].index = e <=> \E i \in 1..n : c[i] = t
    BY <2>1 DEF ListOf, Tags
  <2>6. \A t \in Tags : t + TagSize \in DOMAIN held <=> heap.tags[t].index = -1
    <3> SUFFICES ASSUME NEW t \in Tags
                 PROVE  t + TagSize \in DOMAIN held <=> heap.tags[t].index = -1
      OBVIOUS
    <3>1. (t + TagSize) - TagSize = t
      BY <2>0, SMTT(20), SMTT(30)
    <3> QED  BY <3>1, <2>0 DEF Owned, Tags
  <2>7. ASSUME NEW i \in DOMAIN list
        PROVE  /\ heap.tags[list[i]].prev = IF i = 1 THEN NULL ELSE list[i - 1]
               /\ list[i] + TagSize \notin DOMAIN held
    <3>1. i \in 1..n /\ c[i] \in Tags /\ list[i] = c[i] /\ heap.tags[c[i]].prev = c[i - 1]
      BY <2>4
    <3>2. i = 1 => c[i - 1] = NULL
      BY <2>4, SMTT(20), SMTT(30)
    <3>3. i # 1 => i - 1 \in 1..n /\ list[i - 1] = c[i - 1]
      BY <3>1, <2>4, SMTT(20), SMTT(30)
    <3>4. heap.tags[c[i]].index = e
      BY <3>1, <2>5
    <3> QED  BY <3>1, <3>2, <3>3, <3>4, <2>0, <2>6
  <2>8. \A t \in Tags : heap.tags[t].index = e <=> \E i \in DOMAIN list : list[i] = t
    BY <2>4, <2>5
  <2>9. \A t \in Tags : t + TagSize \notin DOMAIN held /\ index_of(heap, t) = e <=> heap.tags[t].index = e
    BY <2>0, <2>6 DEF Indexed, Tags
  <2>10. {list[i] : i \in DOMAIN list}
           = {t \in Tags : t + TagSize \notin DOMAIN held /\ index_of(heap, t) = e}
    <3>1. \A i \in DOMAIN list : list[i] \in Tags
      BY <2>4
    <3> QED  BY <3>1, <2>8, <2>9
  <2> QED  BY <2>7, <2>8, <2>10 DEF list
<1> QED  BY <1>1, Invariance, PTL

(***************************************************************************)
(* l_completePages[e] is always the number of whole runs in the list of    *)
(* e, although free counts by the exponent of the block and malloc by that *)
(* of the request.                                                         *)
(***************************************************************************)
THEOREM CompleteRunsCounted == Spec => []CompleteCounted
<1>1. Good(heap, held) => CompleteCounted
  BY DEF Good, Counted, CompleteSet, CompleteCounted, Tags
<1> QED  BY <1>1, Invariance, PTL

=============================================================================
