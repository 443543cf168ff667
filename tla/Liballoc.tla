------------------------------ MODULE Liballoc ------------------------------
(***************************************************************************)
(* libc/liballoc/liballoc.c: malloc and free over runs of pages that       *)
(* liballoc_alloc obtains.  A run is tiled by blocks, each behind a        *)
(* boundary tag; the tags of a run are linked by split_left and            *)
(* split_right, the free ones also by next and prev in the list of their   *)
(* exponent.  The C functions are operators on one value h of the          *)
(* allocator's statics and tags.                                           *)
(*                                                                         *)
(* A tag is named by its address, in units of which a page holds PageSize. *)
(* liballoc_lock does nothing and no interrupt handler allocates: a call   *)
(* is one step.                                                            *)
(***************************************************************************)
EXTENDS Integers, FiniteSets, Sequences

CONSTANTS
  TagSize,      \* sizeof(struct boundary_tag)
  PageSize,     \* l_pageSize
  PageCount,    \* l_pageCount, the least number of pages to ask for
  MINEXP, MAXEXP, MAXCOMPLETE,
  NPages,       \* pages that liballoc_alloc has to give
  Sizes,        \* the sizes callers ask for
  MaxHeld       \* bound: blocks that callers hold at the same time

ASSUME LiballocAssumption ==
  /\ {TagSize, PageSize, PageCount, MAXCOMPLETE} \subseteq Nat \ {0}
  /\ MINEXP \in Nat /\ MAXEXP \in Nat /\ MINEXP < MAXEXP
  /\ {NPages, MaxHeld} \subseteq Nat
  /\ Sizes \subseteq Nat
  /\ TagSize < PageSize * PageCount

VARIABLES
  heap,    \* the tags, l_freePages, l_completePages and the runs obtained
  held     \* held[ptr]: the size that the caller of malloc asked for

vars == <<heap, held>>

NULL == 0
Exponents == MINEXP..(MAXEXP - 1)

Fresh ==
  [tags |-> [t \in {} |-> 0],
   l_freePages |-> [e \in Exponents |-> NULL],
   l_completePages |-> [e \in Exponents |-> 0],
   runs |-> {},
   status |-> "running"]

Init == heap = Fresh /\ held = [p \in {} |-> 0]

Running(h) == h.status = "running"

-----------------------------------------------------------------------------
(***************************************************************************)
(* Exponents and free lists.                                               *)
(***************************************************************************)
\* -1 below the quantum, else n with 2^n <= size < 2^(n+1).
getexp(size) ==
  IF size < 2^MINEXP THEN -1
  ELSE CHOOSE e \in Exponents : 2^e <= size /\ (size < 2^(e + 1) \/ e = MAXEXP - 1)

atleast_MINEXP(index) == IF index < MINEXP THEN MINEXP ELSE index

index_of(h, t) == atleast_MINEXP(getexp(h.tags[t].real_size - TagSize))

\* Mutant: the old head does not learn about its predecessor.
insert_tag_no_prev(h, t, index) ==
  LET old == h.l_freePages[index]
  IN  [h EXCEPT !.tags[t].index = index,
                !.tags[t].next = IF old = NULL THEN @ ELSE old,
                !.l_freePages[index] = t]

insert_tag(h, t, index) ==
  LET old == h.l_freePages[index]
      h1  == IF old = NULL THEN h ELSE [h EXCEPT !.tags[old].prev = t]
  IN  [h1 EXCEPT !.tags[t].index = index,
                 !.tags[t].next = IF old = NULL THEN @ ELSE old,
                 !.l_freePages[index] = t]

remove_tag(h, t) ==
  LET tag == h.tags[t]
      t1  == IF tag.prev = NULL THEN h.tags ELSE [h.tags EXCEPT ![tag.prev].next = tag.next]
      t2  == IF tag.next = NULL THEN t1 ELSE [t1 EXCEPT ![tag.next].prev = tag.prev]
  IN  [h EXCEPT !.l_freePages[tag.index] = IF @ = t THEN tag.next ELSE @,
                !.tags = [t2 EXCEPT ![t] = [@ EXCEPT !.next = NULL, !.prev = NULL, !.index = -1]]]

(***************************************************************************)
(* Joining and splitting blocks.  The bytes of a tag that was joined to    *)
(* its left neighbour belong to the block from then on.                    *)
(***************************************************************************)
without(tags, t) == [u \in DOMAIN tags \ {t} |-> tags[u]]

\* Mutant: the right neighbour still takes the joined tag for its left one.
melt_left_stale(h, t) ==
  LET tag == h.tags[t]
      tags == [h.tags EXCEPT ![tag.split_left].real_size = @ + tag.real_size,
                             ![tag.split_left].split_right = tag.split_right]
  IN  [h EXCEPT !.tags = without(tags, t)]

melt_left(h, t) ==
  LET tag  == h.tags[t]
      left == tag.split_left
      h1   == IF tag.split_right = NULL THEN h
              ELSE [h EXCEPT !.tags[tag.split_right].split_left = left]
      tags == [h1.tags EXCEPT ![left].real_size = @ + tag.real_size,
                              ![left].split_right = tag.split_right]
  IN  [h1 EXCEPT !.tags = without(tags, t)]

absorb_right(h, t) ==
  LET r     == h.tags[t].split_right
      right == h.tags[r]
      h1    == remove_tag(h, r)
      h2    == IF right.split_right = NULL THEN h1
               ELSE [h1 EXCEPT !.tags[right.split_right].split_left = t]
      tags  == [h2.tags EXCEPT ![t].real_size = @ + right.real_size,
                               ![t].split_right = right.split_right]
  IN  [h2 EXCEPT !.tags = without(tags, r)]

\* Mutant: the new tag is put where the tag's own size is not counted.
split_tag_overlapping(h, t) ==
  LET tag       == h.tags[t]
      remainder == tag.real_size - TagSize - tag.size
      new       == t + tag.size
      new_tag   == [size |-> 0, real_size |-> remainder, index |-> -1,
                    split_left |-> t, split_right |-> tag.split_right,
                    next |-> NULL, prev |-> NULL]
      tags1 == [u \in DOMAIN h.tags \cup {new} |-> IF u = new THEN new_tag ELSE h.tags[u]]
  IN  insert_tag([h EXCEPT !.tags = tags1], new, MINEXP)

\* The code leaves the new tag's size as it is; malloc sets it before any read.
split_tag(h, t) ==
  LET tag       == h.tags[t]
      remainder == tag.real_size - TagSize - tag.size
      new       == t + TagSize + tag.size
      new_tag   == [size |-> 0, real_size |-> remainder, index |-> -1,
                    split_left |-> t, split_right |-> tag.split_right,
                    next |-> NULL, prev |-> NULL]
      tags1 == [u \in DOMAIN h.tags \cup {new} |-> IF u = new THEN new_tag ELSE h.tags[u]]
      tags2 == IF tag.split_right = NULL THEN tags1
               ELSE [tags1 EXCEPT ![tag.split_right].split_left = new]
      tags3 == [tags2 EXCEPT ![t].split_right = new, ![t].real_size = @ - remainder]
      h1    == [h EXCEPT !.tags = tags3]
  IN  insert_tag(h1, new, index_of(h1, new))

-----------------------------------------------------------------------------
(***************************************************************************)
(* liballoc_alloc hands out vm_alloc_kpages(pages): the lowest run that is *)
(* free.  When there is none, that function stops the kernel and does not  *)
(* return NULL.                                                            *)
(***************************************************************************)
FreeRuns(h, pages) ==
  {p \in 1..NPages : /\ p + pages - 1 <= NPages
                     /\ \A r \in h.runs : p + pages <= r.page \/ r.page + r.pages <= p}

lowest(S) == CHOOSE p \in S : \A q \in S : p <= q

pages_for(size) ==
  LET usage == size + TagSize
      pages == IF usage % PageSize = 0 THEN usage \div PageSize ELSE (usage \div PageSize) + 1
  IN  IF pages < PageCount THEN PageCount ELSE pages

allocate_new_tag(h, size) ==
  LET pages == pages_for(size)
      page  == lowest(FreeRuns(h, pages))
      t     == page * PageSize
      tag   == [size |-> size, real_size |-> pages * PageSize, index |-> -1,
                split_left |-> NULL, split_right |-> NULL, next |-> NULL, prev |-> NULL]
  IN  IF FreeRuns(h, pages) = {} THEN [h EXCEPT !.status = "Out of memory"]
      ELSE [h EXCEPT !.tags = [u \in DOMAIN @ \cup {t} |-> IF u = t THEN tag ELSE @[u]],
                     !.runs = @ \cup {[page |-> page, pages |-> pages]}]

\* The tags of the free list of an exponent, in order.
FreeList(h, e) ==
  LET follow(t) == IF t = NULL THEN NULL ELSE h.tags[t].next
      at[i \in 0..(Cardinality(DOMAIN h.tags) + 1)] ==
        IF i = 0 THEN h.l_freePages[e] ELSE follow(at[i - 1])
      len == Cardinality({i \in DOMAIN at : at[i] # NULL})
  IN  [i \in 1..len |-> at[i - 1]]

large_enough(tag, size) == tag.real_size - TagSize >= size + TagSize

\* The search of malloc: only the list of the request's own exponent.
found(h, size) ==
  LET list == FreeList(h, atleast_MINEXP(getexp(size)))
      hits == {i \in DOMAIN list : large_enough(h.tags[list[i]], size)}
  IN  IF hits = {} THEN NULL ELSE list[lowest(hits)]

Whole(tag) == tag.split_left = NULL /\ tag.split_right = NULL

\* Mutant: a whole run leaves its list and stays counted.
taken_from_list_counted(h, t, index) == remove_tag(h, t)

\* `index' is the exponent of the request.
taken_from_list(h, t, index) ==
  LET h1 == remove_tag(h, t)
  IN  IF Whole(h.tags[t]) THEN [h1 EXCEPT !.l_completePages[index] = @ - 1] ELSE h1

splittable(h, t) ==
  LET remainder == h.tags[t].real_size - h.tags[t].size - TagSize * 2
  IN  remainder > 0 /\ getexp(remainder) >= 0

after_malloc(h, size) ==
  LET hit == found(h, size)
      h1  == IF hit = NULL THEN allocate_new_tag(h, size)
             ELSE taken_from_list(h, hit, atleast_MINEXP(getexp(size)))
      t   == IF hit = NULL THEN lowest(DOMAIN h1.tags \ DOMAIN h.tags) ELSE hit
      h2  == [h1 EXCEPT !.tags[t].size = size]
  IN  IF ~ Running(h1) THEN [heap |-> h1, ptr |-> NULL]
      ELSE [heap |-> IF splittable(h2, t) THEN split_tag(h2, t) ELSE h2,
            ptr  |-> t + TagSize]

-----------------------------------------------------------------------------
(***************************************************************************)
(* free: join with free neighbours on the left, then on the right; then    *)
(* give a whole run back when MAXCOMPLETE of its exponent stand by, or     *)
(* keep the block in its list.                                             *)
(***************************************************************************)
\* The loops of free, each as long as its condition holds.
melt_all(h, t) ==
  LET can(x)  == x.h.tags[x.t].split_left # NULL
                 /\ x.h.tags[x.h.tags[x.t].split_left].index >= 0
      step(x) == IF can(x)
                 THEN LET left == x.h.tags[x.t].split_left
                      IN  [h |-> remove_tag(melt_left(x.h, x.t), left), t |-> left]
                 ELSE x
      after[i \in 0..Cardinality(DOMAIN h.tags)] ==
        IF i = 0 THEN [h |-> h, t |-> t] ELSE step(after[i - 1])
  IN  after[Cardinality(DOMAIN h.tags)]

absorb_all(h, t) ==
  LET can(g)  == g.tags[t].split_right # NULL /\ g.tags[g.tags[t].split_right].index >= 0
      step(g) == IF can(g) THEN absorb_right(g, t) ELSE g
      after[i \in 0..Cardinality(DOMAIN h.tags)] ==
        IF i = 0 THEN h ELSE step(after[i - 1])
  IN  after[Cardinality(DOMAIN h.tags)]

liballoc_free(h, t, pages) ==
  [h EXCEPT !.tags = without(@, t),
            !.runs = @ \ {[page |-> t \div PageSize, pages |-> pages]}]

\* Mutant: the count of whole runs is not raised.
stand_by_uncounted(h, t) == insert_tag(h, t, index_of(h, t))

stand_by(h, t) ==
  LET index == index_of(h, t)
  IN  insert_tag(IF Whole(h.tags[t]) THEN [h EXCEPT !.l_completePages[index] = @ + 1] ELSE h,
                 t, index)

after_free(h, ptr) ==
  LET melted == melt_all(h, ptr - TagSize)
      t      == melted.t
      h1     == absorb_all(melted.h, t)
      rs     == h1.tags[t].real_size
      pages  == IF rs % PageSize = 0 THEN rs \div PageSize ELSE (rs \div PageSize) + 1
  IN  IF Whole(h1.tags[t]) /\ h1.l_completePages[index_of(h1, t)] = MAXCOMPLETE
      THEN liballoc_free(h1, t, IF pages < PageCount THEN PageCount ELSE pages)
      ELSE stand_by(h1, t)

-----------------------------------------------------------------------------
Holding(f, ptr, size) == [p \in DOMAIN f \cup {ptr} |-> IF p = ptr THEN size ELSE f[p]]

\* calloc is malloc followed by clearing the payload.
malloc(size) ==
  /\ Running(heap)
  /\ Cardinality(DOMAIN held) < MaxHeld
  /\ LET m == after_malloc(heap, size)
     IN  /\ heap' = m.heap
         /\ held' = IF Running(m.heap) THEN Holding(held, m.ptr, size) ELSE held

\* Callers free what they hold: of the two early returns of free, one is for a
\* null pointer, which changes nothing, and one for a tag without its magic.
free(ptr) ==
  /\ Running(heap)
  /\ heap' = after_free(heap, ptr)
  /\ held' = without(held, ptr)

\* realloc of a block to a size that is not zero: malloc, copy, free.  With
\* size zero it is free, and with a null pointer malloc.
realloc(ptr, size) ==
  /\ Running(heap)
  /\ size > 0
  /\ LET m == after_malloc(heap, size)
     IN  \/ /\ Running(m.heap)
            /\ heap' = after_free(m.heap, ptr)
            /\ held' = without(Holding(held, m.ptr, size), ptr)
         \/ ~ Running(m.heap) /\ heap' = m.heap /\ UNCHANGED held

hang == ~ Running(heap) /\ UNCHANGED vars

Next ==
  \/ \E size \in Sizes : malloc(size)
  \/ \E ptr \in DOMAIN held : free(ptr)
  \/ \E ptr \in DOMAIN held, size \in Sizes : realloc(ptr, size)
  \/ hang

Spec == Init /\ [][Next]_vars
-----------------------------------------------------------------------------
Tags == DOMAIN heap.tags

TypeOK ==
  /\ \A t \in Tags :
       /\ heap.tags[t].real_size \in Nat /\ heap.tags[t].size \in Nat
       /\ heap.tags[t].index \in {-1} \cup Exponents
       /\ {heap.tags[t].split_left, heap.tags[t].split_right,
           heap.tags[t].next, heap.tags[t].prev} \subseteq Tags \cup {NULL}
  /\ heap.l_freePages \in [Exponents -> Tags \cup {NULL}]
  /\ heap.l_completePages \in [Exponents -> 0..MAXCOMPLETE]
  /\ held \in [DOMAIN held -> Sizes]

(***************************************************************************)
(* The blocks tile the runs: from the tag at the start of a run,           *)
(* split_right leads from block to adjacent block up to its end, and       *)
(* split_left leads back.  Nothing is lost between blocks by splitting and *)
(* joining, and liballoc_free gets the very runs liballoc_alloc gave.      *)
(* free joins all it can: two neighbouring blocks are never both free.     *)
(***************************************************************************)
RunsTiled ==
  /\ \A t \in Tags :
       LET tag == heap.tags[t]
       IN  /\ \E r \in heap.runs :
                /\ r.page * PageSize <= t
                /\ t + tag.real_size <= (r.page + r.pages) * PageSize
                /\ tag.split_left = NULL <=> t = r.page * PageSize
                /\ tag.split_right = NULL <=>
                     t + tag.real_size = (r.page + r.pages) * PageSize
           /\ tag.split_right # NULL =>
                /\ tag.split_right = t + tag.real_size
                /\ heap.tags[tag.split_right].split_left = t
                /\ tag.index = -1 \/ heap.tags[tag.split_right].index = -1
  /\ \A r \in heap.runs : r.page * PageSize \in Tags

(***************************************************************************)
(* What a caller of malloc holds is nobody else's: the block is not on a   *)
(* free list, its tag still knows the size that was asked for (realloc     *)
(* copies so much), and so many units behind the tag reach into no other   *)
(* block or tag.                                                           *)
(***************************************************************************)
HeldBlocksApart ==
  \A p \in DOMAIN held :
    /\ p - TagSize \in Tags
    /\ heap.tags[p - TagSize].index = -1
    /\ heap.tags[p - TagSize].size = held[p]
    /\ \A t \in Tags \ {p - TagSize} :
         p + held[p] <= t \/ t + heap.tags[t].real_size <= p - TagSize

(***************************************************************************)
(* The free lists hold exactly the blocks nobody holds, each once, in the  *)
(* list of its exponent, linked in both directions.                        *)
(***************************************************************************)
FreeListsExact ==
  \A e \in Exponents :
    LET list == FreeList(heap, e)
    IN  /\ \A i \in DOMAIN list :
             /\ heap.tags[list[i]].prev = IF i = 1 THEN NULL ELSE list[i - 1]
             /\ list[i] + TagSize \notin DOMAIN held
        /\ {list[i] : i \in DOMAIN list}
             = {t \in Tags : t + TagSize \notin DOMAIN held /\ index_of(heap, t) = e}
        /\ \A t \in Tags : heap.tags[t].index = e <=> \E i \in DOMAIN list : list[i] = t

(***************************************************************************)
(* l_completePages counts the whole runs that stand by: malloc, which      *)
(* finds a run by the exponent of the request, and free, which files it by *)
(* the exponent of the run, keep the same books, and no more than          *)
(* MAXCOMPLETE stand by.                                                   *)
(***************************************************************************)
CompleteCounted ==
  \A e \in Exponents :
    heap.l_completePages[e]
      = Cardinality({t \in Tags : Whole(heap.tags[t]) /\ heap.tags[t].index = e})

=============================================================================
