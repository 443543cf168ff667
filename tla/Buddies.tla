------------------------------ MODULE Buddies ------------------------------
(***************************************************************************)
(* The data structure of kernel/memory/pmm.c: PMM_NUM_BUDDIES bitsets, one *)
(* per level, where a set bit of level l stands for one free block of      *)
(* 1 << l frames.  These are pure operators over an explicit value b of    *)
(* the array buddies[]; Pmm and Vm give them a state.                      *)
(*                                                                         *)
(* Frames are counted from buddy_base.  Bit idx of level l is named by the *)
(* first frame of its block, idx << l, so that b[l] is the set of first    *)
(* frames of the free blocks of level l, the two halves of the block at    *)
(* `start' are at `start' and `start + half', and the address that         *)
(* pmm_alloc_buddy computes, buddy_base + (PAGE_SIZE << l) * idx, is       *)
(* `start' itself.                                                         *)
(***************************************************************************)
EXTENDS Integers

CONSTANTS
  NumBuddies,   \* PMM_NUM_BUDDIES
  Capacity,     \* Capacity[l] = 1 << l, the frames of a block of level l
  NFrames       \* number of managed frames (n_frames of pmm_init)

Levels == 0..(NumBuddies - 1)
Top    == NumBuddies - 1
Frames == 0..(NFrames - 1)

(***************************************************************************)
(* The capacities double from level to level, and pmm_init rounds n_frames *)
(* down so that the top level tiles the managed region.                    *)
(***************************************************************************)
ASSUME BuddiesAssumption ==
  /\ NumBuddies \in Nat \ {0}
  /\ NFrames \in Nat
  /\ Capacity \in [Levels -> Nat]
  /\ Capacity[0] = 1
  /\ \A l \in Levels \ {0} : Capacity[l] = 2 * Capacity[l - 1]
  /\ NFrames % Capacity[Top] = 0

FramesOf(l, start) == start..(start + Capacity[l] - 1)

\* The bitsets as pmm_init leaves them: only the top level is filled.
FreshBuddies ==
  [l \in Levels |-> IF l = Top THEN {s \in Frames : s % Capacity[Top] = 0}
                               ELSE {}]

\* The least element of a nonempty set of numbers.
Least(S) == CHOOSE s \in S : \A t \in S : s <= t

\* bitset_find: the lowest set bit.
bitset_find(S) == Least(S)

\* log2 rounds down.
log2(n) == CHOOSE l \in Levels : Capacity[l] <= n /\ n < 2 * Capacity[l]

-----------------------------------------------------------------------------
(***************************************************************************)
(* mark_used(level, n, idx) for n a power of two.  The recursion descends  *)
(* through the left halves until one is exactly n frames long; every right *)
(* half on the way is entered with n_frames = 0 and set, and the exact fit *)
(* is cleared.  MCPmm holds the recursion itself and compares the two.     *)
(***************************************************************************)
\* Mutant: the right half at the level of the exact fit is not given back.
mark_used_loses_buddy(b, level, n, start) ==
  [l \in Levels |->
     IF l < level /\ l > log2(n) THEN b[l] \cup {start + Capacity[l]} ELSE b[l]]

\* Mutant: the right half is taken to begin one block too far.
mark_used_right_off_by_one(b, level, n, start) ==
  [l \in Levels |->
     LET set   == IF l < level /\ l >= log2(n) THEN {start + 2 * Capacity[l]} ELSE {}
         clear == IF l = log2(n) THEN {start} ELSE {}
     IN  (b[l] \cup set) \ clear]

mark_used(b, level, n, start) ==
  [l \in Levels |->
     LET set   == IF l < level /\ l >= log2(n) THEN {start + Capacity[l]} ELSE {}
         clear == IF l = log2(n) THEN {start} ELSE {}
     IN  (b[l] \cup set) \ clear]

(***************************************************************************)
(* pmm_alloc_buddy(n, &addr): the first level from log2(n) upwards with a  *)
(* set bit, and its lowest bit.  The bit is cleared, mark_used splits the  *)
(* block, and the first n frames are the answer.  No such level: E_NOMEM.  *)
(***************************************************************************)
LevelsWithBlock(b, n) == {l \in Levels : l >= log2(n) /\ b[l] # {}}

can_alloc(b, n)   == LevelsWithBlock(b, n) # {}
alloc_level(b, n) == Least(LevelsWithBlock(b, n))
alloc_start(b, n) == bitset_find(b[alloc_level(b, n)])

\* Mutant: the bit that was found is not cleared before the split.
after_alloc_no_clear(b, n) ==
  mark_used(b, alloc_level(b, n), n, alloc_start(b, n))

after_alloc(b, n) ==
  LET i == alloc_level(b, n)
      s == alloc_start(b, n)
  IN  mark_used([b EXCEPT ![i] = @ \ {s}], i, n, s)

(***************************************************************************)
(* pmm_free(n, addr): the bit of level log2(n) that covers the frame is    *)
(* set.  The shift by the level drops the low bits of the frame number.    *)
(* Nothing is recombined.                                                  *)
(***************************************************************************)
after_free(b, n, frame) ==
  LET l == log2(n)
  IN  [b EXCEPT ![l] = @ \cup {(frame \div Capacity[l]) * Capacity[l]}]

=============================================================================
