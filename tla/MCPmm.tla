------------------------------- MODULE MCPmm -------------------------------
(***************************************************************************)
(* Pmm on a small instance: three levels over eight frames, requests of    *)
(* one, two and four frames.  The recursion of mark_used is kept here, out *)
(* of the modules that carry proofs.                                       *)
(***************************************************************************)
EXTENDS PmmInit, FiniteSets

MCCapacity == [l \in 0..2 |-> 2^l]

\* Every end of memory there is; those from 48 to 91 give eight frames.
MCUpperBounds == 0..127
-----------------------------------------------------------------------------
(***************************************************************************)
(* mark_used as it is written, for any n up to the size of the block.      *)
(***************************************************************************)
\* Mutant: the right half is always given back as a whole.
RECURSIVE mark_used_rec_no_right(_, _, _, _)
mark_used_rec_no_right(b, level, n, start) ==
  LET capacity == 2^level
      half     == capacity \div 2
      left     == IF n < half THEN n ELSE half
  IN  IF n = capacity THEN [b EXCEPT ![level] = @ \ {start}]
      ELSE IF n = 0   THEN [b EXCEPT ![level] = @ \cup {start}]
      ELSE mark_used_rec_no_right(mark_used_rec_no_right(b, level - 1, left, start),
                                  level - 1, 0, start + half)

RECURSIVE mark_used_rec(_, _, _, _)
mark_used_rec(b, level, n, start) ==
  LET capacity == 2^level
      half     == capacity \div 2
      left     == IF n < half THEN n ELSE half
      right    == IF n > half THEN n - half ELSE 0
  IN  IF n = capacity THEN [b EXCEPT ![level] = @ \ {start}]
      ELSE IF n = 0   THEN [b EXCEPT ![level] = @ \cup {start}]
      ELSE mark_used_rec(mark_used_rec(b, level - 1, left, start),
                         level - 1, right, start + half)

(***************************************************************************)
(* For any n up to the size of a free block, power of two or not, the      *)
(* recursion of mark_used gives back exactly the frames behind the first   *)
(* n: the blocks it sets are disjoint and together they are the rest of    *)
(* the block.  For the sizes callers ask for, the closed form that the     *)
(* proofs use gives the same bitsets as the recursion.                     *)
(***************************************************************************)
MarkUsedReturnsTheRest ==
  \A l \in Levels : \A n \in 1..Capacity[l] : \A s \in buddies[l] :
    LET cleared == [buddies EXCEPT ![l] = @ \ {s}]
        after   == mark_used_rec(cleared, l, n, s)
        added   == {<<m, t>> \in Levels \X Frames : t \in after[m] \ cleared[m]}
    IN  /\ UNION {FramesOf(x[1], x[2]) : x \in added}
             = (s + n)..(s + Capacity[l] - 1)
        /\ \A x, y \in added : x # y => Apart(x[1], x[2], y[1], y[2])
        /\ n \in Requests => mark_used(cleared, l, n, s) = after

=============================================================================
