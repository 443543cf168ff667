-------------------------------- MODULE Pmm --------------------------------
(***************************************************************************)
(* The physical memory manager, kernel/memory/pmm.c, from the return of    *)
(* pmm_init on: callers allocate blocks of n frames and free them with the *)
(* same n and address.  The kernel is single threaded and no interrupt     *)
(* handler allocates, so each call is one step.                            *)
(***************************************************************************)
EXTENDS Buddies

CONSTANT Requests    \* the values of n_frames callers use

\* Sizes that are powers of two and have a level of their own.  The kernel
\* itself only asks for single frames (vm_alloc_kpages).
ASSUME RequestsAssumption ==
  \A n \in Requests : \E l \in Levels : n = Capacity[l]

VARIABLES
  buddies,    \* the free blocks of each level
  held,       \* held[l]: first frames of the blocks of level l that callers own
  err         \* what the last call of pmm_alloc returned

vars == <<buddies, held, err>>

BlockSets == [Levels -> SUBSET Frames]

TypeOK ==
  /\ buddies \in BlockSets
  /\ held \in BlockSets
  /\ err \in {"E_OK", "E_NOMEM"}

Init ==
  /\ buddies = FreshBuddies
  /\ held = [l \in Levels |-> {}]
  /\ err = "E_OK"

pmm_alloc(n) ==
  \/ /\ can_alloc(buddies, n)
     /\ buddies' = after_alloc(buddies, n)
     /\ held' = [held EXCEPT ![log2(n)] = @ \cup {alloc_start(buddies, n)}]
     /\ err' = "E_OK"
  \/ /\ ~ can_alloc(buddies, n)
     /\ err' = "E_NOMEM"
     /\ UNCHANGED <<buddies, held>>

pmm_free(n, frame) ==
  /\ frame \in held[log2(n)]
  /\ buddies' = after_free(buddies, n, frame)
  /\ held' = [held EXCEPT ![log2(n)] = @ \ {frame}]
  /\ UNCHANGED err

Next ==
  \E n \in Requests :
    \/ pmm_alloc(n)
    \/ \E frame \in Frames : pmm_free(n, frame)

Spec == Init /\ [][Next]_vars
-----------------------------------------------------------------------------
\* Every block is a bit of its bitset: its first frame is a multiple of its
\* size, and it ends inside the managed region.
Aligned(S) == \A l \in Levels : \A s \in S[l] :
                s % Capacity[l] = 0 /\ s + Capacity[l] <= NFrames

\* The blocks of two levels that start at s and t do not overlap.
Apart(l, s, m, t) == s + Capacity[l] <= t \/ t + Capacity[m] <= s

(***************************************************************************)
(* Every block, offered or handed out, sits at a multiple of its size and  *)
(* inside the managed region, so that pmm_free, which recomputes the bit   *)
(* from the address, sets the bit that pmm_alloc_buddy cleared.            *)
(***************************************************************************)
BlocksAligned == Aligned(buddies) /\ Aligned(held)

(***************************************************************************)
(* No frame is handed out twice: the blocks that callers hold are disjoint *)
(* from one another and from every block any bitset still offers, across   *)
(* all levels.  This is what the splitting of mark_used, the single clear  *)
(* of pmm_alloc_buddy and the re-set of pmm_free must keep between them.   *)
(***************************************************************************)
NoDoubleAllocation ==
  \A l, m \in Levels :
    /\ \A s \in held[l], t \in buddies[m] : Apart(l, s, m, t)
    /\ \A s, t \in Frames :
         (s \in held[l] /\ t \in held[m] /\ <<l, s>> # <<m, t>>) => Apart(l, s, m, t)
    /\ \A s, t \in Frames :
         (s \in buddies[l] /\ t \in buddies[m] /\ <<l, s>> # <<m, t>>) => Apart(l, s, m, t)

\* Frame f belongs to a block of S.
CoveredBy(S, f) == \E l \in Levels : \E s \in S[l] : f \in FramesOf(l, s)

(***************************************************************************)
(* No frame is ever lost: whatever mark_used splits off and pmm_free gives *)
(* back, each managed frame is in a block a caller holds or in a block     *)
(* some bitset offers.                                                     *)
(***************************************************************************)
NoFrameLost == \A f \in Frames : CoveredBy(buddies, f) \/ CoveredBy(held, f)

(***************************************************************************)
(* A request for one frame, the only one vm_alloc_kpages makes, is refused *)
(* with E_NOMEM only when every managed frame is in somebody's hands,      *)
(* although pmm_free never recombines blocks.                              *)
(***************************************************************************)
SingleFrameRefusedOnlyWhenFull ==
  ~ can_alloc(buddies, 1) => \A f \in Frames : CoveredBy(held, f)

=============================================================================
