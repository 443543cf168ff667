-------------------------------- MODULE MCVm --------------------------------
(***************************************************************************)
(* Vm on small instances: an address space of 20 pages, of which the upper *)
(* 15 are the kernel's, and four frames in blocks of one, two and four.    *)
(***************************************************************************)
EXTENDS Vm

MCCapacity == [l \in Levels |-> 2^l]

=============================================================================
