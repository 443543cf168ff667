------------------------------ MODULE PmmInit ------------------------------
(***************************************************************************)
(* pmm_init of kernel/memory/pmm.c: from the end of the kernel image and   *)
(* the end of memory it computes where the bitsets go, where the managed   *)
(* region begins and how many frames it has.  Addresses are numbers below  *)
(* AddressLimit and subtraction wraps around as it does for paddr_t.       *)
(***************************************************************************)
EXTENDS Pmm

CONSTANTS
  PAGE_SIZE,         \* 4096
  FramesPerByte,     \* 4: a frame takes two bits in all bitsets together
  DwordBytes,        \* 4
  AddressLimit,      \* 2^32
  KERNEL_END_PHYS,   \* the end of the kernel image
  UpperBounds        \* the ends of memory that the boot loader may report

ASSUME PmmInitAssumption ==
  /\ {PAGE_SIZE, FramesPerByte, DwordBytes, AddressLimit} \subseteq Nat \ {0}
  /\ KERNEL_END_PHYS \in Nat
  /\ UpperBounds \subseteq 0..(AddressLimit - 1)

DwordBits == 2 * FramesPerByte * DwordBytes

minus(a, b) == (a - b) % AddressLimit

PAGE_ALIGN(addr) == ((addr + PAGE_SIZE - 1) \div PAGE_SIZE) * PAGE_SIZE

\* Mutant: one bit for each frame.
pmm_estimate_bytes_required_halved(avail) == (avail \div PAGE_SIZE) \div (2 * FramesPerByte)

pmm_estimate_bytes_required(avail) == (avail \div PAGE_SIZE) \div FramesPerByte

managed_first(upper_bound) ==
  PAGE_ALIGN(KERNEL_END_PHYS
               + pmm_estimate_bytes_required(minus(upper_bound, KERNEL_END_PHYS)))

\* The frames, rounded down to whole dwords of the top level.
n_frames(upper_bound) ==
  LET frames == minus(upper_bound, managed_first(upper_bound)) \div PAGE_SIZE
      unit   == DwordBits * Capacity[Top]
  IN  (frames \div unit) * unit

\* buddies[i].len in dwords, and buddies[i].data in dwords behind the image.
buddy_len(upper_bound, i) == n_frames(upper_bound) \div (DwordBits * Capacity[i])

buddy_data(upper_bound) ==
  LET data[i \in Levels] ==
        IF i = 0 THEN 0 ELSE data[i - 1] + buddy_len(upper_bound, i - 1)
  IN  data

\* The address behind the bitset of level i, and the address that pmm_alloc
\* returns for a block that starts at frame s.
buddy_end(upper_bound, i) ==
  KERNEL_END_PHYS + DwordBytes * (buddy_data(upper_bound)[i] + buddy_len(upper_bound, i))
address(upper_bound, s) == managed_first(upper_bound) + PAGE_SIZE * s
-----------------------------------------------------------------------------
\* Memory reaches beyond the image and the bitsets, so nothing wraps around.
EnoughMemory(u) == KERNEL_END_PHYS <= u /\ managed_first(u) <= u

(***************************************************************************)
(* When there is enough memory, what pmm_init computes is fit for what     *)
(* pmm_alloc and pmm_free do: every block that is handed out lies behind   *)
(* all bitsets and inside memory, and every block that is held or offered  *)
(* has its bit inside the bitset of its level.                             *)
(***************************************************************************)
FramesInMemory ==
  \A u \in UpperBounds :
    EnoughMemory(u) /\ n_frames(u) = NFrames =>
      /\ \A l, i \in Levels : \A s \in held[l] :
           /\ buddy_end(u, i) <= address(u, s)
           /\ address(u, s) + PAGE_SIZE * Capacity[l] <= u
      /\ \A l \in Levels : \A s \in held[l] \cup buddies[l] :
           s \div Capacity[l] < DwordBits * buddy_len(u, l)

=============================================================================
