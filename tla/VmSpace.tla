------------------------------ MODULE VmSpace ------------------------------
(***************************************************************************)
(* What kernel/memory/vm.c promises of the kernel's virtual pages, without *)
(* lists: a page is free, in a run that a caller holds, or kept by the     *)
(* allocator for its own list nodes.  An allocation may take any free run; *)
(* a free gives back the run it names, and may first keep one free page.   *)
(* The kernel may stop at any time.                                        *)
(***************************************************************************)
EXTENDS Integers

CONSTANTS
  Managed,     \* the pages vm_init puts under management
  Requests     \* the sizes callers ask for

VARIABLES
  free,        \* free pages
  held,        \* the runs callers hold, as [pageno, pages]
  internal,    \* pages kept for list nodes
  halted

vars == <<free, held, internal, halted>>

PagesOf(h) == h.pageno..(h.pageno + h.pages - 1)

Init ==
  /\ free = Managed
  /\ held = {}
  /\ internal = {}
  /\ halted = FALSE

Alloc(p, n) ==
  /\ ~ halted
  /\ held' = held \cup {[pageno |-> p, pages |-> n]}
  /\ PagesOf([pageno |-> p, pages |-> n]) \subseteq free
  /\ free' = free \ PagesOf([pageno |-> p, pages |-> n])
  /\ UNCHANGED <<internal, halted>>

Free(h) ==
  /\ ~ halted
  /\ held' = held \ {h}
  /\ \/ internal' = internal /\ free' = free \cup PagesOf(h)
     \/ \E p \in free :
          /\ internal' = internal \cup {p}
          /\ free' = (free \ {p}) \cup PagesOf(h)
  /\ UNCHANGED halted

Halt ==
  /\ ~ halted
  /\ halted' = TRUE
  /\ UNCHANGED <<free, held, internal>>

Next ==
  \/ \E p \in Managed, n \in Requests : Alloc(p, n)
  \/ \E h \in held : Free(h)
  \/ Halt

Spec == Init /\ [][Next]_vars
-----------------------------------------------------------------------------
\* Pages are conserved: every managed page is in exactly one place, and no
\* two runs that callers hold share a page.
Conserved ==
  /\ free \cap internal = {}
  /\ \A h \in held : PagesOf(h) \cap (free \cup internal) = {}
  /\ \A g, h \in held : g # h => PagesOf(g) \cap PagesOf(h) = {}
  /\ Managed = free \cup internal \cup UNION {PagesOf(h) : h \in held}

=============================================================================
