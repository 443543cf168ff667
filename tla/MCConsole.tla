----------------------------- MODULE MCConsole -----------------------------
(***************************************************************************)
(* Console with words of eight bits and a buffer of four digits, so that   *)
(* as in the kernel every decimal and hexadecimal number has room in the   *)
(* buffer and not every binary one.                                        *)
(***************************************************************************)
EXTENDS Console

Numbers  == INT_MIN..INT_MAX
SomeNumbers == {INT_MIN, -100, -1, 0, 9, 10, 15, 16, INT_MAX}
Pads     == {" ", "0"}

Ints   == {<<Dir(p, w, -1, u, FALSE, s, <<n>>)>> :
             p \in Pads, w \in {0, 3, 6}, u \in BOOLEAN, s \in {"d", "x", "b"}, n \in Numbers}
Longs  == {<<Dir(p, w, -1, FALSE, TRUE, "x", <<low, high>>)>> :
             p \in Pads, w \in {0, 2, 4}, low \in SomeNumbers, high \in SomeNumbers}
Doubles == {<<Dir(p, w, k, FALSE, FALSE, "f", <<q>>)>> :
             p \in Pads, w \in {0, 12}, k \in {-1, 0, 1, 2, 3},
             q \in {-250, -100, -1, 0, 5, 12, 99, 100, 127, 1270, 1280}}
Finer  == {<<Dir(" ", 0, 7, FALSE, FALSE, "f", <<q>>)>> : q \in {-1, 0, 100}}

Pieces == {Text(<<"a", "b">>), Text(<<"\n">>), Text(<<"a", "\n", "b">>), Percent,
           Dir("0", 12, -1, FALSE, FALSE, "d", <<-7>>),
           Dir(" ", 4, -1, FALSE, FALSE, "s", <<<<"a", "b">>>>),
           Dir(" ", 0, -1, FALSE, FALSE, "x", <<31>>),
           Dir(" ", 0, -1, FALSE, FALSE, "c", <<>>)}
Mixed  == UNION {[1..n -> Pieces] : n \in 0..3} \cup {<<p, Lone>> : p \in Pieces}

MCCalls == Ints \cup Longs \cup Doubles \cup Finer \cup Mixed

=============================================================================
