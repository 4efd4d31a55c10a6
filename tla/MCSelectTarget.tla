--------------------------- MODULE MCSelectTarget ---------------------------
(* Instances of SelectTarget; words can be exchanged for one another.  The  *)
(* texts of the editor put a definition after the next without a gap, one   *)
(* with gaps between its elements, and have imports, variables or both.     *)
EXTENDS TypeFromPos, TLC

CONSTANTS a, b, c

Symmetry == Permutations(Words)

P(from, to) == [from |-> from, to |-> to]
E(type, from, to) == [type |-> type, from |-> from, to |-> to]

\* The definition at i begins at 4 * i.
Def(i) ==
    LET s == 4 * i IN
    [from |-> s, to |-> s + 4,
     elements |-> CASE i = 1 -> <<E("name", s, s + 2), E("url", s + 2, s + 4)>>
                    [] i = 2 -> <<E("url", s, s + 2), E("ntlm_auth", s + 2, s + 4)>>
                    [] i = 3 -> <<E("name", s, s + 2), E("header", s + 1, s + 4)>>]

Text(n, imports, variables) ==
    [text |-> P(0, 4 * n + 4), imports |-> imports, variables |-> variables,
     allhttps |-> [i \in 1..n |-> Def(i)]]

MCLayouts ==
    [n \in 1..MaxDefs |->
        {Text(n, <<>>, <<P(0, 2), P(2, 4)>>), Text(n, <<P(0, 2)>>, <<P(2, 4)>>)}]
MCPositions == 0..17
=============================================================================
