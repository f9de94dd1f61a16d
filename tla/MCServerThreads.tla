--------------------------- MODULE MCServerThreads ---------------------------
(* Small instances of ServerThreads.                                         *)
EXTENDS ServerThreads, TLC

CONSTANTS s1, s2, n1, n2, c1, c2, r1, h1

OneHost == [c \in Conns |-> h1]

Symmetric == Permutations(Slots) \union Permutations(Nids)
             \union Permutations(Conns)
=============================================================================
