--------------------------- MODULE MCReplication ---------------------------
EXTENDS Replication, TLC

Symmetry == Permutations(Players) \union Permutations(Objects)
=============================================================================
