------------------------------ MODULE MCUsersDB ------------------------------
(* UsersDB for TLC.  Peers, addresses, names and passwords each look alike.   *)
EXTENDS UsersDB, TLC

Symmetry == Permutations(Blocks) \union Permutations(Conns)
            \union Permutations(Names) \union Permutations(Passwords)
=============================================================================
