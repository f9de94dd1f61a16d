---------------------------- MODULE MCServerWorld ----------------------------
(* Small instances of ServerWorld.  Blocks, NIDs, peers and addresses are    *)
(* interchangeable, so the safety runs use them as symmetric model values.   *)
EXTENDS ServerWorld, TLC

Symmetry == Permutations(Obj) \union Permutations(Nids)
            \union Permutations(Slots) \union Permutations(Addrs)
=============================================================================
