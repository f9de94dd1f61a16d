-------------------------- MODULE MCResourceSystem --------------------------
(* Three resources of one script each: with two, a walk never has both an  *)
(* entry behind it and an entry inserted under it.                         *)
EXTENDS ResourceSystem, TLC

CONSTANTS r1, r2, r3, s1, s2, s3
ScriptOwner == (s1 :> r1) @@ (s2 :> r2) @@ (s3 :> r3)

\* A resource may be exchanged for another together with its script.
ScriptOf(r) == CHOOSE s \in Scripts : ScriptOwner[s] = r
Alike == {[x \in Resources \union Scripts |->
             IF x \in Resources THEN p[x] ELSE ScriptOf(p[ScriptOwner[x]])] :
             p \in Permutations(Resources)}
=============================================================================
