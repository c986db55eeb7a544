----------------------------- MODULE MCDramShard -----------------------------
(* The instance of DramShard that TLC checks: keys and setters are symmetric. *)
EXTENDS DramShard, TLC

CONSTANTS k1, k2, t1, t2

Symmetry == Permutations(Keys) \cup Permutations(Setters)
=============================================================================
