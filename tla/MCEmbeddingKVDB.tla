---------------------------- MODULE MCEmbeddingKVDB ----------------------------
(* Small instances of EmbeddingKVDB for TLC. *)
EXTENDS EmbeddingKVDB, TLC

CONSTANTS c1, c2, k1, k2, k3

Symmetric == Permutations(Keys) \cup Permutations(Clients)
=============================================================================
