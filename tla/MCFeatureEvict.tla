----------------------------- MODULE MCFeatureEvict -----------------------------
(* Small instances of FeatureEvict for TLC. *)
EXTENDS FeatureEvict, TLC

CONSTANTS s1, s2

Symmetric == Permutations({s1, s2})
=============================================================================
