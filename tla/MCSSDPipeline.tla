---------------------------- MODULE MCSSDPipeline ----------------------------
(* The instance of SSDPipeline that TLC checks: indices are symmetric.      *)
EXTENDS SSDPipeline, TLC

CONSTANTS x1, x2

Symmetry == Permutations(Idx)
=============================================================================
