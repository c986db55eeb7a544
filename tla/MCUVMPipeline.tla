---------------------------- MODULE MCUVMPipeline ----------------------------
(* The instance of UVMPipeline that TLC checks: indices are symmetric.      *)
EXTENDS UVMPipeline, TLC

CONSTANTS x1, x2

Symmetry == Permutations(Idx)
=============================================================================
