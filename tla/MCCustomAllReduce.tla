-------------------------- MODULE MCCustomAllReduce --------------------------
(* The instance of CustomAllReduce that TLC checks: two GPUs, named, since  *)
(* a liveness property is no use with symmetric ones.                       *)
EXTENDS CustomAllReduce

CONSTANTS r1, r2
=============================================================================
