---------------------------- MODULE MCWritePath ----------------------------
(***************************************************************************)
(* Instances of WritePath for TLC: three writers, a deleter, and a writer   *)
(* of empty batches.  No symmetry: the run checks liveness.                 *)
(***************************************************************************)
EXTENDS WritePath

CONSTANTS w1, w2, w3, e1, d1
=============================================================================
