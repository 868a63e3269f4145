---------------------------- MODULE MCRetention ----------------------------
(***************************************************************************)
(* Instances of Retention for TLC.                                         *)
(***************************************************************************)
EXTENDS Retention, TLC

CONSTANTS c1, c2, v1, r1

Symmetry == Permutations(Collectors) \union Permutations(Viewers)
=============================================================================
