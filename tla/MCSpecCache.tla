----------------------------- MODULE MCSpecCache -----------------------------
(***************************************************************************)
(* Instances of SpecCache for TLC.                                         *)
(***************************************************************************)
EXTENDS SpecCache, TLC

CONSTANTS c1, c2, c3

CallSymmetry == Permutations(Calls)
=============================================================================
