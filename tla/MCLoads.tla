------------------------------- MODULE MCLoads -------------------------------
(***************************************************************************)
(* Small instances of Loads: two loads that follow or overlap each other,  *)
(* of one pipeline or of two, with one error and one crash.                *)
(***************************************************************************)
EXTENDS Loads, TLC

Symmetry == Permutations(Name) \cup Permutations(Load)
=============================================================================
