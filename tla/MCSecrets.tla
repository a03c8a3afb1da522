------------------------------ MODULE MCSecrets ------------------------------
(***************************************************************************)
(* A small instance of Secrets: calls of the API and of the CLI at once.    *)
(***************************************************************************)
EXTENDS Secrets, TLC

CONSTANTS c1, c2, v1, blank

Symmetry == Permutations(Call)
=============================================================================
