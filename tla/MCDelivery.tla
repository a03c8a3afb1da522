----------------------------- MODULE MCDelivery -----------------------------
(***************************************************************************)
(* A small instance of Delivery: two exports that share a folder, and a    *)
(* pipeline into a database.                                               *)
(***************************************************************************)
EXTENDS Delivery, TLC

CONSTANTS r1, r2, p1, p2, q, f, noPipe

OneFolder == [p \in Pipe |-> f]
Symmetry == Permutations(Run) \cup Permutations(Files)
=============================================================================
