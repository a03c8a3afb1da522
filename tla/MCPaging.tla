------------------------------ MODULE MCPaging ------------------------------
(***************************************************************************)
(* Small instances of Paging: pages of two records, two or three pages.    *)
(***************************************************************************)
EXTENDS Paging, TLC

CONSTANTS r1, r2, r3

\* Two documents of the first type, one of the second.
TwoTypes == [r \in Record |-> IF r = r3 THEN 2 ELSE 1]
=============================================================================
