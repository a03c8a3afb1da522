----------------------------- MODULE MCRunQueue -----------------------------
(***************************************************************************)
(* Small instance of RunQueue: more pipelines than slots, so that the      *)
(* limit is reached with items still waiting.                              *)
(***************************************************************************)
EXTENDS RunQueue
=============================================================================
