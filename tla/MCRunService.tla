---------------------------- MODULE MCRunService ----------------------------
(***************************************************************************)
(* Small instances of RunService: two pipelines, one of them a demo, one   *)
(* queue slot, two calls and one crash.  Two calls are the fewest with     *)
(* which one can be refused by the guard, and see what the other did       *)
(* between any two of its steps.                                           *)
(***************************************************************************)
EXTENDS RunService
=============================================================================
