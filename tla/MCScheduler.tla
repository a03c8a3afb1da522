---------------------------- MODULE MCScheduler ----------------------------
(***************************************************************************)
(* Small instances of Scheduler: two pipelines, of which one is a demo's,  *)
(* so that one rebuild can lose the other's timer, and two requests that   *)
(* interleave with each other, with the startup and with the timers.       *)
(***************************************************************************)
EXTENDS Scheduler
=============================================================================
