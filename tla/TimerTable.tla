------------------------------ MODULE TimerTable ------------------------------
(***************************************************************************)
(* What the scheduler promises of its timers, with no lock, no calls and   *)
(* no request handlers: timers are only ever emptied, or installed into an *)
(* empty table from one look at the stored schedules; nobody comes between *)
(* look and installation; and what the run queue gets was due to an        *)
(* installed timer of a running scheduler.  Scheduler implements it.       *)
(***************************************************************************)
CONSTANTS Name,    \* pipeline names
          Timer    \* what a schedule may ask for; the rest asks for nothing

VARIABLES schedules,  \* the control store
          timers,     \* the timer of a pipeline, or "none"
          running,
          rows,       \* the look at the schedules that is to be installed
          queued      \* pipelines in the run queue, waiting or in a slot

vars == <<schedules, timers, running, rows, queued>>

NoTimers == [n \in Name |-> "none"]
Rebuilding == rows # {}

Init == /\ timers = NoTimers
        /\ running = FALSE
        /\ rows = {}
        /\ queued = {}

Edit(n) == /\ schedules' = [schedules EXCEPT ![n] = schedules'[n]]
           /\ UNCHANGED <<timers, running, rows, queued>>

\* The start of a rebuild, or a stop.
Empty == /\ ~Rebuilding
         /\ timers' = NoTimers
         /\ running' \in {running, FALSE}
         /\ UNCHANGED <<schedules, rows, queued>>

Look == /\ ~Rebuilding
        /\ timers = NoTimers
        /\ rows' = {schedules}
        /\ UNCHANGED <<schedules, timers, running, queued>>

TimersOf(row, S) == [n \in Name |-> IF n \in S /\ row[n] \in Timer THEN row[n] ELSE "none"]

\* All of them, and the scheduler runs ...
Install == \E row \in rows :
    /\ rows = {row}
    /\ rows' = {}
    /\ timers' = TimersOf(row, Name)
    /\ running' = TRUE
    /\ UNCHANGED <<schedules, queued>>

\* ... or, for a schedule of which no trigger can be built, those before it, if
\* it runs already.
GiveUp == \E row \in rows, n \in Name, S \in SUBSET Name :
    /\ rows = {row}
    /\ row[n] = "poison" /\ n \notin S
    /\ rows' = {}
    /\ timers' = IF running THEN TimersOf(row, S) ELSE NoTimers
    /\ UNCHANGED <<schedules, running, queued>>

\* A timer comes due for a pipeline that the queue does not have.
Fire(n) == /\ running
           /\ timers[n] # "none"
           /\ n \notin queued
           /\ queued' = queued \cup {n}
           /\ UNCHANGED <<schedules, timers, running, rows>>

Complete(n) == /\ queued' = queued \ {n}
               /\ UNCHANGED <<schedules, timers, running, rows>>

Crash == /\ timers' = NoTimers
         /\ running' = FALSE
         /\ rows' = {}
         /\ queued' = {}
         /\ UNCHANGED schedules

Next == \/ \E n \in Name : Edit(n) \/ Fire(n) \/ Complete(n)
        \/ Empty \/ Look \/ Install \/ GiveUp \/ Crash

Spec == Init /\ [][Next]_vars
=============================================================================
