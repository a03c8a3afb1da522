----------------------------- MODULE Scheduler -----------------------------
(***************************************************************************)
(* core/scheduler.py and the endpoints that use it: the timers of one API  *)
(* process, which must follow the schedules of the control store while     *)
(* pipelines are created, edited and deleted, and the scheduler is         *)
(* started, stopped and reloaded, by concurrent requests.                  *)
(*                                                                         *)
(* A call is one request, used once, or the startup of the process (Boot). *)
(* The module lock is `owner`; APScheduler's own threads fire timers       *)
(* without it.  The control store raises at most MaxFaults times.          *)
(***************************************************************************)
EXTENDS Naturals, Sequences, FiniteSets

CONSTANTS Name,         \* pipeline names
          NoName,       \* the pipeline of a call that writes none
          DemoName,     \* pipelines the demo endpoints save
          Timer,        \* triggers: an interval, or a time of day and its zone
          Left,         \* schedules an earlier process may have left in the store
          Call,         \* requests
          Boot,         \* the startup of the process
          Nobody,       \* the lock is free
          Max,          \* limit of the run queue
          MaxFaults,    \* model bound: errors of the control store
          MaxRestarts   \* model bound: crashes of the API process

ASSUME NameAssumption == IsFiniteSet(Name) /\ NoName \notin Name /\ DemoName \subseteq Name
ASSUME CallAssumption == Boot \notin Call /\ Nobody \notin Call \cup {Boot}
ASSUME BoundAssumption == MaxFaults \in Nat /\ MaxRestarts \in Nat
ASSUME PlanAssumption == Timer \cap {"absent", "none", "manual", "airflow", "poison"} = {}

VARIABLES store,     \* schedule of a stored pipeline, or "absent"
          jobs,      \* trigger of a pipeline's job, or "none"
          on,        \* _started and _scheduler is not None
          owner,     \* who holds _lock
          pc,        \* where a call stands
          wrote,     \* the pipeline a call has written
          snapshot,  \* what list_all returned to a call
          pending,   \* the run queue
          active,
          unsynced,  \* written by a request that never reloads, and not read since
          halted,    \* scheduler_stop was the last to start or stop the scheduler
          failed,    \* the last rebuild raised
          faults,
          restarts

lifeVars == <<on, halted>>
queueVars == <<pending, active>>
boundVars == <<faults, restarts>>
vars == <<store, jobs, on, owner, pc, wrote, snapshot, pending, active,
          unsynced, halted, failed, faults, restarts>>

\* What a stored schedule asks of the scheduler: a trigger; nothing (manual,
\* airflow, a time or zone that _add_jobs_from_store skips); or "poison", an
\* interval_minutes out of timedelta's range, for which building the trigger
\* raises (config.py accepts any integer but 0).
Plan == Timer \cup {"manual", "airflow", "poison"}

ASSUME LeftAssumption == Left \subseteq Plan \cup {"absent"}

Caller == Call \cup {Boot}
PCs == {"free", "reload", "stop", "halt", "start", "clear", "read", "add", "done",
        "lost"}

Pool == INSTANCE JobPool WITH stuck <- {}

InFlight(c) == pc[c] \notin {"free", "done", "lost"}
NoRows == [n \in Name |-> "absent"]
NoJobs == [n \in Name |-> "none"]

Goto(c, label) == pc' = [pc EXCEPT ![c] = label]

-----------------------------------------------------------------------------
\* The control store is as an earlier process left it.
Init == /\ store \in [Name -> Left]
        /\ jobs = NoJobs
        /\ on = FALSE
        /\ owner = Nobody
        /\ pc = [c \in Caller |-> IF c = Boot THEN "start" ELSE "free"]
        /\ wrote = [c \in Caller |-> NoName]
        /\ snapshot = [c \in Caller |-> NoRows]
        /\ Pool!Init
        /\ unsynced = {}
        /\ halted = FALSE
        /\ failed = FALSE
        /\ faults = 0
        /\ restarts = 0

-----------------------------------------------------------------------------
(* Requests.  The API serves none before _startup has ended.               *)

Begin(c, label) ==
    /\ pc[c] = "free"
    /\ pc[Boot] = "done"
    /\ Goto(c, label)
    /\ UNCHANGED <<jobs, lifeVars, owner, snapshot, queueVars, failed, boundVars>>

Write(c, n, p) ==
    /\ store' = [store EXCEPT ![n] = p]
    /\ wrote' = [wrote EXCEPT ![c] = n]

\* create_pipeline: the configuration is saved, and only then is
\* kind=airflow refused with 422, before the reload.
Create(c, n, p) ==
    /\ p \in Plan
    /\ Write(c, n, p)
    /\ IF p = "airflow"
       THEN Begin(c, "done") /\ unsynced' = unsynced \cup {n}
       ELSE Begin(c, "reload") /\ UNCHANGED unsynced

\* delete_pipeline.
Delete(c, n) ==
    /\ store[n] # "absent"
    /\ Write(c, n, "absent")
    /\ Begin(c, "reload")
    /\ UNCHANGED unsynced

\* demo_volume, demo_sql, demo_rest: saved with the default schedule, manual;
\* no reload.
Demo(c, n) ==
    /\ n \in DemoName
    /\ Write(c, n, "manual")
    /\ Begin(c, "done")
    /\ unsynced' = unsynced \cup {n}

\* scheduler_start, scheduler_stop and scheduler_reload.
Control(c) ==
    /\ \E label \in {"start", "halt", "reload"} : Begin(c, label)
    /\ UNCHANGED <<store, wrote, unsynced>>

-----------------------------------------------------------------------------
(* reload_jobs, stop_scheduler and start_scheduler.                        *)

\* reload_jobs, lock section: a running scheduler is rebuilt under the lock
\* that is held; otherwise the lock is released before stop and start.
ReloadCheck(c) ==
    /\ pc[c] = "reload"
    /\ owner = Nobody
    /\ IF on
       THEN Goto(c, "clear") /\ owner' = c
       ELSE Goto(c, "stop") /\ UNCHANGED owner
    /\ UNCHANGED <<store, jobs, lifeVars, wrote, snapshot, queueVars, unsynced, failed,
                   boundVars>>

\* stop_scheduler as a reload would use it without start_scheduler after it.
StopOnly(c) ==
    /\ pc[c] \in {"stop", "halt"}
    /\ owner = Nobody
    /\ jobs' = NoJobs
    /\ on' = FALSE
    /\ halted' = (pc[c] = "halt" \/ halted)
    /\ Goto(c, "done")
    /\ UNCHANGED <<store, owner, wrote, snapshot, queueVars, unsynced, failed, boundVars>>

\* stop_scheduler, one lock section.  What already fired stays in
\* the run queue.
Stop(c) ==
    /\ pc[c] \in {"stop", "halt"}
    /\ owner = Nobody
    /\ jobs' = NoJobs
    /\ on' = FALSE
    /\ halted' = (pc[c] = "halt" \/ halted)
    /\ Goto(c, IF pc[c] = "halt" THEN "done" ELSE "start")
    /\ UNCHANGED <<store, owner, wrote, snapshot, queueVars, unsynced, failed, boundVars>>

\* An error of the control store ends the call.  Every caller but the
\* scheduler endpoints logs and swallows it, and they answer 500: the same here.
Fault(c) ==
    /\ faults < MaxFaults
    /\ faults' = faults + 1
    /\ failed' = TRUE
    /\ Goto(c, "done")

\* start_scheduler that does not take the lock.
StartUnlocked(c) ==
    /\ pc[c] = "start"
    /\ Goto(c, "clear")
    /\ UNCHANGED <<store, jobs, lifeVars, owner, wrote, snapshot, queueVars, unsynced,
                   failed, boundVars>>

\* start_scheduler takes the lock and opens the store.
Start(c) ==
    /\ pc[c] = "start"
    /\ owner = Nobody
    /\ \/ Goto(c, "clear") /\ owner' = c /\ UNCHANGED <<failed, faults>>
       \/ Fault(c) /\ UNCHANGED owner
    /\ UNCHANGED <<store, jobs, lifeVars, wrote, snapshot, queueVars, unsynced, restarts>>

\* A rebuild that relies on add_job(replace_existing=True) alone.
ClearNothing(c) ==
    /\ pc[c] = "clear"
    /\ Goto(c, "read")
    /\ UNCHANGED <<store, jobs, lifeVars, owner, wrote, snapshot, queueVars, unsynced,
                   failed, boundVars>>

\* _clear_jobs.
Clear(c) ==
    /\ pc[c] = "clear"
    /\ jobs' = NoJobs
    /\ Goto(c, "read")
    /\ UNCHANGED <<store, lifeVars, owner, wrote, snapshot, queueVars, unsynced, failed,
                   boundVars>>

\* A lock that an exception leaves held.
ReadKeepsLock(c) ==
    /\ pc[c] = "read"
    /\ \/ /\ snapshot' = [snapshot EXCEPT ![c] = store]
          /\ unsynced' = {}
          /\ Goto(c, "add")
          /\ UNCHANGED <<failed, faults>>
       \/ /\ Fault(c)
          /\ UNCHANGED <<snapshot, unsynced>>
    /\ UNCHANGED <<store, jobs, lifeVars, owner, wrote, queueVars, restarts>>

\* ControlStore() and list_all(), after the jobs are gone: the schedules that
\* will be installed are those of this moment, or the call ends without any.
Read(c) ==
    /\ pc[c] = "read"
    /\ \/ /\ snapshot' = [snapshot EXCEPT ![c] = store]
          /\ unsynced' = {}
          /\ Goto(c, "add")
          /\ UNCHANGED <<owner, failed, faults>>
       \/ /\ Fault(c)
          /\ owner' = Nobody
          /\ UNCHANGED <<snapshot, unsynced>>
    /\ UNCHANGED <<store, jobs, lifeVars, wrote, queueVars, restarts>>

\* The loop without its tests of the kind.
AddedAny(c, S) == [n \in Name |-> IF n \in S /\ snapshot[c][n] # "absent"
                                  THEN snapshot[c][n] ELSE jobs[n]]

\* The loop of _add_jobs_from_store over the rows of S.
Added(c, S) == [n \in Name |-> IF n \in S /\ snapshot[c][n] \in Timer
                               THEN snapshot[c][n] ELSE jobs[n]]

\* _add_jobs_from_store, then the scheduler runs.  A poisonous schedule ends
\* the loop at its row: those before it have jobs, and a scheduler that is
\* not running yet never starts.
Add(c) ==
    /\ pc[c] = "add"
    /\ Goto(c, "done")
    /\ owner' = Nobody
    /\ LET bad == {n \in Name : snapshot[c][n] = "poison"}
       IN  IF bad = {}
           THEN /\ jobs' = Added(c, Name)
                /\ on' = TRUE
                /\ halted' = FALSE
                /\ failed' = FALSE
           ELSE /\ \E S \in SUBSET (Name \ bad) : jobs' = IF on THEN Added(c, S) ELSE jobs
                /\ failed' = TRUE
                /\ UNCHANGED lifeVars
    /\ snapshot' = [snapshot EXCEPT ![c] = NoRows]
    /\ UNCHANGED <<store, wrote, queueVars, unsynced, boundVars>>

-----------------------------------------------------------------------------
(* Timers and the run queue.                                               *)

\* A callback that skips its turn while the queue is busy.
FireWhenIdle(n) ==
    /\ on
    /\ jobs[n] # "none"
    /\ active = {}
    /\ pending = <<>>
    /\ Pool!Submit(n)
    /\ UNCHANGED <<store, jobs, lifeVars, owner, pc, wrote, snapshot, unsynced, failed,
                   boundVars>>

\* The trigger of n comes due and APScheduler calls _enqueue_job: the queue
\* takes n, or knows it already and refuses.
Fire(n) ==
    /\ on
    /\ jobs[n] # "none"
    /\ \/ Pool!Submit(n)
       \/ n \in active \cup Pool!Waiting /\ UNCHANGED queueVars
    /\ UNCHANGED <<store, jobs, lifeVars, owner, pc, wrote, snapshot, unsynced, failed,
                   boundVars>>

\* The queue gives n a slot, or its run ends.
Dispatch == /\ Pool!Dispatch
            /\ UNCHANGED <<store, jobs, lifeVars, owner, pc, wrote, snapshot,
                           unsynced, failed, boundVars>>
Complete(n) == /\ Pool!Complete(n)
               /\ UNCHANGED <<store, jobs, lifeVars, owner, pc, wrote, snapshot,
                              unsynced, failed, boundVars>>

-----------------------------------------------------------------------------
\* The process dies and starts again; only the control store survives.
Restart ==
    /\ restarts < MaxRestarts
    /\ restarts' = restarts + 1
    /\ jobs' = NoJobs
    /\ on' = FALSE
    /\ owner' = Nobody
    /\ pc' = [c \in Caller |-> IF c = Boot THEN "start"
                               ELSE IF InFlight(c) THEN "lost" ELSE pc[c]]
    /\ pending' = <<>>
    /\ active' = {}
    /\ halted' = FALSE
    /\ failed' = FALSE
    /\ snapshot' = [c \in Caller |-> NoRows]
    /\ UNCHANGED <<store, wrote, unsynced, faults>>

Step(c) == \/ ReloadCheck(c)
           \/ Stop(c)
           \/ Start(c)
           \/ Clear(c)
           \/ Read(c)
           \/ Add(c)

Next == \/ \E c \in Caller : Step(c)
        \/ \E c \in Call : Control(c)
        \/ \E c \in Call, n \in Name : \/ \E p \in Plan : Create(c, n, p)
                                       \/ Delete(c, n)
                                       \/ Demo(c, n)
        \/ \E n \in Name : Fire(n) \/ Complete(n)
        \/ Dispatch
        \/ Restart

SafeSpec == Init /\ [][Next]_vars

\* Threads keep running, a job's trigger comes due again and again, and a run
\* ends.  Requests, faults and crashes are not obliged to happen.
Fairness == /\ \A c \in Caller : WF_vars(Step(c))
            /\ \A n \in Name : WF_vars(Fire(n)) /\ WF_vars(Complete(n))
            /\ WF_vars(Dispatch)

Spec == SafeSpec /\ Fairness

-----------------------------------------------------------------------------
TypeOK ==
    /\ store \in [Name -> Plan \cup {"absent"}]
    /\ jobs \in [Name -> Timer \cup {"none"}]
    /\ on \in BOOLEAN
    /\ owner \in Caller \cup {Nobody}
    /\ pc \in [Caller -> PCs]
    /\ wrote \in [Caller -> Name \cup {NoName}]
    /\ snapshot \in [Caller -> [Name -> Plan \cup {"absent"}]]
    /\ pending \in Seq(Name)
    /\ active \subseteq Name
    /\ unsynced \subseteq Name
    /\ halted \in BOOLEAN
    /\ failed \in BOOLEAN
    /\ faults \in 0 .. MaxFaults
    /\ restarts \in 0 .. MaxRestarts

\* The request that wrote n has yet to reload.
Reloading(n) == \E c \in Call : InFlight(c) /\ wrote[c] = n

\* "Remove every registered job so a reload cannot keep a stale interval"
\* (core/scheduler.py:49): a timer that runs is the stored one, even after a
\* rebuild that raised, except while the request that changed the schedule is
\* still reloading, and for the requests that never reload.
NoStaleJob ==
    \A n \in Name : jobs[n] # "none" =>
        jobs[n] = store[n] \/ Reloading(n) \/ n \in unsynced

\* Conversely a running scheduler has a timer for every stored schedule,
\* unless it is being rebuilt or the last rebuild raised.
NoMissingJob ==
    on /\ owner = Nobody /\ ~failed =>
        \A n \in Name : store[n] \in Timer =>
            jobs[n] = store[n] \/ Reloading(n) \/ n \in unsynced

\* The scheduler is off for a reason: somebody stopped it, a rebuild raised,
\* or a call is about to start it.  reload_jobs of a scheduler that does not
\* run gives the lock away twice between its test and its start.
OffForAReason ==
    on \/ halted \/ failed \/ \E c \in Caller : pc[c] \in {"start", "clear", "read", "add"}

\* Every call gets the lock and gives it back, also when the store raises.
CallsEnd == \A c \in Caller : InFlight(c) ~> ~InFlight(c)

\* From timer to run: a pipeline whose timer stays installed is run again and
\* again, whatever the queue was doing when the timer fired.
KeepsRunning ==
    \A n \in Name : <>[](on /\ jobs[n] # "none") => []<>(n \in active) /\ []<>(n \notin active)

-----------------------------------------------------------------------------
(* What all that promises of the timers.                                   *)

\* Read and not yet installed: by one call, as it holds the lock.
Rows == {snapshot[c] : c \in {d \in Caller : pc[d] = "add"}}
Queued == active \cup Pool!Waiting

Table == INSTANCE TimerTable
         WITH schedules <- store, timers <- jobs, running <- on, rows <- Rows,
              queued <- Queued

\* The lock sections of starts, stops and reloads, with all that comes between
\* them, make the table of timers that TimerTable describes: emptied or
\* installed as a whole from one look at the store, and never fired when off.
ImplementsTable == Table!Spec

-----------------------------------------------------------------------------
(* What a comment says and the code does not keep.                         *)

\* "Har doim reload: ... eski job o'chirilishi shart" (api/app.py:674): when no
\* request is in progress and the last rebuild succeeded, no timer is older
\* than its pipeline's configuration.
AlwaysReloaded ==
    (\A c \in Caller : ~InFlight(c)) /\ ~failed =>
        \A n \in Name : jobs[n] # "none" => jobs[n] = store[n]
=============================================================================
