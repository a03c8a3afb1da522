----------------------------- MODULE RunService -----------------------------
(***************************************************************************)
(* One API process and every way a pipeline run starts in it:              *)
(*   sync   POST /api/pipelines/{name}/run          (api/app.py)           *)
(*   async  POST /api/pipelines/{name}/run/async    (api/app.py)           *)
(*   queue  a scheduled item dispatched by RunQueue (core/run_queue.py)    *)
(*   demo   POST /api/demo/...                      (api/app.py)           *)
(* All four call run_pipeline_by_name, whose guard _RUNNING_PIPELINES      *)
(* allows one load per pipeline, and then write the run history, each with *)
(* its own exception handlers.  A fifth kind of call touches a destination *)
(* without loading:                                                        *)
(*   aside  the recovery endpoints and the preview (core/pipeline_runner)  *)
(*                                                                         *)
(* A call is used once.  A step of a call is the code from one access to   *)
(* shared state (control store, guard, history, job table) to the next.    *)
(* The run queue is JobPool, which RunQueue implements.                    *)
(***************************************************************************)
EXTENDS Naturals, Sequences, FiniteSets

CONSTANTS Name,         \* pipeline names
          NoName,       \* no pipeline: the target of a call not made yet
          DemoName,     \* names the demo endpoints create and run
          Run,          \* calls of an entry point, timer firings included
          Max,          \* limit of the run queue
          MaxRestarts   \* model bound: crashes of the API process

ASSUME NoNameAssumption == NoName \notin Name
ASSUME DemoAssumption == DemoName \subseteq Name
ASSUME RunAssumption == IsFiniteSet(Run)
ASSUME BoundsAssumption == Max \in Nat \ {0} /\ MaxRestarts \in Nat

VARIABLES stored,      \* names in the control store
          pending,     \* the run queue: waiting names ...
          active,      \* ... and names that hold a slot
          guard,       \* keys of _RUNNING_PIPELINES
          pc,          \* where a call stands
          origin,      \* its entry point
          target,      \* its pipeline
          outcome,     \* what run_pipeline_by_name returned or raised
          history,     \* entries the call wrote to the run history
          dropped,     \* calls of which a history write was lost
          job,         \* _RUN_JOBS entry of an async call, as a poller sees it
          restarts

runVars == <<pc, origin, target, outcome>>
poolVars == <<pending, active>>
vars == <<stored, pending, active, guard, pc, origin, target, outcome, history,
          dropped, job, restarts>>

Origins == {"none", "sync", "async", "queue", "demo", "aside"}
PCs == {"free", "queued", "waiting", "load", "admit", "execute", "release", "record",
        "except", "answer", "result", "fault", "finish", "check", "touch", "done",
        "lost"}
\* "failed" is a RunResult with failed jobs; "keyerror" a KeyError out of
\* _execute; "missing" the KeyError for a pipeline that is not stored; "busy"
\* PipelineAlreadyRunning; "raised" any other exception.
Outcomes == {"none", "ok", "failed", "raised", "keyerror", "missing", "busy"}

NoJob == [status |-> "none", result |-> FALSE, finished |-> FALSE]
JobStatus == {"none", "queued", "running", "done", "error"}

Pool == INSTANCE JobPool WITH stuck <- {}

\* Between the guard's insert and its pop.
Loading(r) == pc[r] \in {"execute", "release"}
Live(r) == pc[r] \notin {"free", "done", "lost"}

Goto(r, label) == pc' = [pc EXCEPT ![r] = label]

-----------------------------------------------------------------------------
Init == /\ stored = Name
        /\ Pool!Init
        /\ guard = {}
        /\ pc = [r \in Run |-> "free"]
        /\ origin = [r \in Run |-> "none"]
        /\ target = [r \in Run |-> NoName]
        /\ outcome = [r \in Run |-> "none"]
        /\ history = [r \in Run |-> <<>>]
        /\ dropped = {}
        /\ job = [r \in Run |-> NoJob]
        /\ restarts = 0

-----------------------------------------------------------------------------
(* Requests.                                                               *)

Begin(r, n, o, label) ==
    /\ pc[r] = "free"
    /\ Goto(r, label)
    /\ origin' = [origin EXCEPT ![r] = o]
    /\ target' = [target EXCEPT ![r] = n]
    /\ UNCHANGED <<outcome, guard, history, dropped, restarts>>

\* run_pipeline: nothing is checked before run_pipeline_by_name.
RequestSync(r, n) ==
    /\ Begin(r, n, "sync", "load")
    /\ UNCHANGED <<stored, poolVars, job>>

\* run_pipeline_async: 404 and 409 leave no trace; otherwise a queued job and
\* a background task.
RequestAsync(r, n) ==
    /\ n \in stored
    /\ n \notin guard
    /\ Begin(r, n, "async", "queued")
    /\ job' = [job EXCEPT ![r].status = "queued"]
    /\ UNCHANGED <<stored, poolVars>>

\* _execute_run_job up to its try block.
StartJob(r) ==
    /\ pc[r] = "queued"
    /\ job' = [job EXCEPT ![r].status = "running"]
    /\ Goto(r, "load")
    /\ UNCHANGED <<stored, poolVars, guard, origin, target, outcome, history,
                   dropped, restarts>>

\* demo_volume, demo_sql and demo_rest save their pipeline first.
RequestDemo(r, n) ==
    /\ n \in DemoName
    /\ stored' = stored \cup {n}
    /\ Begin(r, n, "demo", "load")
    /\ UNCHANGED <<poolVars, job>>

\* A timer fires: RunQueue.enqueue of a name not queued or running there.
RequestQueue(r, n) ==
    /\ Pool!Submit(n)
    /\ Begin(r, n, "queue", "waiting")
    /\ UNCHANGED <<stored, job>>

\* RunQueue gives a slot to the oldest item.
Dispatch ==
    /\ Pool!Dispatch
    /\ UNCHANGED <<stored, guard, runVars, history, dropped, job, restarts>>

\* A worker that returns early without reaching the code that frees its slot.
QueueBeginLeak(r) ==
    /\ pc[r] = "waiting"
    /\ target[r] \in active
    /\ Goto(r, "load") \/ Goto(r, "done")
    /\ UNCHANGED <<stored, poolVars, guard, origin, target, outcome, history,
                   dropped, job, restarts>>

\* A worker that frees its slot before it runs its item.
QueueBeginFreed(r) ==
    /\ pc[r] = "waiting"
    /\ Pool!Complete(target[r])
    /\ Goto(r, "load") \/ Goto(r, "finish")
    /\ UNCHANGED <<stored, guard, origin, target, outcome, history, dropped, job,
                   restarts>>

\* The worker of the slot reaches _default_executor: ControlStore() and
\* RunStore() succeed and the run begins, or one of them raises and the
\* worker logs it, with the slot freed by its `finally`.
QueueBegin(r) ==
    /\ pc[r] = "waiting"
    /\ target[r] \in active
    /\ Goto(r, "load") \/ Goto(r, "finish")
    /\ UNCHANGED <<stored, poolVars, guard, origin, target, outcome, history,
                   dropped, job, restarts>>

\* drop_pending_packages, sync_from_destination, drop_resource and
\* get_preview_rows of a stored pipeline.
RequestAside(r, n) ==
    /\ n \in stored
    /\ Begin(r, n, "aside", "check")
    /\ UNCHANGED <<stored, poolVars, job>>

-----------------------------------------------------------------------------
(* run_pipeline_by_name.                                                   *)

\* ControlStore.load: the pipeline, KeyError for its absence, or any other
\* exception (credentials that do not decrypt, a locked database).
Load(r) ==
    /\ pc[r] = "load"
    /\ \/ /\ target[r] \in stored
          /\ Goto(r, "admit")
          /\ UNCHANGED outcome
       \/ /\ target[r] \notin stored
          /\ Goto(r, "except")
          /\ outcome' = [outcome EXCEPT ![r] = "missing"]
       \/ /\ Goto(r, "except")
          /\ outcome' = [outcome EXCEPT ![r] = "raised"]
    /\ UNCHANGED <<stored, poolVars, guard, origin, target, history, dropped, job,
                   restarts>>

\* The guard with PipelineAlreadyRunning raised inside the try: its finally
\* pops the entry of the run that is loading.
AdmitInsideTry(r) ==
    /\ pc[r] = "admit"
    /\ IF target[r] \in guard
       THEN /\ outcome' = [outcome EXCEPT ![r] = "busy"]
            /\ Goto(r, "release")
            /\ UNCHANGED guard
       ELSE /\ guard' = guard \cup {target[r]}
            /\ Goto(r, "execute")
            /\ UNCHANGED outcome
    /\ UNCHANGED <<stored, poolVars, origin, target, history, dropped, job,
                   restarts>>

\* The guard keyed by the call, not by the pipeline.
AdmitByRun(r) ==
    /\ pc[r] = "admit"
    /\ guard' = guard \cup {r}
    /\ Goto(r, "execute")
    /\ UNCHANGED <<stored, poolVars, origin, target, outcome, history, dropped, job,
                   restarts>>

\* Lock section: refuse a pipeline that is loading, otherwise mark it.
Admit(r) ==
    /\ pc[r] = "admit"
    /\ IF target[r] \in guard
       THEN /\ outcome' = [outcome EXCEPT ![r] = "busy"]
            /\ Goto(r, "except")
            /\ UNCHANGED guard
       ELSE /\ guard' = guard \cup {target[r]}
            /\ Goto(r, "execute")
            /\ UNCHANGED outcome
    /\ UNCHANGED <<stored, poolVars, origin, target, history, dropped, job,
                   restarts>>

\* A load that is tried again, inside the guard, when it raised.
ExecuteRetried(r) ==
    /\ pc[r] = "execute"
    /\ \E o \in {"ok", "failed", "raised", "keyerror"} :
          /\ outcome' = [outcome EXCEPT ![r] = o]
          /\ Goto(r, IF o = "raised" THEN "execute" ELSE "release")
    /\ UNCHANGED <<stored, poolVars, guard, origin, target, history, dropped, job,
                   restarts>>

\* registry.get and _execute, as far as their callers can tell: a result, with
\* or without failed jobs, or an exception.
Execute(r) ==
    /\ pc[r] = "execute"
    /\ \E o \in {"ok", "failed", "raised", "keyerror"} :
          outcome' = [outcome EXCEPT ![r] = o]
    /\ Goto(r, "release")
    /\ UNCHANGED <<stored, poolVars, guard, origin, target, history, dropped, job,
                   restarts>>

HasResult(r) == outcome[r] \in {"ok", "failed"}

\* The finally clause: the pipeline is free before its run is recorded.
Release(r) ==
    /\ pc[r] = "release"
    /\ guard' = guard \ {target[r]}
    /\ Goto(r, IF HasResult(r) THEN "record" ELSE "except")
    /\ UNCHANGED <<stored, poolVars, origin, target, outcome, history, dropped, job,
                   restarts>>

-----------------------------------------------------------------------------
(* After the run: history, job table, slot.                                *)

\* One attempt to write entry e of r to the run history ends in one of three
\* ways; `after` and `broken` say where the caller goes on.
\*   written  runs.record succeeded
\*   lost     runs.record raised: record_run_result and record_run_failure
\*            swallow it
\*   broken   RunStore() itself raised in _runs(), outside their try
WriteEntry(r, e, after, broken) ==
    \/ /\ history' = [history EXCEPT ![r] = Append(@, e)]
       /\ Goto(r, after)
       /\ UNCHANGED dropped
    \/ /\ dropped' = dropped \cup {r}
       /\ Goto(r, after)
       /\ UNCHANGED history
    \/ /\ origin[r] # "queue"
       /\ dropped' = dropped \cup {r}
       /\ Goto(r, broken)
       /\ UNCHANGED history

Entry(r) == IF outcome[r] = "ok" THEN "ok" ELSE "fail"

\* The async job answers before its run is recorded.
RecordLate(r) ==
    /\ pc[r] = "record"
    /\ IF origin[r] = "async" /\ job[r].status = "running"
       THEN /\ job' = [job EXCEPT ![r].status = "done"]
            /\ UNCHANGED <<pc, history, dropped>>
       ELSE /\ WriteEntry(r, Entry(r), IF origin[r] = "async" THEN "result" ELSE "finish",
                          "finish")
            /\ UNCHANGED job
    /\ UNCHANGED <<stored, poolVars, guard, origin, target, outcome, restarts>>

\* record_run_result with the caller's _runs(): only the async handler has it
\* inside its try, where a broken store turns into the exception path.
Record(r) ==
    /\ pc[r] = "record"
    /\ WriteEntry(r, Entry(r),
                  IF origin[r] = "async" THEN "answer" ELSE "finish",
                  IF origin[r] = "async" THEN "except" ELSE "finish")
    /\ UNCHANGED <<stored, poolVars, guard, origin, target, outcome, job, restarts>>

\* A queue executor that also counts PipelineAlreadyRunning as a failure.
NotAFailureExceptQueue(r) ==
    \/ outcome[r] = "busy" /\ origin[r] \in {"sync", "async"}
    \/ outcome[r] \in {"missing", "keyerror"} /\ origin[r] = "sync"

\* The exceptions a caller answers without a history entry: every caller but
\* the demos has a clause for PipelineAlreadyRunning, and the sync endpoint
\* turns every KeyError into 404.
NotAFailure(r) ==
    \/ outcome[r] = "busy" /\ origin[r] # "demo"
    \/ outcome[r] \in {"missing", "keyerror"} /\ origin[r] = "sync"

\* A handler for other exceptions that only logs them.
HandleSilently(r) ==
    /\ pc[r] = "except"
    /\ Goto(r, IF origin[r] = "async" THEN "fault" ELSE "finish")
    /\ UNCHANGED <<stored, poolVars, guard, origin, target, outcome, history,
                   dropped, job, restarts>>

\* The except clauses of the four callers: record_run_failure, or nothing.
Handle(r) ==
    /\ pc[r] = "except"
    /\ LET after == IF origin[r] = "async" THEN "fault" ELSE "finish"
       IN  IF NotAFailure(r)
           THEN Goto(r, after) /\ UNCHANGED <<history, dropped>>
           ELSE WriteEntry(r, "fail", after, "finish")
    /\ UNCHANGED <<stored, poolVars, guard, origin, target, outcome, job, restarts>>

\* _execute_run_job: job["status"] = "done" ...
Answer(r) ==
    /\ pc[r] = "answer"
    /\ job' = [job EXCEPT ![r].status = "done"]
    /\ Goto(r, "result")
    /\ UNCHANGED <<stored, poolVars, guard, origin, target, outcome, history,
                   dropped, restarts>>

\* ... then job["result"], and job["finished_at"] in the finally.
SetResult(r) ==
    /\ pc[r] = "result"
    /\ job' = [job EXCEPT ![r].result = TRUE, ![r].finished = TRUE]
    /\ Goto(r, "done")
    /\ UNCHANGED <<stored, poolVars, guard, origin, target, outcome, history,
                   dropped, restarts>>

\* _execute_run_job: job["status"] = "error" in either except clause, and
\* job["finished_at"].
Fault(r) ==
    /\ pc[r] = "fault"
    /\ job' = [job EXCEPT ![r].status = "error", ![r].finished = TRUE]
    /\ Goto(r, "done")
    /\ UNCHANGED <<stored, poolVars, guard, origin, target, outcome, history,
                   dropped, restarts>>

\* The last step of the other calls: the queue's worker frees its slot, sync and
\* demo answer their request, and an async handler left by an exception of its
\* own except clause still stamps finished_at.
Finish(r) ==
    /\ pc[r] = "finish"
    /\ job' = IF origin[r] = "async"
              THEN [job EXCEPT ![r].finished = TRUE] ELSE job
    /\ IF origin[r] = "queue" THEN Pool!Complete(target[r]) ELSE UNCHANGED poolVars
    /\ Goto(r, "done")
    /\ UNCHANGED <<stored, guard, origin, target, outcome, history, dropped,
                   restarts>>

-----------------------------------------------------------------------------
(* The rest of the process.                                                *)

\* delete_pipeline, as runs see it; only a demo request puts a name back.
Delete(n) == /\ n \in stored
             /\ stored' = stored \ {n}
             /\ UNCHANGED <<poolVars, guard, runVars, history, dropped, job,
                            restarts>>

\* _recovery_blocked_if_running and the head of get_preview_rows: one read of
\* the guard decides ...
AsideCheck(r) ==
    /\ pc[r] = "check"
    /\ Goto(r, IF target[r] \in guard THEN "done" ELSE "touch")
    /\ UNCHANGED <<stored, poolVars, guard, origin, target, outcome, history,
                   dropped, job, restarts>>

\* ... and the destination is used after it, until the call ends.
AsideEnd(r) ==
    /\ pc[r] = "touch"
    /\ Goto(r, "done")
    /\ UNCHANGED <<stored, poolVars, guard, origin, target, outcome, history,
                   dropped, job, restarts>>

\* The process dies and starts again.  Guard, queue and jobs are in memory;
\* the control store and the run history are not.
Restart ==
    /\ restarts < MaxRestarts
    /\ restarts' = restarts + 1
    /\ guard' = {}
    /\ pending' = <<>>
    /\ active' = {}
    /\ job' = [r \in Run |-> NoJob]
    /\ pc' = [r \in Run |-> IF Live(r) THEN "lost" ELSE pc[r]]
    /\ UNCHANGED <<stored, origin, target, outcome, history, dropped>>

Step(r) == \/ StartJob(r)
           \/ QueueBegin(r)
           \/ Load(r)
           \/ Admit(r)
           \/ Execute(r)
           \/ Release(r)
           \/ Record(r)
           \/ Handle(r)
           \/ Answer(r)
           \/ SetResult(r)
           \/ Fault(r)
           \/ Finish(r)
           \/ AsideCheck(r)
           \/ AsideEnd(r)

Next == \/ \E r \in Run : Step(r)
        \/ \E r \in Run, n \in Name : \/ RequestSync(r, n)
                                      \/ RequestAsync(r, n)
                                      \/ RequestDemo(r, n)
                                      \/ RequestQueue(r, n)
                                      \/ RequestAside(r, n)
        \/ \E n \in Name : Delete(n)
        \/ Dispatch
        \/ Restart

SafeSpec == Init /\ [][Next]_vars

\* The thread of a call keeps running, and a load ends.  Requests, timers,
\* deletions and crashes are not obliged to happen.
Fairness == WF_vars(Dispatch) /\ \A r \in Run : WF_vars(Step(r))

Spec == SafeSpec /\ Fairness

-----------------------------------------------------------------------------
TypeOK ==
    /\ stored \subseteq Name
    /\ pending \in Seq(Name)
    /\ active \subseteq Name
    /\ guard \subseteq Name
    /\ pc \in [Run -> PCs]
    /\ origin \in [Run -> Origins]
    /\ target \in [Run -> Name \cup {NoName}]
    /\ outcome \in [Run -> Outcomes]
    /\ history \in [Run -> Seq({"ok", "fail"})]
    /\ dropped \subseteq Run
    /\ job \in [Run -> [status : JobStatus, result : BOOLEAN, finished : BOOLEAN]]
    /\ restarts \in 0 .. MaxRestarts

\* "one pipeline never runs two loads in parallel (dlt state safety)"
\* (docs/architecture/scheduling-and-concurrency.md:42), across all four entry
\* points, crashes and deletions; and the guard names exactly the loads there
\* are, so no pipeline is locked by a run that is gone.
OneLoadPerPipeline ==
    /\ \A r, s \in Run : Loading(r) /\ Loading(s) /\ target[r] = target[s] => r = s
    /\ guard = {target[r] : r \in {x \in Run : Loading(x)}}

\* The queue's slots and the calls that use them agree: a scheduled call runs
\* within a slot of its pipeline from its first step to its last, no two of them
\* share one, and a slot never outlives its call.
SlotsHaveWorkers ==
    LET scheduled == {r \in Run : origin[r] = "queue" /\ Live(r)}
        begun == {r \in scheduled : pc[r] # "waiting"}
    IN  /\ \A r \in begun : target[r] \in active
        /\ \A r, s \in scheduled : target[r] = target[s] => r = s
        /\ active \subseteq {target[r] : r \in scheduled}

\* How far the documented limit holds (docs/architecture/
\* scheduling-and-concurrency.md:37): no more than Max of the runs that the queue
\* started are under way, from the opening of the stores to the last write.
ScheduledWithinLimit ==
    Cardinality({r \in Run : origin[r] = "queue" /\ Live(r) /\ pc[r] # "waiting"}) <= Max

\* The history says what happened: no call is entered twice, success is only
\* written for a load without failed jobs, failure only when the load failed or
\* a history write was lost, and losing the guard to another run is not a
\* failure of a scheduled, sync or async run (docs/status.md:91).
HistoryHonest ==
    \A r \in Run : history[r] # <<>> =>
        /\ Len(history[r]) = 1
        /\ history[r] = <<"ok">> => outcome[r] = "ok"
        /\ history[r] = <<"fail">> => outcome[r] # "ok" \/ r \in dropped
        /\ outcome[r] = "busy" => origin[r] = "demo"

\* What a poller sees is already in the history: a job that says done or error
\* has its entry, unless its write was lost or it lost the guard.  And an ended job
\* tells its outcome: done with the result, or error.  Only a history that cannot
\* even be opened leaves it otherwise.
EndedJobTells ==
    \A r \in Run :
        /\ job[r].status \in {"done", "error"} =>
               history[r] # <<>> \/ r \in dropped \/ outcome[r] = "busy"
        /\ job[r].finished =>
               \/ job[r].status = "done" /\ job[r].result
               \/ job[r].status = "error"
               \/ r \in dropped

\* Every call whose load ended has an entry in the history when it ends --
\* unless the write was lost, or a KeyError is behind the sync endpoint's 404.
LoadLeavesEntry ==
    \A r \in Run :
        pc[r] = "done" /\ outcome[r] \in {"ok", "failed", "raised", "keyerror"} =>
            \/ history[r] # <<>>
            \/ r \in dropped
            \/ origin[r] = "sync" /\ outcome[r] = "keyerror"

\* A scheduled call comes to its turn and ends, whatever else runs.
ScheduledServed == \A r \in Run : pc[r] = "waiting" ~> pc[r] \in {"done", "lost"}

-----------------------------------------------------------------------------
(* What all that promises of a run.                                        *)

\* Recovery and preview are no runs.
NoRun(r) == pc[r] = "free" \/ origin[r] = "aside"

Stage == [r \in Run |->
    IF NoRun(r) THEN "new"
    ELSE CASE pc[r] \in {"queued", "waiting", "load", "admit"} -> "open"
           [] Loading(r) -> "loading"
           [] pc[r] = "done" -> "closed"
           [] pc[r] = "lost" -> "gone"
           [] OTHER -> "ended"]

Subject == [r \in Run |-> IF NoRun(r) THEN NoName ELSE target[r]]

Verdict == [r \in Run |->
    CASE outcome[r] = "ok" -> "ok"
      [] outcome[r] \in {"failed", "raised"} -> "bad"
      [] outcome[r] = "keyerror" -> IF origin[r] = "sync" THEN "unseen" ELSE "bad"
      [] OTHER -> "none"]

Told == [r \in Run |->
    IF job[r].status \in {"done", "error"} THEN job[r].status ELSE "none"]

Ledger == INSTANCE RunLedger
          WITH Call <- Run, Pipeline <- Name, NoPipeline <- NoName,
               stage <- Stage, pipeline <- Subject, verdict <- Verdict,
               entries <- history, lost <- dropped, told <- Told

\* The four entry points, with their handlers, crashes and refusals, keep the
\* ledger that RunLedger describes: a load at a time and once per call, one
\* true entry after it, an answer after the entry, and nothing is made up or
\* taken back by a crash.
ImplementsLedger == Ledger!Spec

-----------------------------------------------------------------------------
(* What the documentation says and the code does not keep.                 *)

\* "At most CHUMOLI_MAX_CONCURRENT_RUNS run at once"
\* (docs/architecture/scheduling-and-concurrency.md:37), and run_queue.py:13
\* sends manual async runs through the queue.
AtMostMaxLoads == Cardinality({r \in Run : Loading(r)}) <= Max

\* "Recovery must never run while the pipeline is loading."
\* (core/pipeline_runner.py:839)
NoRecoveryWhileLoading ==
    \A r, s \in Run : pc[r] = "touch" /\ Loading(s) => target[r] # target[s]

\* "This is what makes a failed manual/async run visible in the dashboard"
\* (core/pipeline_runner.py:430): a call whose load failed has an entry.
FailureVisible ==
    \A r \in Run :
        pc[r] = "done" /\ outcome[r] \in {"failed", "raised", "keyerror"} =>
            history[r] # <<>> \/ r \in dropped
=============================================================================
