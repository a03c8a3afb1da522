# Chumoli: TLA+ models and proofs

Chumoli loads data from business systems (CRM, payment and marketplace APIs, SQL
databases, files) into a warehouse with dlt.  It is one Python process: a FastAPI
application with an in-process timer, an in-process run queue, two SQLite databases
and a dashboard page.  Loads are slow, start from several places at once, and share
per-pipeline state on disk that two concurrent loads corrupt; they page through sources
that change under them, publish to folders that others use, and open secrets with a key
file that several processes make.  This directory models all that, checks it with TLC
on small instances and proves the safety properties with TLAPS for every size.

Source paths below are relative to `src/src/chumoli/`.

## Inventory

| Part | State | Operations | What makes it correct |
|---|---|---|---|
| Run queue, `core/run_queue.py` | `_q`, `_queued_names`, `_running_names` behind one lock | `enqueue`, `_pump`, `_worker` | the limit; no name twice; order of arrival; no lost wakeup; every accepted item is executed |
| Run admission and recording, `core/pipeline_runner.py`, `api/app.py` | guard `_RUNNING_PIPELINES`, job table `_RUN_JOBS`, run history | sync, async, scheduled and demo runs; recovery and preview as readers of the guard | one load per pipeline; history and job table say what happened |
| Scheduler, `core/scheduler.py` | APScheduler's jobs, `_scheduler`, `_started` behind an RLock | start, stop, reload, timer callbacks; called by create and delete of a pipeline | timers equal the stored schedules; no call hangs; timers lead to runs |
| Load execution, `_execute` | dlt working directory, one environment variable, the tracer | pre-run cleaning, load, one retry | a retry loads once; formats do not leak between loads |
| Delivery: counting, `core/row_counts.py`; publishing, `core/paths.py`; quality, `core/quality.py`; exit code, `cli.py` | staging directories, the user's folders, the report of a run | count, remove, copy, tidy, four checks over one connection | an export heals and is complete; an exit code of 0 means that all was checked |
| Control store and keys, `store/control_store.py`, `security/crypto.py` | SQLite rows with encrypted secrets, `master.key` | save, load, delete, settings, saved destinations, first use of the key | what is stored can be read; an edit with a blank secret keeps the old one; one key |
| Run store, `store/run_store.py` | SQLite history | record, list, stats, schema upgrade | counts add up; upgrade happens once |
| Paginating connectors, `connectors/`, `core/retry_policy.py` | window, page offset or cursor; Bitrix24's saved cursor | the window a run asks for, seven paging loops, retries | no record missed, in a run or between runs; loops end |
| Configuration, manifests, identifiers, destinations, errors, logging, notify, demo data, CLI, dashboard page | none, or files | validation, formatting, one-shot calls | value-level |

How the parts meet: a timer thread calls `RunQueue.enqueue`; queue workers, request
threads and background tasks all call `run_pipeline_by_name`, whose guard is the only
thing between two loads of one pipeline; each caller then writes the history with its
own exception handlers.  Requests that change a pipeline write the control store and
then ask the scheduler to rebuild its timers.  Everything but the two databases, the
key files, dlt's directories and the user's folders dies with the process.  The command
`chumoli run` is a second process beside the API: it has a guard of its own and shares
only what is on disk.

Hard behaviours: lock sections of one protocol spread over several functions (queue,
guard, reload); a guard that is checked and not held (recovery, preview); partial
failures between two writes (history after guard, reload after save, Thread.start
after popping an item); crashes; four differing sets of `except` clauses; pages addressed by offset in a list
that moves; a window counted in one time zone and asked in another.  They are
listed one by one, at their lines, under `hazards` in `PROJECT.json`.

## Modules

| Module | Models | Checked by | Proved in |
|---|---|---|---|
| `JobPool` | what a bounded FIFO pool promises (abstract) | as a property of `run_queue` | `RunQueueProofs` (refinement, safety) |
| `RunLedger` | what a run promises to who asked for it (abstract) | as a property of `run_service` | `RunCallProofs` (refinement) |
| `TimerTable` | what the timers promise (abstract) | as a property of `scheduler` | `SchedulerProofs` (refinement) |
| `Vault` | what a store of secrets promises (abstract) | as a property of `secrets` | `SecretsProofs` (refinement) |
| `RunQueue` | `core/run_queue.py` with its threads | `MCRunQueue` | `RunQueueProofs` |
| `RunService` | every way a run starts, its guard, history and job table, on a `JobPool` | `MCRunService` | `RunServiceProofs`, `RunCallProofs` |
| `Scheduler` | timers against the control store, on a `JobPool` | `MCScheduler` | `SchedulerProofs` |
| `Loads` | `_execute` inside the guard: pending packages, the retry, process-wide switches | `MCLoads` | `LoadsProofs` |
| `Delivery` | what follows the load: counting, publishing, quality, exit code; runs of two processes | `MCDelivery` | `DeliveryProofs` |
| `Secrets` | `master.key` and the encrypted rows, under overlapping calls of two processes | `MCSecrets` | `SecretsProofs` |
| `Paging` | seven paging connectors and the runs that follow each other, on a changing source | `MCPaging` | `PagingProofs` |

Operators whose comment describes a slip (`FinishSilent`, `StartUnlocked`, ...) are
variants used to show that the properties notice such a slip; no specification uses
them.

### RunQueue

One step is one `with self._lock` section.  `pumping` counts threads about to take the
lock in `_pump`; `launching`, `executing` and `leaked` name the items a thread holds
between the pop and `Thread.start()`, inside the executor, and after `Thread.start()`
raised.  `Enqueue` is `enqueue`, `PumpTake` and `PumpReturn` the two ends of a turn of
`_pump`'s loop, `StartWorker` and `StartFails` the call of `start`, `WorkerFinish` the
`finally` of `_worker`.  The executor is external to the queue: it ends.

`RunQueue` implements `JobPool` under `pending <- q, active <- runningNames,
stuck <- leaked`: order of arrival, the limit and no duplicates (`ImplementsJobPool`), and
guaranteed dispatch (`EventuallyExecuted`: `JobPool`'s fairness follows from the threads',
and with it everything that is accepted is executed).
`RunService` and `Scheduler` use `JobPool`'s actions in place of the threaded queue
(with `stuck` empty: in them `Thread.start()` succeeds).

### RunService

A call (`Run`) is one request or one timer firing and is used once; `pc` says which
access to shared state comes next.  Control flow of the four callers is kept where
they differ: which exceptions are answered without an entry (`NotAFailure`), whether a
store that cannot be opened ends inside or outside a `try` (`WriteEntry`, `Record`,
`Handle`), what the async job says when (`Answer`, `SetResult`, `Fault`, `Finish`).
`Execute` is the load with four outcomes: a result, a result with failed jobs, a
KeyError, any other exception.  `ControlStore.load` may find the pipeline, miss it, or
raise.  A history write may succeed, be lost (the helpers swallow the error) or fail
at opening the store.  `RequestAside`, `AsideCheck`, `AsideEnd` are recovery and preview:
one look at the guard, then use of the destination.  `Restart` clears guard, queue and
jobs and abandons the calls; stores stay.

`RunLedger` is all this as the user of a run sees it: a call is new, open, loading, ended,
closed or gone, and has a pipeline, a verdict, entries in the history and an answer to its
poller.  `Stage`, `Subject`, `Verdict` and `Told` map a call of `RunService` to it: steps of
the guard, the queue, the handlers and of recovery and preview do not show, but for what
they make of these.  A KeyError of a sync run is a verdict of its own (`"unseen"`), so that
the abstract specification says where the promise of an entry ends.  `ScheduledWithinLimit`
is the part of the documented limit that holds: the runs that the queue started.

### Scheduler

A call is a request or `Boot`, the startup hook that runs before any request is served.
`owner` is the module lock; a rebuild is `Clear`, `Read` (the store at one moment) and
`Add`, all under the lock, and `ReloadCheck`, `Stop`, `Start` are separate lock sections as in
the code.  `Create`, `Delete` and `Demo` write the store first.  `Fire` is APScheduler
calling `_enqueue_job`; it takes no lock.  The store may raise when opened or read
(`Fault`); a schedule may be *poison*: accepted by the configuration but not by the
trigger's constructor, which ends the loop at that row.  `unsynced`, `halted` and `failed`
are history variables that only the properties read: a write by a request that never
reloads, an explicit stop, a rebuild that raised.

`TimerTable` has no lock, no calls and no handlers: timers are emptied, or installed into an
empty table from one look at the store (`Rows`, what a call has read and not yet installed),
and the run queue (`Queued`) takes a pipeline only from an installed timer of a scheduler that
runs.  That each rebuild is a step of one caller at a time is what the RLock is for.

### Loads

The inside of `RunService`'s step `Execute`.  `Begin` assumes what `RunService` proves:
one live load per pipeline.  `Build`, `SetEnv`, `Clear`, `Trace` are the statements
before `pipeline.run`; `RunPipeline` (`Extract` or `Resume`) and `LoadPackage` its two halves;
`RunRaises` the `except` clause, `Reclear` its aggressive clearing; `Stop` the `finally`; `Check`
counting, publishing and quality.  `packages` is the pipeline's working directory: it
survives `Restart`, starts in any state, and holds nothing, a whole package, a corrupt one,
or leftovers in none of the four directories that `_clear_pending_packages` wipes (`"beyond"`;
files in `normalize/extracted`, say).
`plain` and `tracing` are the two settings of the process that every load writes.  A load that
ends (`Ends`) or dies (`Restart`) leaves its verdict or nothing, and its files.
`LeftBy` and `LeftByDiskError` say what `_clear_pending_packages` leaves: a call that
did not raise is trusted unless the clearing is aggressive, the wipe never reaches what is
beyond it, and every error is swallowed.
dlt is external: over leftovers it refuses, with an error that
`_is_pending_or_constraint_error` recognises by its text or does not (then there is no retry),
or takes them up in place of the source.  `hit`, `missed` and `unknown` are history
variables: the loads that met an error of their own or a recovery, leftovers beyond the
wipe, or an error text that is not on the list.  For all three `HealsByItself` promises
nothing; `LoadsOwnRows` holds for the last as well, as a load that is not retried reports no
rows.  `OneFormatKept` says where the
file format can be relied on although `plain` belongs to the process: where the loads to
files are all of one format, whatever loads to databases run beside them.

### Delivery

A run begins with what dlt loaded (`Load`, or `LoadFails`, which leaves files of its own
and ends the run) and goes through `Count`, then publishing for an
export or `Connect` and `Check` for a database, to `Result`.  A file is the number of the
load that wrote it, and the negative of that number while only a part of it is there
(`Broken`).  Publishing goes table by table (`items`): `Remove` is `rmtree`, `StartCopy` the
second look at the visible table, which decides between `copytree` (`"tree"`) and a walk
over the staged files (`"walk"`).  Either way each file is a `copy2`: `Open` truncates the
visible file and `Write` fills it, for append and merge over a file that a reader may have.
`Tidy` removes what is not staged.  Every use of disk or database may fail (`Fault`): a walk
gives up at once and a `copytree` after its other files (`CopyFails`), both only logged
(`GivesUp`); a check that fails is a failed outcome (`Safely`), an error on entering the
connection ends the run.  `OnlyReplaceRemoves` is therefore no promise that append and merge
leave every file whole: it says that they put at risk the file they are about to write
again, that one only, and only while it is staged, from where the next publication restores
it (`Published`).
Which tables are counted decides which are checked: the tables of the trace, or of the
schema, or as many as an error left (`Counts`, `CountsAfterError`).  Two runs may have one
pipeline at once, because `chumoli run` is outside the API's guard, and two pipelines one
folder.  `met`, `held`, `torn` and `blind` are history variables.

Assumptions: merge copies files as append does and is checked as replace is; files are
told apart by their load only; exports are not checked, since they have no SQL.
`freshness_max_minutes` without a `freshness_column` (`"age_only"`) is always skipped; it is
in `AllChecks`, hence in the theorems, and not in the run's instance; nor is `merge`
(`Dispositions`), which does nothing that append or replace does not do at the same place.

### Secrets

A call builds its store objects, and each of these opens the key file anew: `Look`,
`Read`, or `Make` and `Write` (`write_bytes` first empties the file).  Then comes the
call's own work: an edit is `Find` (load, merge, validate), `Fetch` where it names a saved
destination, and `Put`, each with a store of its own; `Load`, `Drop`, `Keep`, `Discard`,
`SetToken` and `GetToken` are the others.  A token is a value under a key, and opens with that
key only.  `Dies` ends a call anywhere, `LoseKey` is a database restored without its key.
`disturbed`, `writes` and `seen` are history variables.

`Vault` is the same store without keys, tokens and store objects: plain values, edits between
their load and their save (`Editing`, `Taking`, `Draft`), and answers that are true to what is
there.  The mapping reads the `value` of each token.  Its promise ends with `disturbed`: a
raced or interrupted first use of the key, or a lost key file.

Assumptions: one row stands for its table, as rows do not meet; a saved destination has
a connection; waiting for SQLite's lock and the refusal of `airflow` are left out.

### Paging

`Begin` takes the window of a connector (`BitrixWindows`, `PaymeWindows`, ...) and the
service's list of what matches.  Days that are counted in Tashkent, or by the server's clock,
may be a day off the service's calendar.  `ReadPage` is one answer, with the loop's own test of
whether to go on; an offset counts rows from the front, Meta's cursor stays between rows.
`ReadBlank` is an answer with status 200 and no list: every loop takes it for the end, and
Uzum, Didox and Meta, which do not look for an error in the body, take an error told there
for it too (`LooksForErrors`).  `RequestFails` is a failed try (`Retries`).  `Loaded` and
`NotLoaded` are what dlt does with what was read: it saves Bitrix24's cursor when all is
extracted, so that a load which fails after that leaves the cursor saved and its package to
be dropped before the next run.  Between any two of these the source may change: `Create`,
`Touch` (the date follows the change: Bitrix24, MoySklad, Meta), `Alter` (it stays that of the
creation: Payme, Click, Uzum, Didox), `Delete`, `Tick`.
Payme is read day by day and Didox type by type (`chunk`).

What a run does not read although it was listed is put into `skipped`: rows that an offset
passes over, because a row in front of them left, and what follows an answer without a list
or with no way on.  What no later run is made to ask for is put into `unseen`: the skipped
rows of a run that was loaded, the rows that were dropped under a saved cursor, and orders,
receipts and documents that changed after a run had asked for their day (a Payme receipt
that the filter on its state left out, and that was paid later, among them).  These are the
places where the code loses data; `SweepComplete` and `NothingLeftBehind` name them as
exceptions and show that nothing else is lost.  `due` and `late` are history variables too.

Assumptions about dlt: the cursor is saved with the end of the extract and not before; what
was extracted is loaded in whole or not at all; the retry inside `_execute` extracts anew
and counts as a run of its own.  About the services: a record's date is the one the filter is on; of Bitrix24's
list the order is by date, of the others any.  Two changes of a Bitrix24 record have two
dates, as dlt drops a row it has seen with the same date and key.  A Didox answer
without `totalPages` ends its type after one page, and what it leaves is in `skipped`.
MoySklad's `stock` has no filter at all and is read as the rest; Payme's filter by state is
applied after reading, and a receipt that it leaves out counts as read in the state it had.
A login that fails (Didox) is no run.

## Runs

| Run | Instance | Shows |
|---|---|---|
| `run_queue` | 4 names, limit 2, at most 3 threads pumping when an enqueue comes | limit, mirror, ownership, no lost wakeup, execution, refinement of `JobPool` with its fairness |
| `run_service` | 2 pipelines (one a demo's), 2 calls, 1 slot, 1 crash | mutual exclusion, slots, the limit of scheduled runs, honest history, truthful jobs, scheduled calls are served, refinement of `RunLedger` |
| `scheduler` | 2 pipelines, 2 timers, 2 requests and the startup, 1 store error, 1 crash | no stale or missing timer, off only for a reason, calls end, timers keep running their pipeline, refinement of `TimerTable` |
| `loads` | 2 pipelines, 2 loads, any leftovers from before, 1 error, 1 crash | a load heals with one retry from what the texts and the wipe cover, reports its own rows, tracing ends, one format is kept |
| `delivery` | 2 runs; 2 exports in one folder and 1 database; 2 tables, replace and append, 1 check, 2 loads, 2 errors or crashes | an export heals, append and merge risk only the staged file they are about to write again, an exit code of 0 is honest |
| `secrets` | 2 calls at once, 2 keys, 2 writes of the row, crashes, a lost key | stored secrets can be read, a blank secret keeps the old one, refinement of `Vault` |
| `paging` | 7 connectors, 3 records, pages of two, 2 changes of the source, 2 days, windows of 1 day, 2 tries | no record is missed in a run or between runs, but for the exceptions named; every step of a loop advances; every loop ends |
| `csv_switch` | as `loads`, no error, no crash | *violated*: a CSV load is written compressed |
| `global_limit` | as `run_service`, no crash | *violated*: manual loads exceed the documented limit |
| `recovery_window` | same | *violated*: a load starts during a recovery |
| `invisible_failure` | same | *violated*: a KeyError of a sync load leaves no entry |
| `stale_timer` | as `scheduler`, no fault, no crash | *violated*: a stored change without a reload keeps the old timer |

Why the bounds are enough.  `run_queue`: with four names and two slots the pool is full
while items wait and arrive; three threads pumping at once are more than there are
slots, so two can race for one slot and a third find none.  `run_service`: every
property relates at most two calls, and a call is used once, so the second call can
come between any two steps of the first; the crash can hit any of these.  `scheduler`:
a second pipeline shows that a rebuild for one keeps the other's timer; two requests
overlap in the unlocked gap of `reload_jobs`.  `loads`: the first state of the directories is
arbitrary, so a load needs no predecessor to find leftovers; the second load follows the
first on one pipeline, or overlaps it on the other, and the error can be spent anywhere in
either.  `delivery`: the first load may be torn by an error or a crash anywhere and the second
has to heal it, or the two run at once, on one pipeline, in one folder, or apart; one
check is enough because outcomes only meet in `passed`, and `no_duplicates` is the one that
append skips.  `secrets`: every property relates at most two calls; with two keys a second
first use is possible, and two writes let one come between another's load and save.
`paging`: three records and pages of two make a full page, a short one and an empty one;
two changes let a row leave in front of the offset and another come; two days let a
saved cursor and a window of one day move beyond a record.  Three days hold as well (2.0
million states, without `RunsEnd`), and the proofs cover any number of records, changes and
days; that every loop ends is left to TLC, and a loop that does not end needs neither days
nor changes, only a service that repeats itself.  The code's three tries are two here: what matters is
a last one and one before.  Deadlock is not checked: calls and loads are used up, and a
queue whose slots are all leaked stands still by design of the model.

Fairness.  Weak fairness for every thread's next step (Python threads that hold no lock
are scheduled; locks are held for bounded sections), for the end of a load, and in
`Scheduler` for a timer coming due again.  A load has no timeout in the code, so that
it ends is an assumption about dlt and the source.  In `Paging` a request has an answer
or an error (`ReadPage \/ RequestFails`), because every client has an httpx timeout of 30
to 90 seconds; which of the two it is, is not assumed.  Requests, faults, deletions and
crashes are never forced.

## Proofs

`RunQueueProofs`: the conjunction of types, mirror, ownership, limit and wakeup
is inductive.  Wakeup needs ownership: a finishing worker frees a slot only because its
name is in `runningNames`, and then its own pump is the one still to come.  The mirror is
needed because `enqueue` tests the set and appends to the queue.  From it: `TypeCorrect`,
`LimitHolds`, `SingleOwner`, `WakeupsKept`, and `StepsOfJobPool`: every step is a step of
`JobPool` or a stutter.

`RunServiceProofs`: `OneLoadPerPipeline` is inductive with types and the fact that a
begun call has a pipeline.  Admission relies on the guard naming *all* loading
pipelines, release on no other load sharing the popped name: each half of the
invariant is what preserves the other.  From it: `TypeCorrect`, `MutualExclusion`.

`RunCallProofs`: the history and job properties follow from an invariant of one call at
a time (`CallInv`: where it stands decides what it has written), because no step of
another call changes what it reads (`StepTouchesOne`).  `SlotsHaveWorkers` needs the run
queue as well: a name is in it at most once, waiting or in a slot (`Distinct`), and
belongs to exactly one scheduled call (`Placed`, `OneCallPerName`, `Owned`); otherwise a
finishing worker could free the slot of another call, or leave its name behind.  With that,
and as `Dispatch` is the only step that takes a slot, the calls under way are no more than
the slots (`LimitKept`, by the pigeonhole principle).  `LedgerKept` shows that `RunService`
implements `RunLedger`.  A step of a call changes one page of the ledger, its own
(`OnePage`, from `StepTouchesOne`), so each action has to be matched for that page only
(`StepOnLedger`, with `WriteOnLedger` for the four places that write an entry); the guards of
the abstract actions come from `CallInv`, and that no other load has the pipeline from the
guard (`IInv`).

`SchedulerProofs`: `NoStaleJob` and `NoMissingJob` are not inductive, since a timer is
installed from rows that were read two steps earlier.  The invariant therefore speaks of
the rows too: a rebuild holds the lock from clearing to installing (`LockHeld`), its job
table stays empty meanwhile (`Cleared`), and every row it read, and every timer it
installed, is up to date or belongs to a request that wrote after the read and has its own
clearing still ahead of it (`RowsFresh`, `JobsFresh`, `JobsThere`).  That request cannot
clear before the rebuild ends, because the lock is held.  From it: `TypeCorrect`,
`NoTimerIsStale`, `NoTimerIsMissing`.  `OffForAReason` is inductive with the types alone
(`OffHasAReason`).  `TableKept` shows that the scheduler implements `TimerTable`: by
`LockHeld` there is at most one caller with rows to install, and none while another clears,
stops or reads (`RowsAre`); by `Cleared` the table it installs into is empty.

`LoadsProofs`: what a load may rely on depends on how far it is (`LoadInv`): nothing
whole in its directory after the first clearing, nothing at all before the second
try, or something beyond the wipe, which then puts it into `missed`.  Other loads cannot disturb it (`StepApart`), because the guard gives each load a
directory of its own (`Alone`), and a recovery that does puts it into `hit`.  From it:
`TypeCorrect` (with at most two tries, `Tries`), `LoadsHeal`, `LoadsReportOwn`;
`TracingIsBounded` is inductive beside it, and so is `FormatInv`, from which `OneFormatIsKept`
follows: a load finds the variable as its own `SetEnv` left it, as loads of its format set
the same and loads to databases nothing.

`SecretsProofs`: as long as no two first uses of the key met (`OneKey`), every store that is
open has the key of the file, and every token was made with it.  What a call carries from
its load to its save is what the row has, as long as nobody wrote it (`Carried`).  From these:
`TypeCorrect`, `SecretsReadBack`, `BlankIsKept`.  `VaultKept` shows that the store implements
`Vault`, step by step: a call shows itself only between an edit's load and its save, so that
one which is not there carries no draft (`Resting`); opening a store, also the one that makes
the key, is a step of `Silent` (`OpeningInVault`); and what is decrypted is the plain value,
because there is one key (`OneKey`).

`DeliveryProofs`: publishing has an invariant for each run (`PubInv`): the tables it has dealt
with are in the folder, those to come are not yet promised.  A step of another run that
has nothing to do with this one leaves it alone (`Apart`), and one that has puts it into
`met` (`Met`).  Of the table at hand the files are there, still to be copied, or the one being
written.  The checks that are still due, were held or have failed are together all
that were configured (`QualInv`).  From these: `TypeCorrect`, `PublicationsAsStaged`,
`OnlyReplace`, `ExitCodeHonest`.

`PagingProofs`: the service's list has no record twice (`Once`), is sorted where it is asked
to be (`Sorted`), and its window reaches back far enough (`Asked`); a record that was there
before the run, in the window, is due once its chunk is asked for, or in `unseen` (`Covered`);
what is due is read, skipped, or still to come (`Swept`); and what Bitrix24's next cursor leaves behind
is read or skipped (`Passed`).  Three lemmas about lists carry the steps of the source: a
row that is dropped (`Drops`), moved to the end (`Moves`) or inserted (`Joining`).  From these:
`TypeCorrect`, `SweepsComplete`, `NothingIsLeft`.  `LoopsGoOn` is the half of `RunsEnd` that can
be proved: each answer or failure that leaves a run reading spends one of finitely many
attempts, rows or chunks (`LoopShape` has what the seven loops have in common).  The proof found a case that the runs
had not reached: a row that comes in front of the offset, where two had
left before, is passed by the saved cursor.

Assumptions are those named `...Assumption` in the modules: finite sets of names, calls
and records, positive sizes and limits, distinct markers.  Only model-checked: liveness
(`EventuallyExecuted`, `ScheduledServed`, `CallsEnd`, `KeepsRunning`,
`RunsEnd`), which is out of the prover's reach.  Every invariant, every action property and
every refinement of a passing run is proved.

## Disagreements found

See `findings` in `PROJECT.json`; each is a run that TLC refutes: the limit that manual
runs do not respect, the recovery window, the invisible KeyError, the stale timer after
a refused airflow edit or a demo request, the CSV switch that another load takes back.

Met while modelling, and built into the models without a run of their own:

- A busy demo is recorded as a failed run; `docs/status.md:91` says that one
  that is already running is not recorded as a failure.
- An error on entering the connection of the quality checks (`core/quality.py:162`) makes
  the run raise, while one of `sql_client()` a few lines above is a failed outcome of the
  report, as `core/quality.py:108` wants errors of the checks to be (`Connect`).
- An empty load of a new pipeline writes and counts no table, so `row_count` has nothing to
  check and passes (`docs/architecture/quality-and-reliability.md:53`; excused in
  `QualityHonest`).
- Of two exports that share a folder, one that replaces deletes the tables of the other
  (`Tidy`).
- An edit of a pipeline whose secrets cannot be opened answers an error, although the
  message of `store/control_store.py:144` tells the user to enter them again (`Find`).
- A crash within the first write of `master.key` leaves it empty, and no store opens it
  again (`Make`, `Read`).
- `get_secret_setting` returns the stored text when it cannot be opened (`GetToken`); a
  saved destination that cannot be opened has silently no connection (`Fetch`).
- A Bitrix24 record that shifts in front of the offset is passed by the saved cursor and
  not asked for again until it changes (`unseen`).
- A load that fails after the extract has saved Bitrix24's cursor loses what it had read:
  the next run starts from the cursor and drops the package (`NotLoaded`).
- A Payme receipt, an order or a document that changes after its day was read keeps its old
  state in the destination: no run has to ask for it again (`Alter`).
- Uzum, Didox and Meta end a run as a success when the service tells an error in a body with
  status 200 (`ReadBlank`).
- An append or a merge that breaks off while it copies leaves the visible file of an earlier
  load cut short until the next publication (`Open`, `CopyFails`).
- Leftovers whose error text is not on the list, or that lie outside the four directories,
  may fail every later load as well (`Resume`, `LeftBy`).

## Not modelled

- Run store: `stats`, `list_recent` and the schema upgrade; the order in which two runs of
  one pipeline reach the history (`core/pipeline_runner.py:375`).
- The one-hour sweep of finished jobs, notifications, the steps and metrics of a run shown
  to the dashboard, and the dashboard itself: none of them changes what the models read.
- `chumoli run` against the API's loads inside dlt's directories: `Loads` is the loads of one
  process; `Delivery` and `Secrets` have the second one.
- `security/api_key.py`: it makes its key once, when the application starts.
- Declarative connectors: the loops are dlt's.  The registry, manifests, destinations,
  identifiers, field mapping, error texts, demo data and formatting: values, no state.

## Plan

1. Done: `JobPool`, `RunQueue`, `RunService`, `Scheduler`, `Loads`, their runs and theorems.
2. Done: publishing, quality and exit code (`Delivery`); secrets and the key's first start
   (`Secrets`); paging loops with the retry policy (`Paging`); their theorems.
3. Done: the abstract specifications `RunLedger`, `TimerTable` and `Vault`, and the theorems
   that `RunService`, `Scheduler` and `Secrets` implement them; what holds beside the
   disagreements (`ScheduledWithinLimit`, `OneFormatKept`); what bounds the loops
   (`LoopsAdvance`).
4. Left: abstract specifications of `Loads` and `Delivery`; the run store (`stats` against concurrent records, the schema upgrade, the order of
   history), the sweep of jobs, notifications, the second process inside dlt's directories.
