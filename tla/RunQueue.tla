------------------------------ MODULE RunQueue ------------------------------
(***************************************************************************)
(* core/run_queue.py: RunQueue, the in-process FIFO with a global          *)
(* concurrency limit that every scheduled run goes through.                *)
(*                                                                         *)
(* Each `with self._lock` section is one atomic step.  Threads are         *)
(* anonymous: what matters of a thread is where it stands, so the threads  *)
(* about to take the lock in _pump are counted (pumping), and a thread     *)
(* between popping an item and Thread.start(), or inside the executor, is  *)
(* named by the item it holds (launching, executing).  _pump has two       *)
(* callers: enqueue, after it has released the lock, and the `finally` of  *)
(* _worker.  Thread.start() may raise; the exception leaves _pump with the *)
(* popped name still in _running_names, and unwinds the thread (leaked).   *)
(*                                                                         *)
(* The executor is abstracted to "it ends": returning, raising (caught)    *)
(* and being missing all reach the same `finally`.  The trigger and the    *)
(* enqueue time of an item are carried along by the code and read by no    *)
(* decision of the queue; they are left out.                               *)
(***************************************************************************)
EXTENDS Naturals, Sequences, FiniteSets

CONSTANTS Name,      \* pipeline names; enqueue refuses the empty one
          Max,       \* self._max, 1..16 by _max_concurrent
          PumpBound  \* model bound: no enqueue while so many threads pump

ASSUME NameAssumption == IsFiniteSet(Name)
ASSUME MaxAssumption == Max \in Nat \ {0}
ASSUME PumpBoundAssumption == PumpBound \in Nat \ {0}

VARIABLES q,             \* _q
          queuedNames,   \* _queued_names
          runningNames,  \* _running_names
          pumping,       \* number of threads about to take the lock in _pump
          launching,     \* items popped whose worker thread is not started
          executing,     \* items whose worker has not reached its `finally`
          leaked         \* items whose Thread.start() raised

vars == <<q, queuedNames, runningNames, pumping, launching, executing, leaked>>

-----------------------------------------------------------------------------
(* The decisions of the lock sections, each after the variant that a slip   *)
(* in the code would give (no specification below uses a variant).         *)

SlotFreeOffByOne == Cardinality(runningNames) <= Max
SlotFree == Cardinality(runningNames) < Max

UnknownIgnoringRunning(n) == n \notin queuedNames
Unknown(n) == n \notin runningNames /\ n \notin queuedNames

InsertFirst(n) == <<n>> \o q
InsertLast(n) == Append(q, n)

-----------------------------------------------------------------------------
Init == /\ q = <<>>
        /\ queuedNames = {}
        /\ runningNames = {}
        /\ pumping = 0
        /\ launching = {}
        /\ executing = {}
        /\ leaked = {}

\* enqueue that does not pump: the next finishing worker would have to.
EnqueueSilent(n) ==
    /\ Unknown(n)
    /\ q' = InsertLast(n)
    /\ queuedNames' = queuedNames \cup {n}
    /\ UNCHANGED <<runningNames, pumping, launching, executing, leaked>>

\* enqueue: one lock section that refuses a queued or running name and
\* otherwise appends the item; the caller then goes on into _pump.  A refusal
\* changes nothing.
Enqueue(n) ==
    /\ pumping < PumpBound
    /\ Unknown(n)
    /\ q' = InsertLast(n)
    /\ queuedNames' = queuedNames \cup {n}
    /\ pumping' = pumping + 1
    /\ UNCHANGED <<runningNames, launching, executing, leaked>>

\* _pump, lock section: no free slot or nothing queued, so the loop returns.
PumpReturn ==
    /\ pumping > 0
    /\ ~SlotFree \/ q = <<>>
    /\ pumping' = pumping - 1
    /\ UNCHANGED <<q, queuedNames, runningNames, launching, executing, leaked>>

\* _pump that adds the QueueItem, not its name, to _running_names.
PumpTakeItem ==
    /\ pumping > 0
    /\ SlotFree
    /\ q # <<>>
    /\ q' = Tail(q)
    /\ queuedNames' = queuedNames \ {Head(q)}
    /\ runningNames' = runningNames \cup {<<Head(q)>>}
    /\ launching' = launching \cup {Head(q)}
    /\ pumping' = pumping - 1
    /\ UNCHANGED <<executing, leaked>>

\* _pump, lock section: pop the oldest item and move its name to running.
PumpTake ==
    /\ pumping > 0
    /\ SlotFree
    /\ q # <<>>
    /\ q' = Tail(q)
    /\ queuedNames' = queuedNames \ {Head(q)}
    /\ runningNames' = runningNames \cup {Head(q)}
    /\ launching' = launching \cup {Head(q)}
    /\ pumping' = pumping - 1
    /\ UNCHANGED <<executing, leaked>>

\* t.start() succeeds: the worker runs, the starter loops in _pump.
StartWorker(n) ==
    /\ n \in launching
    /\ launching' = launching \ {n}
    /\ executing' = executing \cup {n}
    /\ pumping' = pumping + 1
    /\ UNCHANGED <<q, queuedNames, runningNames, leaked>>

\* t.start() raises: the starter unwinds, the name stays in _running_names.
StartFails(n) ==
    /\ n \in launching
    /\ launching' = launching \ {n}
    /\ leaked' = leaked \cup {n}
    /\ UNCHANGED <<q, queuedNames, runningNames, pumping, executing>>

\* _worker whose `finally` frees the slot but does not pump.
FinishSilent(n) ==
    /\ n \in executing
    /\ executing' = executing \ {n}
    /\ runningNames' = runningNames \ {n}
    /\ UNCHANGED <<q, queuedNames, pumping, launching, leaked>>

\* _worker: the executor has ended (returned, raised or was missing); the
\* `finally` frees the slot under the lock and goes on into _pump.
WorkerFinish(n) ==
    /\ n \in executing
    /\ executing' = executing \ {n}
    /\ runningNames' = runningNames \ {n}
    /\ pumping' = pumping + 1
    /\ UNCHANGED <<q, queuedNames, launching, leaked>>

Next ==
    \/ PumpReturn
    \/ PumpTake
    \/ \E n \in Name : \/ Enqueue(n)
                       \/ StartWorker(n)
                       \/ StartFails(n)
                       \/ WorkerFinish(n)

SafeSpec == Init /\ [][Next]_vars

\* A thread that holds no lock keeps running, and a pipeline run ends.  Calls
\* of enqueue and failures of Thread.start() are never obliged to happen.
Fairness ==
    /\ WF_vars(PumpReturn)
    /\ WF_vars(PumpTake)
    /\ \A n \in Name : WF_vars(StartWorker(n)) /\ WF_vars(WorkerFinish(n))

Spec == SafeSpec /\ Fairness

-----------------------------------------------------------------------------
TypeOK ==
    /\ q \in Seq(Name)
    /\ queuedNames \subseteq Name
    /\ runningNames \subseteq Name
    /\ pumping \in Nat
    /\ launching \subseteq Name
    /\ executing \subseteq Name
    /\ leaked \subseteq Name

\* The run queue never lets more than Max pipelines hold a slot, whatever the
\* interleaving of enqueue, _pump and _worker (run_queue.py:12).
ConcurrencyLimit == Cardinality(runningNames) <= Max

Elements(s) == {s[i] : i \in DOMAIN s}
NoRepeat(s) == \A i, j \in DOMAIN s : s[i] = s[j] => i = j

\* _queued_names is exactly the set of names in _q, with no name queued twice:
\* the two structures are changed in different functions and enqueue's refusal
\* reads only the set.
QueueMirror == queuedNames = Elements(q) /\ NoRepeat(q)

\* "Bir pipeline bir vaqtda faqat 1 marta (queue yoki running da)"
\* (run_queue.py:11): a running name is not queued, and exactly one thread
\* owns it -- it is being launched, being executed, or its thread was lost.
OneOwner ==
    /\ queuedNames \cap runningNames = {}
    /\ runningNames = launching \cup executing \cup leaked
    /\ launching \cap executing = {}
    /\ launching \cap leaked = {}
    /\ executing \cap leaked = {}

\* Every name the queue knows is in one place: once in _q and in its mirror, or
\* with one thread, or lost with its slot.
OnePlace == QueueMirror /\ OneOwner

\* No wakeup is lost: of the items that could be dispatched right now, each
\* has a thread of its own about to take the lock in _pump, even when threads
\* fail to start.  (A dispatchable item is one within the free slots.)
NoLostWakeup ==
    \/ Len(q) <= pumping
    \/ Max - Cardinality(runningNames) <= pumping

\* The queue, threads and mirror sets included, behaves as JobPool.
Pool == INSTANCE JobPool WITH pending <- q, active <- runningNames, stuck <- leaked

\* Order of service, the limit and no duplicates, as JobPool states them, hold of
\* the threaded queue: its lock sections are steps of JobPool, or none ...
ImplementsJobPool == Pool!SafeSpec

\* ... and it owes its callers what JobPool owes them, though _pump is run by
\* whichever thread comes along: what can be dispatched is, and what runs ends.  So
\* everything that is accepted is executed, unless its own thread or every slot of
\* the pool was lost to Thread.start() failures.
EventuallyExecuted ==
    /\ Pool!Fairness
    /\ \A n \in Name :
          n \in queuedNames ~>
              \/ n \in executing
              \/ n \in leaked
              \/ Cardinality(leaked) = Max
=============================================================================
