-------------------------- MODULE SchedulerProofs --------------------------
(***************************************************************************)
(* The timers follow the control store, for every number of pipelines,     *)
(* triggers, requests, store errors and crashes.                           *)
(***************************************************************************)
EXTENDS Scheduler, SequenceTheorems, TLAPS

-----------------------------------------------------------------------------
(* The inductive invariant.                                                *)

\* A rebuild holds the lock from its clearing to its end, and nobody else does.
LockHeld == \A c \in Caller : pc[c] \in {"clear", "read", "add"} <=> owner = c

\* A rebuild that has cleared the jobs finds them as it left them.
Cleared == \A c \in Caller : pc[c] \in {"read", "add"} => jobs = NoJobs

\* The request that wrote n and has not emptied the scheduler since.
Ahead(n) == \E c \in Caller : wrote[c] = n /\ pc[c] \in {"reload", "stop", "clear"}

\* v is no older than the stored schedule of n, or somebody will clear it.
UpToDate(n, v) == v = store[n] \/ n \in unsynced \/ Ahead(n)

RowsFresh == \A c \in Caller : pc[c] = "add" => \A n \in Name : UpToDate(n, snapshot[c][n])
JobsFresh == \A n \in Name : jobs[n] # "none" => UpToDate(n, jobs[n])
JobsThere == on /\ owner = Nobody /\ ~failed =>
                 \A n \in Name : store[n] \in Timer => UpToDate(n, jobs[n])
NoBootWrite == wrote[Boot] = NoName

Safe == LockHeld /\ Cleared /\ RowsFresh /\ JobsFresh /\ JobsThere /\ NoBootWrite

IInv == TypeOK /\ Safe

USE DEF PCs, Caller, Plan, lifeVars, queueVars, boundVars
USE CallAssumption, PlanAssumption, LeftAssumption, BoundAssumption, NameAssumption
    DEF CallAssumption, PlanAssumption, LeftAssumption, BoundAssumption, NameAssumption

-----------------------------------------------------------------------------
(* Types.                                                                  *)

LEMMA InitTypes == Init => TypeOK
<1> SUFFICES ASSUME Init PROVE TypeOK
  OBVIOUS
<1>1. pending \in Seq(Name) /\ active \subseteq Name
  BY EmptySeq DEF Init, Pool!Init
<1>2. store \in [Name -> Plan \cup {"absent"}] /\ jobs \in [Name -> Timer \cup {"none"}]
  BY DEF Init, NoJobs
<1>3. snapshot \in [Caller -> [Name -> Plan \cup {"absent"}]]
  BY DEF Init, NoRows
<1>4. pc \in [Caller -> PCs] /\ wrote \in [Caller -> Name \cup {NoName}]
  BY DEF Init
<1>5. faults \in 0 .. MaxFaults /\ restarts \in 0 .. MaxRestarts
  BY DEF Init
<1> QED
  BY <1>1, <1>2, <1>3, <1>4, <1>5 DEF Init, TypeOK

\* The actions of requests.
Request(c) == \/ Control(c)
              \/ \E n \in Name : (\E p \in Plan : Create(c, n, p)) \/ Delete(c, n) \/ Demo(c, n)

LEMMA RequestTypes ==
    ASSUME TypeOK, NEW c \in Call, Request(c)
    PROVE  TypeOK'
<1>1. CASE Control(c)
  BY <1>1 DEF TypeOK, Control, Begin, Goto
<1>2. ASSUME NEW n \in Name, NEW p \in Plan, Create(c, n, p)
      PROVE  TypeOK'
  <2>1. CASE p = "airflow"
    BY <1>2, <2>1 DEF TypeOK, Create, Write, Begin, Goto
  <2>2. CASE p # "airflow"
    BY <1>2, <2>2 DEF TypeOK, Create, Write, Begin, Goto
  <2> QED
    BY <2>1, <2>2
<1>3. ASSUME NEW n \in Name, Delete(c, n)
      PROVE  TypeOK'
  BY <1>3 DEF TypeOK, Delete, Write, Begin, Goto
<1>4. ASSUME NEW n \in Name, Demo(c, n)
      PROVE  TypeOK'
  BY <1>4 DEF TypeOK, Demo, Write, Begin, Goto
<1> QED
  BY <1>1, <1>2, <1>3, <1>4 DEF Request

LEMMA AddedType ==
    ASSUME TypeOK, NEW c \in Caller, NEW S
    PROVE  Added(c, S) \in [Name -> Timer \cup {"none"}]
  BY DEF TypeOK, Added

LEMMA StepTypes ==
    ASSUME TypeOK, NEW c \in Caller, Step(c)
    PROVE  TypeOK'
<1>1. CASE ReloadCheck(c)
  BY <1>1 DEF TypeOK, ReloadCheck, Goto
<1>2. CASE Stop(c)
  BY <1>2 DEF TypeOK, Stop, Goto, NoJobs
<1>3. CASE Start(c)
  <2>1. faults' \in 0 .. MaxFaults
    BY <1>3 DEF TypeOK, Start, Fault
  <2>2. pc' \in [Caller -> PCs] /\ failed' \in BOOLEAN /\ owner' \in Caller \cup {Nobody}
    BY <1>3 DEF TypeOK, Start, Fault, Goto
  <2> QED
    BY <1>3, <2>1, <2>2 DEF TypeOK, Start
<1>4. CASE Clear(c)
  BY <1>4 DEF TypeOK, Clear, Goto, NoJobs
<1>5. CASE Read(c)
  <2>1. faults' \in 0 .. MaxFaults
    BY <1>5 DEF TypeOK, Read, Fault
  <2>2. snapshot' \in [Caller -> [Name -> Plan \cup {"absent"}]]
    BY <1>5 DEF TypeOK, Read
  <2>3. /\ pc' \in [Caller -> PCs]
        /\ failed' \in BOOLEAN
        /\ owner' \in Caller \cup {Nobody}
        /\ unsynced' \subseteq Name
    BY <1>5 DEF TypeOK, Read, Fault, Goto
  <2> QED
    BY <1>5, <2>1, <2>2, <2>3 DEF TypeOK, Read
<1>6. CASE Add(c)
  <2>1. jobs' \in [Name -> Timer \cup {"none"}]
    BY <1>6, AddedType DEF Add, TypeOK
  <2>2. snapshot' \in [Caller -> [Name -> Plan \cup {"absent"}]]
    BY <1>6 DEF Add, TypeOK, NoRows
  <2>3. on' \in BOOLEAN /\ halted' \in BOOLEAN /\ failed' \in BOOLEAN
    BY <1>6 DEF Add, TypeOK
  <2> QED
    BY <1>6, <2>1, <2>2, <2>3 DEF Add, TypeOK, Goto
<1> QED
  BY <1>1, <1>2, <1>3, <1>4, <1>5, <1>6 DEF Step

\* The timers, the run queue and the crash.
LEMMA OtherTypes ==
    ASSUME TypeOK,
           Dispatch \/ Restart \/ \E n \in Name : Fire(n) \/ Complete(n)
    PROVE  TypeOK'
<1>1. CASE Dispatch
  <2>1. Head(pending) \in Name /\ Tail(pending) \in Seq(Name)
    BY <1>1, HeadTailProperties DEF TypeOK, Dispatch, Pool!Dispatch
  <2> QED
    BY <1>1, <2>1 DEF TypeOK, Dispatch, Pool!Dispatch
<1>2. CASE Restart
  <2>1. restarts' \in 0 .. MaxRestarts /\ pending' \in Seq(Name) /\ active' \subseteq Name
    BY <1>2, EmptySeq DEF TypeOK, Restart
  <2>2. jobs' \in [Name -> Timer \cup {"none"}]
    BY <1>2 DEF Restart, NoJobs
  <2>3. snapshot' \in [Caller -> [Name -> Plan \cup {"absent"}]]
    BY <1>2 DEF Restart, NoRows
  <2>4. pc' \in [Caller -> PCs]
    BY <1>2 DEF TypeOK, Restart, InFlight
  <2> QED
    BY <1>2, <2>1, <2>2, <2>3, <2>4 DEF TypeOK, Restart
<1>3. ASSUME NEW n \in Name, Fire(n)
      PROVE  TypeOK'
  <2>1. pending' \in Seq(Name)
    <3>1. Append(pending, n) \in Seq(Name)
      BY AppendProperties DEF TypeOK
    <3> QED
      BY <1>3, <3>1 DEF TypeOK, Fire, Pool!Submit
  <2>2. active' = active
    BY <1>3 DEF Fire, Pool!Submit
  <2> QED
    BY <1>3, <2>1, <2>2 DEF TypeOK, Fire
<1>4. ASSUME NEW n \in Name, Complete(n)
      PROVE  TypeOK'
  BY <1>4 DEF TypeOK, Complete, Pool!Complete
<1> QED
  BY <1>1, <1>2, <1>3, <1>4

-----------------------------------------------------------------------------
(* Preservation, action by action.                                         *)

\* A step keeps what is up to date if it writes no schedule behind the back of
\* the requests ahead, and none of these falls behind.
Keeps == \A m \in Name :
            /\ store'[m] # store[m] => m \in unsynced' \/ Ahead(m)'
            /\ m \in unsynced => m \in unsynced'
            /\ Ahead(m) => Ahead(m)'

LEMMA KeptFresh ==
    ASSUME Keeps, NEW m \in Name, NEW v, UpToDate(m, v)
    PROVE  v = store'[m] \/ m \in unsynced' \/ Ahead(m)'
  BY DEF Keeps, UpToDate

LEMMA JobsKept ==
    ASSUME TypeOK, JobsFresh, JobsThere, Keeps, jobs' = jobs,
           on' /\ owner' = Nobody /\ ~failed' => on /\ owner = Nobody /\ ~failed
    PROVE  JobsFresh' /\ JobsThere'
<1>1. JobsFresh'
  BY KeptFresh DEF JobsFresh, UpToDate
<1>2. ASSUME on', owner' = Nobody, ~failed', NEW m \in Name, store'[m] \in Timer
      PROVE  jobs'[m] = store'[m] \/ m \in unsynced' \/ Ahead(m)'
  <2>1. CASE store'[m] = store[m]
    BY <1>2, <2>1, KeptFresh DEF JobsThere
  <2>2. CASE store'[m] # store[m]
    BY <2>2 DEF Keeps
  <2> QED
    BY <2>1, <2>2
<1>3. JobsThere'
  BY <1>2 DEF JobsThere, UpToDate
<1> QED
  BY <1>1, <1>3

LEMMA RowsKept ==
    ASSUME RowsFresh, Keeps, snapshot' = snapshot,
           \A d \in Caller : pc'[d] = "add" => pc[d] = "add"
    PROVE  RowsFresh'
<1>1. ASSUME NEW d \in Caller, pc'[d] = "add", NEW m \in Name
      PROVE  UpToDate(m, snapshot[d][m])'
  <2>1. UpToDate(m, snapshot[d][m])
    BY <1>1 DEF RowsFresh
  <2> QED
    BY <2>1, KeptFresh DEF UpToDate
<1> QED
  BY <1>1 DEF RowsFresh

LEMMA RequestKeeps ==
    ASSUME IInv, NEW c \in Call, Request(c)
    PROVE  Safe'
<1> USE DEF IInv, Safe
<1>1. PICK label \in {"start", "halt", "reload", "done"} : Begin(c, label)
  <2>1. CASE Control(c)
    BY <2>1 DEF Control
  <2>2. ASSUME NEW n \in Name, NEW p \in Plan, Create(c, n, p)
        PROVE  Begin(c, "done") \/ Begin(c, "reload")
    BY <2>2 DEF Create
  <2>3. CASE \E n \in Name : Delete(c, n) \/ Demo(c, n)
    BY <2>3 DEF Delete, Demo
  <2> QED
    BY <2>1, <2>2, <2>3 DEF Request
<1>2. /\ pc \in [Caller -> PCs]
      /\ pc[c] = "free"
      /\ pc' = [pc EXCEPT ![c] = label]
      /\ UNCHANGED <<jobs, on, owner, snapshot, failed>>
  BY <1>1 DEF Begin, Goto, TypeOK
<1>3. \A d \in Caller \ {c} : wrote'[d] = wrote[d] /\ pc'[d] = pc[d]
  BY <1>2 DEF Request, Control, Create, Delete, Demo, Write, TypeOK
<1>4. Keeps
  <2>1. \A m \in Name : Ahead(m) => Ahead(m)'
    BY <1>2, <1>3 DEF Ahead
  <2>2. CASE Control(c)
    BY <2>1, <2>2 DEF Keeps, Control
  <2>3. ASSUME NEW n \in Name, NEW p \in Plan, Create(c, n, p)
        PROVE  Keeps
    <3>1. wrote'[c] = n /\ \A m \in Name \ {n} : store'[m] = store[m]
      BY <2>3 DEF Create, Write, TypeOK
    <3>2. CASE p = "airflow"
      BY <2>1, <2>3, <3>1, <3>2 DEF Keeps, Create
    <3>3. CASE p # "airflow"
      <4>1. pc'[c] = "reload"
        BY <1>2, <2>3, <3>3 DEF Create, Begin, Goto
      <4>2. Ahead(n)'
        BY <3>1, <4>1 DEF Ahead
      <4> QED
        BY <2>1, <2>3, <3>1, <3>3, <4>2 DEF Keeps, Create
    <3> QED
      BY <3>2, <3>3
  <2>4. ASSUME NEW n \in Name, Delete(c, n)
        PROVE  Keeps
    <3>1. wrote'[c] = n /\ \A m \in Name \ {n} : store'[m] = store[m]
      BY <2>4 DEF Delete, Write, TypeOK
    <3>2. pc'[c] = "reload"
      BY <1>2, <2>4 DEF Delete, Begin, Goto
    <3>3. Ahead(n)'
      BY <3>1, <3>2 DEF Ahead
    <3> QED
      BY <2>1, <2>4, <3>1, <3>3 DEF Keeps, Delete
  <2>5. ASSUME NEW n \in Name, Demo(c, n)
        PROVE  Keeps
    <3>1. \A m \in Name \ {n} : store'[m] = store[m]
      BY <2>5 DEF Demo, Write, TypeOK
    <3> QED
      BY <2>1, <2>5, <3>1 DEF Keeps, Demo
  <2> QED
    BY <2>2, <2>3, <2>4, <2>5 DEF Request
<1>5. JobsFresh' /\ JobsThere'
  BY <1>2, <1>4, JobsKept
<1>6. RowsFresh'
  BY <1>2, <1>4, RowsKept
<1>7. LockHeld' /\ Cleared'
  BY <1>2 DEF LockHeld, Cleared, NoJobs
<1>8. NoBootWrite'
  BY <1>3 DEF NoBootWrite
<1> QED
  BY <1>5, <1>6, <1>7, <1>8

\* What every step of a call leaves alone.
LEMMA StepFrame ==
    ASSUME TypeOK, NEW c \in Caller, Step(c)
    PROVE  /\ store' = store
           /\ wrote' = wrote
           /\ \A d \in Caller \ {c} : pc'[d] = pc[d]
  BY DEF Step, ReloadCheck, Stop, Start, Clear, Read, Add, Fault, Goto, TypeOK

LEMMA ReloadCheckKeeps ==
    ASSUME IInv, NEW c \in Caller, ReloadCheck(c)
    PROVE  Safe'
<1> USE DEF IInv, Safe
<1>1. store' = store /\ wrote' = wrote /\ \A d \in Caller \ {c} : pc'[d] = pc[d]
  BY StepFrame DEF Step
<1>2. pc[c] = "reload" /\ pc'[c] \in {"clear", "stop"} /\ owner = Nobody
  BY DEF ReloadCheck, Goto, TypeOK
<1>3. owner' = (IF pc'[c] = "clear" THEN c ELSE Nobody)
  BY DEF ReloadCheck, Goto, TypeOK
<1>4. Keeps
  BY <1>1, <1>2 DEF Keeps, Ahead, ReloadCheck
<1>5. JobsFresh' /\ JobsThere'
  BY <1>2, <1>4, JobsKept DEF ReloadCheck
<1>6. RowsFresh'
  BY <1>1, <1>2, <1>4, RowsKept DEF ReloadCheck
<1>7. LockHeld'
  BY <1>1, <1>2, <1>3 DEF LockHeld
<1>8. Cleared' /\ NoBootWrite'
  BY <1>1, <1>2 DEF Cleared, NoBootWrite, NoJobs, ReloadCheck
<1> QED
  BY <1>5, <1>6, <1>7, <1>8

LEMMA StopKeeps ==
    ASSUME IInv, NEW c \in Caller, Stop(c)
    PROVE  Safe'
<1> USE DEF IInv, Safe
<1>1. store' = store /\ wrote' = wrote /\ \A d \in Caller \ {c} : pc'[d] = pc[d]
  BY StepFrame DEF Step
<1>2. /\ owner = Nobody
      /\ owner' = Nobody
      /\ jobs' = NoJobs
      /\ ~on'
      /\ pc[c] \in {"stop", "halt"}
      /\ pc'[c] \in {"done", "start"}
  BY DEF Stop, Goto, TypeOK
<1>3. \A d \in Caller : pc'[d] \notin {"clear", "read", "add"}
  BY <1>1, <1>2 DEF LockHeld
<1>4. JobsFresh' /\ JobsThere'
  BY <1>2 DEF JobsFresh, JobsThere, NoJobs
<1> QED
  BY <1>1, <1>2, <1>3, <1>4 DEF LockHeld, Cleared, RowsFresh, NoBootWrite

LEMMA StartKeeps ==
    ASSUME IInv, NEW c \in Caller, Start(c)
    PROVE  Safe'
<1> USE DEF IInv, Safe
<1>1. store' = store /\ wrote' = wrote /\ \A d \in Caller \ {c} : pc'[d] = pc[d]
  BY StepFrame DEF Step
<1>2. /\ pc[c] = "start"
      /\ owner = Nobody
      /\ \/ pc'[c] = "clear" /\ owner' = c
         \/ pc'[c] = "done" /\ owner' = Nobody /\ failed'
      /\ UNCHANGED <<jobs, on, snapshot, unsynced>>
  BY DEF Start, Fault, Goto, TypeOK, lifeVars
<1>3. Keeps
  BY <1>1, <1>2 DEF Keeps, Ahead
<1>4. JobsFresh' /\ JobsThere'
  BY <1>2, <1>3, JobsKept
<1>5. RowsFresh'
  BY <1>1, <1>2, <1>3, RowsKept
<1>6. LockHeld'
  BY <1>1, <1>2 DEF LockHeld
<1>7. Cleared' /\ NoBootWrite'
  BY <1>1, <1>2 DEF Cleared, NoBootWrite, NoJobs
<1> QED
  BY <1>4, <1>5, <1>6, <1>7

LEMMA ClearKeeps ==
    ASSUME IInv, NEW c \in Caller, Clear(c)
    PROVE  Safe'
<1> USE DEF IInv, Safe
<1>1. store' = store /\ wrote' = wrote /\ \A d \in Caller \ {c} : pc'[d] = pc[d]
  BY StepFrame DEF Step
<1>2. pc[c] = "clear" /\ pc'[c] = "read" /\ jobs' = NoJobs /\ owner' = owner
  BY DEF Clear, Goto, TypeOK
<1>3. owner = c /\ \A d \in Caller \ {c} : pc'[d] \notin {"clear", "read", "add"}
  BY <1>1, <1>2 DEF LockHeld
<1>4. JobsFresh' /\ JobsThere'
  BY <1>2, <1>3 DEF JobsFresh, JobsThere, NoJobs
<1> QED
  BY <1>1, <1>2, <1>3, <1>4 DEF LockHeld, Cleared, RowsFresh, NoBootWrite, NoJobs

LEMMA ReadKeeps ==
    ASSUME IInv, NEW c \in Caller, Read(c)
    PROVE  Safe'
<1> USE DEF IInv, Safe
<1>1. store' = store /\ wrote' = wrote /\ \A d \in Caller \ {c} : pc'[d] = pc[d]
  BY StepFrame DEF Step
<1>2. /\ pc[c] = "read"
      /\ \/ pc'[c] = "add" /\ snapshot'[c] = store /\ owner' = owner
         \/ pc'[c] = "done" /\ owner' = Nobody /\ failed'
      /\ jobs' = jobs
  BY DEF Read, Fault, Goto, TypeOK
<1>3. /\ owner = c
      /\ jobs = NoJobs
      /\ \A d \in Caller \ {c} : pc'[d] \notin {"clear", "read", "add"}
  BY <1>1, <1>2 DEF LockHeld, Cleared
<1>4. JobsFresh' /\ JobsThere'
  BY <1>2, <1>3 DEF JobsFresh, JobsThere, NoJobs
<1>5. RowsFresh'
  BY <1>1, <1>2, <1>3 DEF RowsFresh, UpToDate
<1> QED
  BY <1>1, <1>2, <1>3, <1>4, <1>5 DEF LockHeld, Cleared, NoBootWrite, NoJobs

\* The rows were read under the same lock, so whoever wrote a schedule since
\* then is still ahead of its own reload, or never reloads.
LEMMA AddKeeps ==
    ASSUME IInv, NEW c \in Caller, Add(c)
    PROVE  Safe'
<1> USE DEF IInv, Safe
<1>1. store' = store /\ wrote' = wrote /\ \A d \in Caller \ {c} : pc'[d] = pc[d]
  BY StepFrame DEF Step
<1>2. pc[c] = "add" /\ pc'[c] = "done" /\ owner' = Nobody /\ unsynced' = unsynced
  BY DEF Add, Goto, TypeOK
<1>3. /\ jobs = NoJobs
      /\ \A d \in Caller : pc'[d] \notin {"clear", "read", "add"}
  BY <1>1, <1>2 DEF LockHeld, Cleared
<1>4. Keeps
  BY <1>1, <1>2 DEF Keeps, Ahead
<1>5. \A n \in Name : \/ snapshot[c][n] = store'[n]
                      \/ n \in unsynced'
                      \/ Ahead(n)'
  BY <1>2, <1>4, KeptFresh DEF RowsFresh
<1>6. JobsFresh'
  <2>1. ASSUME NEW n \in Name, jobs'[n] # "none"
        PROVE  jobs'[n] = snapshot[c][n]
    BY <1>3, <2>1 DEF Add, Added, NoJobs
  <2> QED
    BY <1>5, <2>1 DEF JobsFresh, UpToDate
<1>7. JobsThere'
  <2>1. ASSUME ~failed'
        PROVE  jobs' = Added(c, Name)
    BY <2>1 DEF Add
  <2>2. ASSUME ~failed', NEW n \in Name, store'[n] \in Timer
        PROVE  UpToDate(n, jobs[n])'
    BY <1>5, <2>1, <2>2 DEF Added, UpToDate
  <2> QED
    BY <2>2 DEF JobsThere
<1> QED
  BY <1>1, <1>2, <1>3, <1>6, <1>7 DEF LockHeld, Cleared, RowsFresh, NoBootWrite

LEMMA RestartKeeps ==
    ASSUME IInv, Restart
    PROVE  Safe'
<1> USE DEF IInv, Safe
<1>1. /\ \A d \in Caller : pc'[d] \notin {"clear", "read", "add"}
      /\ owner' = Nobody
      /\ jobs' = NoJobs
      /\ ~on'
      /\ wrote' = wrote
  BY DEF Restart, InFlight, TypeOK
<1> QED
  BY <1>1 DEF LockHeld, Cleared, RowsFresh, JobsFresh, JobsThere, NoBootWrite, NoJobs

LEMMA QueueKeeps ==
    ASSUME IInv, Dispatch \/ UNCHANGED vars \/ \E n \in Name : Fire(n) \/ Complete(n)
    PROVE  Safe'
<1> USE DEF IInv, Safe
<1>1. UNCHANGED <<store, jobs, on, owner, pc, wrote, snapshot, unsynced, failed>>
  BY DEF Dispatch, vars, Fire, Complete
<1>2. Keeps
  BY <1>1 DEF Keeps, Ahead
<1>3. JobsFresh' /\ JobsThere'
  BY <1>1, <1>2, JobsKept
<1>4. RowsFresh'
  BY <1>1, <1>2, RowsKept
<1> QED
  BY <1>1, <1>3, <1>4 DEF LockHeld, Cleared, NoBootWrite, NoJobs

-----------------------------------------------------------------------------
LEMMA InitHolds == Init => IInv
<1> SUFFICES ASSUME Init PROVE IInv
  OBVIOUS
<1>1. TypeOK
  BY InitTypes
<1>2. Safe
  BY DEF Init, Safe, LockHeld, Cleared, RowsFresh, JobsFresh, JobsThere, NoBootWrite, NoJobs
<1> QED
  BY <1>1, <1>2 DEF IInv

LEMMA StepHolds == IInv /\ [Next]_vars => IInv'
<1> SUFFICES ASSUME IInv, [Next]_vars PROVE IInv'
  OBVIOUS
<1>1. CASE \E c \in Caller : Step(c)
  <2>1. Safe'
    BY <1>1, ReloadCheckKeeps, StopKeeps, StartKeeps, ClearKeeps, ReadKeeps, AddKeeps
       DEF Step
  <2> QED
    BY <1>1, <2>1, StepTypes DEF IInv
<1>2. CASE \E c \in Call : Request(c)
  BY <1>2, RequestTypes, RequestKeeps DEF IInv
<1>3. CASE Restart
  BY <1>3, OtherTypes, RestartKeeps DEF IInv
<1>4. CASE Dispatch \/ \E n \in Name : Fire(n) \/ Complete(n)
  BY <1>4, OtherTypes, QueueKeeps DEF IInv
<1>5. CASE UNCHANGED vars
  <2>1. TypeOK'
    BY <1>5 DEF IInv, TypeOK, vars
  <2> QED
    BY <1>5, <2>1, QueueKeeps DEF IInv
<1> QED
  BY <1>1, <1>2, <1>3, <1>4, <1>5 DEF Next, Request

\* The invariant holds in every reachable state.
THEOREM Inductive == SafeSpec => []IInv
<1> QED
  BY InitHolds, StepHolds, PTL DEF SafeSpec

\* A request ahead of its reload is a request in progress.
LEMMA AheadReloads ==
    ASSUME IInv, NEW n \in Name, Ahead(n)
    PROVE  Reloading(n)
  BY DEF IInv, Safe, NoBootWrite, Ahead, Reloading, InFlight

\* Every variable keeps its type.
THEOREM TypeCorrect == SafeSpec => []TypeOK
<1>1. IInv => TypeOK
  BY DEF IInv
<1> QED
  BY <1>1, Inductive, PTL

\* A timer that runs is the stored one: no order of edits, deletions, starts,
\* stops and reloads, no error of the store and no schedule that cannot be
\* installed keeps an old one, but for requests that never reload.
THEOREM NoTimerIsStale == SafeSpec => []NoStaleJob
<1>1. IInv => NoStaleJob
  BY AheadReloads DEF IInv, Safe, JobsFresh, UpToDate, NoStaleJob
<1> QED
  BY <1>1, Inductive, PTL

\* A running scheduler whose last rebuild succeeded misses no stored timer.
THEOREM NoTimerIsMissing == SafeSpec => []NoMissingJob
<1>1. IInv => NoMissingJob
  BY AheadReloads DEF IInv, Safe, JobsThere, UpToDate, NoMissingJob
<1> QED
  BY <1>1, Inductive, PTL

-----------------------------------------------------------------------------
(* Why the scheduler is off.  Inductive with the types alone: every call   *)
(* that turns it off or ends without turning it on leaves its reason.      *)

Starting(c) == pc[c] \in {"start", "clear", "read", "add"}

LEMMA OffStep == IInv /\ OffForAReason /\ [Next]_vars => OffForAReason'
<1> SUFFICES ASSUME IInv, OffForAReason, [Next]_vars PROVE OffForAReason'
  OBVIOUS
<1>1. TypeOK /\ (on \/ halted \/ failed \/ \E d \in Caller : Starting(d))
  BY DEF IInv, OffForAReason, Starting
<1> SUFFICES on' \/ halted' \/ failed' \/ \E d \in Caller : Starting(d)'
  BY DEF OffForAReason, Starting
<1>2. ASSUME NEW c \in Caller, Step(c)
      PROVE  on' \/ halted' \/ failed' \/ \E d \in Caller : Starting(d)'
  <2>1. \A d \in Caller \ {c} : pc'[d] = pc[d]
    BY <1>1, <1>2, StepFrame
  <2>2. CASE Stop(c)
    BY <1>1, <2>2 DEF TypeOK, Stop, Goto, Starting
  <2>3. CASE Add(c)
    BY <2>3 DEF Add
  <2>4. CASE ReloadCheck(c)
    BY <1>1, <2>1, <2>4 DEF TypeOK, ReloadCheck, Goto, Starting
  <2>5. CASE Start(c) \/ Clear(c) \/ Read(c)
    <3>1. Starting(c)' \/ failed'
      BY <1>1, <2>5 DEF TypeOK, Start, Clear, Read, Fault, Goto, Starting
    <3> QED
      BY <3>1
  <2> QED
    BY <1>2, <2>2, <2>3, <2>4, <2>5 DEF Step
<1>3. ASSUME NEW c \in Call, Request(c)
      PROVE  on' \/ halted' \/ failed' \/ \E d \in Caller : Starting(d)'
  <2>1. PICK label \in PCs : Begin(c, label)
    BY <1>3 DEF Request, Control, Create, Delete, Demo
  <2>2. /\ on' = on /\ halted' = halted /\ failed' = failed
        /\ pc[c] = "free"
        /\ \A d \in Caller \ {c} : pc'[d] = pc[d]
    BY <1>1, <2>1 DEF TypeOK, Begin, Goto
  <2> QED
    BY <1>1, <2>2 DEF Starting
<1>4. CASE Dispatch \/ UNCHANGED vars \/ \E n \in Name : Fire(n) \/ Complete(n)
  BY <1>1, <1>4 DEF Dispatch, vars, Fire, Complete, Starting
<1>5. CASE Restart
  <2>1. Starting(Boot)'
    BY <1>5 DEF Restart, Starting
  <2> QED
    BY <2>1
<1> QED
  BY <1>2, <1>3, <1>4, <1>5 DEF Next, Request

\* A scheduler that is off was stopped, failed, or is about to start, although
\* a reload gives the lock away twice on its way.
THEOREM OffHasAReason == SafeSpec => []OffForAReason
<1>1. Init => OffForAReason
  BY DEF Init, OffForAReason
<1> QED
  BY <1>1, Inductive, OffStep, PTL DEF SafeSpec

-----------------------------------------------------------------------------
(* The table.  Every step of the scheduler is a step of TimerTable or shows *)
(* nothing of itself, since whoever reads or installs has the lock.         *)

\* Who is about to install; the others have no rows.
LEMMA RowsAre ==
    ASSUME IInv
    PROVE  /\ \A c \in Caller : pc[c] = "add" => Rows = {snapshot[c]} /\ owner = c
           /\ (\A c \in Caller : pc[c] # "add") => Rows = {}
           /\ \A c \in Caller : pc[c] \in {"clear", "read"} => Rows = {}
           /\ owner = Nobody => Rows = {}
<1>1. \A c \in Caller : pc[c] \in {"clear", "read", "add"} <=> owner = c
  BY DEF IInv, Safe, LockHeld
<1>2. Nobody \notin Caller
  OBVIOUS
<1>3. ASSUME NEW c \in Caller, pc[c] = "add"
      PROVE  Rows = {snapshot[c]} /\ owner = c
  <2>1. owner = c
    BY <1>1, <1>3
  <2>2. {d \in Caller : pc[d] = "add"} = {c}
    BY <1>1, <1>3, <2>1
  <2> QED
    BY <2>1, <2>2 DEF Rows
<1>4. (\A c \in Caller : pc[c] # "add") => Rows = {}
  BY DEF Rows
<1>5. \A c \in Caller : pc[c] \in {"clear", "read"} => \A d \in Caller : pc[d] # "add"
  BY <1>1
<1>6. owner = Nobody => \A d \in Caller : pc[d] # "add"
  BY <1>1, <1>2
<1> QED
  BY <1>3, <1>4, <1>5, <1>6

\* Rows only show the calls that are about to install.
LEMMA RowsStay ==
    ASSUME snapshot' = snapshot,
           \A c \in Caller : pc'[c] = "add" <=> pc[c] = "add"
    PROVE  Rows' = Rows
  BY DEF Rows

LEMMA RowsGone ==
    ASSUME \A c \in Caller : pc'[c] # "add"
    PROVE  Rows' = {}
  BY DEF Rows

Shown == <<store, jobs, on, Rows, Queued>>

LEMMA StepOnTable ==
    ASSUME IInv, NEW c \in Caller, Step(c)
    PROVE  Table!Next \/ UNCHANGED Shown
<1>1. TypeOK /\ pc \in [Caller -> PCs]
  BY DEF IInv, TypeOK
<1>2. \A d \in Caller \ {c} : pc'[d] = pc[d]
  BY <1>1, StepFrame
<1>3. UNCHANGED <<store, pending, active>>
  BY DEF Step, ReloadCheck, Stop, Start, Clear, Read, Add
<1>4. Queued' = Queued
  BY <1>3 DEF Queued, Pool!Waiting
<1>5. NoJobs = Table!NoTimers
  BY DEF NoJobs, Table!NoTimers
<1>6. ASSUME Rows = {}, pc'[c] # "add"
      PROVE  Rows' = {}
  <2>1. \A d \in Caller : pc[d] # "add"
    BY <1>6 DEF Rows
  <2>2. \A d \in Caller : pc'[d] # "add"
    BY <1>2, <1>6, <2>1
  <2> QED
    BY <2>2, RowsGone
<1>7. CASE ReloadCheck(c) \/ Start(c)
  <2>1. owner = Nobody /\ UNCHANGED <<jobs, on>> /\ pc'[c] # "add"
    BY <1>1, <1>7 DEF ReloadCheck, Start, Fault, Goto
  <2>2. Rows = {} /\ Rows' = {}
    BY <1>6, <2>1, RowsAre
  <2> QED
    BY <1>3, <1>4, <2>1, <2>2 DEF Shown
<1>8. CASE Stop(c)
  <2>1. owner = Nobody /\ jobs' = NoJobs /\ on' = FALSE /\ pc'[c] # "add"
    BY <1>1, <1>8 DEF Stop, Goto
  <2>2. Rows = {} /\ Rows' = {}
    BY <1>6, <2>1, RowsAre
  <2>3. Table!Empty
    BY <1>3, <1>4, <1>5, <2>1, <2>2 DEF Table!Empty, Table!Rebuilding
  <2> QED
    BY <2>3 DEF Table!Next
<1>9. CASE Clear(c)
  <2>1. pc[c] = "clear" /\ jobs' = NoJobs /\ on' = on /\ pc'[c] # "add"
    BY <1>1, <1>9 DEF Clear, Goto
  <2>2. Rows = {} /\ Rows' = {}
    BY <1>6, <2>1, RowsAre
  <2>3. Table!Empty
    BY <1>3, <1>4, <1>5, <2>1, <2>2 DEF Table!Empty, Table!Rebuilding
  <2> QED
    BY <2>3 DEF Table!Next
<1>10. CASE Read(c)
  <2>1. pc[c] = "read" /\ UNCHANGED <<jobs, on>>
    BY <1>10 DEF Read
  <2>2. Rows = {} /\ jobs = NoJobs
    BY <2>1, RowsAre DEF IInv, Safe, Cleared
  <2>3. CASE pc'[c] # "add"
    BY <1>3, <1>4, <1>6, <2>1, <2>2, <2>3 DEF Shown
  <2>4. CASE pc'[c] = "add"
    <3>1. snapshot' = [snapshot EXCEPT ![c] = store]
      BY <1>1, <1>10, <2>4 DEF Read, Fault, Goto
    <3>2. snapshot'[c] = store
      BY <3>1 DEF IInv, TypeOK
    <3>3. \A d \in Caller : pc[d] # "add"
      BY <2>2 DEF Rows
    <3>4. {d \in Caller : pc'[d] = "add"} = {c}
      BY <1>2, <2>4, <3>3
    <3>5. Rows' = {store}
      BY <3>2, <3>4 DEF Rows
    <3>6. Table!Look
      BY <1>3, <1>4, <1>5, <2>1, <2>2, <3>5 DEF Table!Look, Table!Rebuilding
    <3> QED
      BY <3>6 DEF Table!Next
  <2> QED
    BY <2>3, <2>4
<1>11. CASE Add(c)
  <2> DEFINE row == snapshot[c]
             bad == {n \in Name : row[n] = "poison"}
  <2>1. pc[c] = "add" /\ pc'[c] = "done"
    BY <1>1, <1>11 DEF Add, Goto
  <2>2. Rows = {row} /\ jobs = NoJobs
    BY <2>1, RowsAre DEF IInv, Safe, Cleared
  <2>3. Rows' = {}
    <3>1. \A d \in Caller \ {c} : pc[d] # "add"
      BY <2>1, RowsAre
    <3> QED
      BY <1>2, <2>1, <3>1, RowsGone
  <2>4. \A S : Added(c, S) = Table!TimersOf(row, S)
    BY <2>2 DEF Added, Table!TimersOf, NoJobs
  <2>5. CASE bad = {}
    <3>1. jobs' = Added(c, Name) /\ on' = TRUE
      BY <1>11, <2>5 DEF Add
    <3>2. Table!Install
      BY <1>3, <1>4, <2>2, <2>3, <2>4, <3>1 DEF Table!Install
    <3> QED
      BY <3>2 DEF Table!Next
  <2>6. CASE bad # {}
    <3>1. PICK S \in SUBSET (Name \ bad) : jobs' = IF on THEN Added(c, S) ELSE jobs
      BY <1>11, <2>6 DEF Add
    <3>2. on' = on
      BY <1>11, <2>6 DEF Add
    <3>3. PICK n \in Name : row[n] = "poison" /\ n \notin S
      BY <2>6, <3>1
    <3>4. jobs' = IF on THEN Table!TimersOf(row, S) ELSE Table!NoTimers
      BY <1>5, <2>2, <2>4, <3>1
    <3>5. Table!GiveUp
      BY <1>3, <1>4, <2>2, <2>3, <3>1, <3>2, <3>3, <3>4 DEF Table!GiveUp
    <3> QED
      BY <3>5 DEF Table!Next
  <2> QED
    BY <2>5, <2>6
<1> QED
  BY <1>7, <1>8, <1>9, <1>10, <1>11 DEF Step

LEMMA RequestOnTable ==
    ASSUME IInv, NEW c \in Call, Request(c)
    PROVE  Table!Next \/ UNCHANGED Shown
<1>1. PICK label \in PCs \ {"add"} : Begin(c, label)
  BY DEF Request, Control, Create, Delete, Demo
<1>2. /\ pc[c] = "free" /\ pc' = [pc EXCEPT ![c] = label]
      /\ UNCHANGED <<jobs, on, snapshot, pending, active>>
  BY <1>1 DEF Begin, Goto
<1>3. Rows' = Rows
  <2>1. \A d \in Caller : pc'[d] = "add" <=> pc[d] = "add"
    BY <1>2 DEF IInv, TypeOK
  <2> QED
    BY <1>2, <2>1, RowsStay
<1>4. Queued' = Queued
  BY <1>2 DEF Queued, Pool!Waiting
<1>5. UNCHANGED store \/ \E n \in Name : \E p : store' = [store EXCEPT ![n] = p]
  BY DEF Request, Control, Create, Delete, Demo, Write
<1>6. ASSUME NEW n \in Name, NEW p, store' = [store EXCEPT ![n] = p]
      PROVE  Table!Edit(n)
  <2>1. store'[n] = p
    BY <1>6 DEF IInv, TypeOK
  <2> QED
    BY <1>2, <1>3, <1>4, <1>6, <2>1 DEF Table!Edit
<1> QED
  BY <1>2, <1>3, <1>4, <1>5, <1>6 DEF Shown, Table!Next

\* What the queue holds, after an arrival and after a start.
LEMMA Arrives ==
    ASSUME TypeOK, NEW n \in Name, Pool!Submit(n)
    PROVE  Queued' = Queued \cup {n} /\ n \notin Queued
<1>1. pending \in Seq(Name) /\ pending' = Append(pending, n) /\ active' = active
  BY DEF TypeOK, Pool!Submit
<1>2. /\ Len(pending) \in Nat /\ DOMAIN pending = 1 .. Len(pending)
      /\ DOMAIN pending' = 1 .. Len(pending) + 1
      /\ \A i \in 1 .. Len(pending) : pending'[i] = pending[i]
      /\ pending'[Len(pending) + 1] = n
  BY <1>1, AppendProperties
<1>3. Pool!Waiting' \subseteq Pool!Waiting \cup {n}
  BY <1>2 DEF Pool!Waiting
<1>4. Pool!Waiting \cup {n} \subseteq Pool!Waiting'
  BY <1>2 DEF Pool!Waiting
<1>5. n \notin active \cup Pool!Waiting
  BY DEF Pool!Submit
<1> QED
  BY <1>1, <1>3, <1>4, <1>5 DEF Queued

LEMMA Moves ==
    ASSUME TypeOK, Pool!Dispatch
    PROVE  Queued' = Queued
<1>1. /\ pending \in Seq(Name) /\ pending # <<>>
      /\ active' = active \cup {Head(pending)} /\ pending' = Tail(pending)
  BY DEF TypeOK, Pool!Dispatch
<1>2. /\ Len(pending) \in Nat \ {0} /\ DOMAIN pending = 1 .. Len(pending)
      /\ DOMAIN pending' = 1 .. Len(pending) - 1
      /\ \A i \in 1 .. Len(pending) - 1 : pending'[i] = pending[i + 1]
      /\ Head(pending) = pending[1]
  BY <1>1
<1>3. Pool!Waiting = {Head(pending)} \cup Pool!Waiting'
  <2>1. \A i \in DOMAIN pending : i = 1 \/ i - 1 \in DOMAIN pending'
    BY <1>2
  <2>2. \A i \in DOMAIN pending : pending[i] = Head(pending) \/ pending[i] = pending'[i - 1]
    BY <1>2, <2>1
  <2>3. \A i \in DOMAIN pending' : i + 1 \in DOMAIN pending /\ pending'[i] = pending[i + 1]
    BY <1>2
  <2>4. 1 \in DOMAIN pending
    BY <1>2
  <2>5. Pool!Waiting \subseteq {Head(pending)} \cup Pool!Waiting'
    BY <2>1, <2>2 DEF Pool!Waiting
  <2>6. {Head(pending)} \cup Pool!Waiting' \subseteq Pool!Waiting
    BY <1>2, <2>3, <2>4 DEF Pool!Waiting
  <2> QED
    BY <2>5, <2>6
<1> QED
  BY <1>1, <1>3 DEF Queued

LEMMA TimersOnTable ==
    ASSUME IInv, Dispatch \/ \E n \in Name : Fire(n) \/ Complete(n)
    PROVE  Table!Next \/ UNCHANGED Shown
<1>1. TypeOK
  BY DEF IInv
<1>2. UNCHANGED <<store, jobs, on, pc, snapshot>>
  BY DEF Dispatch, Fire, Complete
<1>3. Rows' = Rows
  BY <1>2, RowsStay
<1>4. CASE Dispatch
  <2>1. Queued' = Queued
    BY <1>1, <1>4, Moves DEF Dispatch
  <2> QED
    BY <1>2, <1>3, <2>1 DEF Shown
<1>5. ASSUME NEW n \in Name, Fire(n) PROVE Table!Next \/ UNCHANGED Shown
  <2>1. on /\ jobs[n] # "none"
    BY <1>5 DEF Fire
  <2>2. CASE Pool!Submit(n)
    <3>1. Queued' = Queued \cup {n} /\ n \notin Queued
      BY <1>1, <2>2, Arrives
    <3>2. Table!Fire(n)
      BY <1>2, <1>3, <2>1, <3>1 DEF Table!Fire
    <3> QED
      BY <3>2 DEF Table!Next
  <2>3. CASE UNCHANGED queueVars
    BY <1>2, <1>3, <2>3 DEF Shown, Queued, Pool!Waiting
  <2> QED
    BY <1>5, <2>2, <2>3 DEF Fire
<1>6. ASSUME NEW n \in Name, Complete(n) PROVE Table!Next \/ UNCHANGED Shown
  <2>1. active' = active \ {n} /\ pending' = pending
    BY <1>6 DEF Complete, Pool!Complete
  <2>2. Pool!Waiting' = Pool!Waiting
    BY <2>1 DEF Pool!Waiting
  <2>3. CASE n \in Pool!Waiting
    <3>1. Queued' = Queued
      BY <2>1, <2>2, <2>3 DEF Queued
    <3> QED
      BY <1>2, <1>3, <3>1 DEF Shown
  <2>4. CASE n \notin Pool!Waiting
    <3>1. Queued' = Queued \ {n}
      BY <2>1, <2>2, <2>4 DEF Queued
    <3> QED
      BY <1>2, <1>3, <3>1 DEF Table!Complete, Table!Next
  <2> QED
    BY <2>3, <2>4
<1> QED
  BY <1>4, <1>5, <1>6

LEMMA CrashOnTable ==
    ASSUME IInv, Restart
    PROVE  Table!Crash
<1>1. UNCHANGED store /\ jobs' = NoJobs /\ on' = FALSE
  BY DEF Restart
<1>2. Rows' = {}
  BY RowsGone DEF Restart, InFlight
<1>3. Queued' = {}
  BY DEF Restart, Queued, Pool!Waiting
<1> QED
  BY <1>1, <1>2, <1>3 DEF Table!Crash, NoJobs, Table!NoTimers

LEMMA InitOnTable == Init => Table!Init
<1> SUFFICES ASSUME Init PROVE Table!Init
  OBVIOUS
<1>1. Rows = {}
  BY DEF Init, Rows
<1>2. Queued = {}
  BY DEF Init, Pool!Init, Queued, Pool!Waiting
<1> QED
  BY <1>1, <1>2 DEF Init, Table!Init, NoJobs, Table!NoTimers

LEMMA NextOnTable == IInv /\ [Next]_vars => [Table!Next]_(Table!vars)
<1> SUFFICES ASSUME IInv, [Next]_vars PROVE Table!Next \/ UNCHANGED Shown
  BY DEF Shown, Table!vars
<1>1. CASE UNCHANGED vars
  BY <1>1, RowsStay DEF vars, Shown, Queued, Pool!Waiting
<1>2. CASE Restart
  BY <1>2, CrashOnTable DEF Table!Next
<1> QED
  BY <1>1, <1>2, StepOnTable, RequestOnTable, TimersOnTable DEF Next, Request

\* The scheduler is the table that TimerTable describes, whatever requests,
\* starts, stops, errors of the store and crashes come between its lock sections.
THEOREM TableKept == SafeSpec => ImplementsTable
<1> QED
  BY Inductive, InitOnTable, NextOnTable, PTL DEF SafeSpec, ImplementsTable, Table!Spec
=============================================================================
