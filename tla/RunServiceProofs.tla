-------------------------- MODULE RunServiceProofs --------------------------
(***************************************************************************)
(* Mutual exclusion of loads per pipeline, for every number of calls, of   *)
(* pipelines, of queue slots and of crashes.                               *)
(***************************************************************************)
EXTENDS RunService, SequenceTheorems, TLAPS

(***************************************************************************)
(* The guard holds exactly the targets of the loading calls.  Inductive    *)
(* with the types and with the fact that a call past its request has a     *)
(* pipeline: Release removes target[r] from the guard, which is harmless   *)
(* only because no other loading call has the same target.                 *)
(***************************************************************************)
HasTarget == \A r \in Run : pc[r] # "free" => target[r] \in Name

IInv == TypeOK /\ HasTarget /\ OneLoadPerPipeline

USE DEF PCs, Origins, Outcomes, JobStatus, runVars, poolVars

-----------------------------------------------------------------------------
(* Types.                                                                  *)

LEMMA InitTypes == Init => TypeOK
  BY EmptySeq, BoundsAssumption DEF Init, Pool!Init, TypeOK, NoJob

LEMMA BeginTypes ==
    ASSUME TypeOK, NEW r \in Run, NEW n \in Name,
           RequestSync(r, n) \/ RequestAsync(r, n) \/ RequestDemo(r, n)
             \/ RequestQueue(r, n) \/ RequestAside(r, n)
    PROVE  TypeOK'
<1>1. CASE RequestSync(r, n)
  BY <1>1 DEF TypeOK, RequestSync, Begin, Goto
<1>2. CASE RequestAsync(r, n)
  BY <1>2 DEF TypeOK, RequestAsync, Begin, Goto
<1>3. CASE RequestDemo(r, n)
  BY <1>3 DEF TypeOK, RequestDemo, Begin, Goto
<1>4. CASE RequestQueue(r, n)
  <2>1. pending' \in Seq(Name)
    BY <1>4, AppendProperties DEF TypeOK, RequestQueue, Pool!Submit
  <2> QED
    BY <1>4, <2>1 DEF TypeOK, RequestQueue, Begin, Goto, Pool!Submit
<1>5. CASE RequestAside(r, n)
  BY <1>5 DEF TypeOK, RequestAside, Begin, Goto
<1> QED
  BY <1>1, <1>2, <1>3, <1>4, <1>5

LEMMA WriteTypes ==
    ASSUME TypeOK, NEW r \in Run, NEW e \in {"ok", "fail"},
           NEW after \in PCs, NEW broken \in PCs,
           WriteEntry(r, e, after, broken)
    PROVE  /\ history' \in [Run -> Seq({"ok", "fail"})]
           /\ dropped' \subseteq Run
           /\ pc' \in [Run -> PCs]
<1>1. Append(history[r], e) \in Seq({"ok", "fail"})
  BY AppendProperties DEF TypeOK
<1> QED
  BY <1>1 DEF TypeOK, WriteEntry, Goto

LEMMA StepTypes ==
    ASSUME TypeOK, HasTarget, NEW r \in Run, Step(r)
    PROVE  TypeOK'
<1>1. CASE StartJob(r)
  BY <1>1 DEF TypeOK, StartJob, Goto
<1>2. CASE QueueBegin(r)
  BY <1>2 DEF TypeOK, QueueBegin, Goto
<1>3. CASE Load(r)
  BY <1>3 DEF TypeOK, Load, Goto
<1>4. CASE Admit(r)
  <2>1. CASE target[r] \in guard
    BY <1>4, <2>1 DEF TypeOK, Admit, Goto
  <2>2. CASE target[r] \notin guard
    <3>1. target[r] \in Name
      BY <1>4 DEF HasTarget, Admit
    <3> QED
      BY <1>4, <2>2, <3>1, ZenonT(40) DEF TypeOK, Admit, Goto
  <2> QED
    BY <2>1, <2>2
<1>5. CASE Execute(r)
  BY <1>5 DEF TypeOK, Execute, Goto
<1>6. CASE Release(r)
  BY <1>6 DEF TypeOK, Release, Goto
<1>7. CASE Record(r)
  <2>1. Entry(r) \in {"ok", "fail"}
    BY DEF Entry
  <2> QED
    BY <1>7, <2>1, WriteTypes, ZenonT(40) DEF TypeOK, Record
<1>8. CASE Handle(r)
  BY <1>8, WriteTypes, ZenonT(40) DEF TypeOK, Handle, Goto
<1>9. CASE Answer(r)
  BY <1>9 DEF TypeOK, Answer, Goto
<1>10. CASE SetResult(r)
  BY <1>10, ZenonT(40) DEF TypeOK, SetResult, Goto
<1>11. CASE Fault(r)
  BY <1>11, ZenonT(40) DEF TypeOK, Fault, Goto
<1>12. CASE Finish(r)
  BY <1>12 DEF TypeOK, Finish, Goto, Pool!Complete
<1>13. CASE AsideCheck(r)
  BY <1>13 DEF TypeOK, AsideCheck, Goto
<1>14. CASE AsideEnd(r)
  BY <1>14 DEF TypeOK, AsideEnd, Goto
<1> QED
  BY <1>1, <1>2, <1>3, <1>4, <1>5, <1>6, <1>7, <1>8, <1>9, <1>10, <1>11,
     <1>12, <1>13, <1>14 DEF Step

\* The steps that belong to no call.
LEMMA OtherTypes ==
    ASSUME TypeOK, Dispatch \/ Restart \/ \E n \in Name : Delete(n)
    PROVE  TypeOK'
<1>1. CASE Dispatch
  <2>1. Head(pending) \in Name /\ Tail(pending) \in Seq(Name)
    BY <1>1, HeadTailProperties DEF TypeOK, Dispatch, Pool!Dispatch
  <2> QED
    BY <1>1, <2>1 DEF TypeOK, Dispatch, Pool!Dispatch
<1>2. CASE Restart
  BY <1>2, EmptySeq, BoundsAssumption DEF TypeOK, Restart, NoJob
<1>3. CASE \E n \in Name : Delete(n)
  BY <1>3 DEF TypeOK, Delete
<1> QED
  BY <1>1, <1>2, <1>3

-----------------------------------------------------------------------------
(* Targets.  A call gets its pipeline with its request and keeps it.       *)

LEMMA TargetKept ==
    ASSUME TypeOK, HasTarget, [Next]_vars
    PROVE  HasTarget'
<1>1. CASE \E r \in Run : Step(r)
  <2>1. PICK r \in Run : Step(r)
    BY <1>1
  <2>2. target' = target /\ pc[r] # "free"
    BY <2>1 DEF Step, StartJob, QueueBegin, Load, Admit, Execute, Release, Record,
                Handle, Answer, SetResult, Fault, Finish, AsideCheck, AsideEnd
  <2>3. \A x \in Run \ {r} : pc'[x] = pc[x]
    BY <2>1 DEF Step, StartJob, QueueBegin, Load, Admit, Execute, Release, Record,
                Handle, Answer, SetResult, Fault, Finish, AsideCheck, AsideEnd,
                WriteEntry, Goto, TypeOK
  <2> QED
    BY <2>2, <2>3 DEF HasTarget
<1>2. CASE \E r \in Run, n \in Name : \/ RequestSync(r, n)
                                       \/ RequestAsync(r, n)
                                       \/ RequestDemo(r, n)
                                       \/ RequestQueue(r, n)
                                       \/ RequestAside(r, n)
  <2>1. PICK r \in Run, n \in Name, o \in Origins, label \in PCs : Begin(r, n, o, label)
    BY <1>2 DEF RequestSync, RequestAsync, RequestDemo, RequestQueue, RequestAside
  <2> QED
    BY <2>1 DEF Begin, Goto, HasTarget, TypeOK
<1>3. CASE Dispatch \/ UNCHANGED vars \/ \E n \in Name : Delete(n)
  BY <1>3 DEF HasTarget, Dispatch, Delete, vars
<1>4. CASE Restart
  BY <1>4 DEF HasTarget, Restart, Live, TypeOK
<1> QED
  BY <1>1, <1>2, <1>3, <1>4 DEF Next

-----------------------------------------------------------------------------
(* The guard.                                                              *)

\* A step that neither starts nor ends a load keeps the invariant.
LEMMA SameLoads ==
    ASSUME OneLoadPerPipeline, guard' = guard,
           \A x \in Run : Loading(x)' <=> Loading(x),
           \A x \in Run : Loading(x) => target'[x] = target[x]
    PROVE  OneLoadPerPipeline'
<1>1. {target'[x] : x \in {y \in Run : Loading(y)'}}
        = {target[x] : x \in {y \in Run : Loading(y)}}
  OBVIOUS
<1> QED
  BY <1>1 DEF OneLoadPerPipeline

LEMMA AdmitKeeps ==
    ASSUME TypeOK, OneLoadPerPipeline, NEW r \in Run, Admit(r)
    PROVE  OneLoadPerPipeline'
<1>1. /\ target' = target
      /\ pc[r] = "admit"
      /\ \A x \in Run \ {r} : Loading(x)' <=> Loading(x)
  BY DEF Admit, Goto, Loading, TypeOK
<1>2. CASE target[r] \in guard
  <2>1. Loading(r)' <=> Loading(r)
    BY <1>1, <1>2 DEF Admit, Goto, Loading, TypeOK
  <2> QED
    BY <1>1, <1>2, <2>1, SameLoads DEF Admit
<1>3. CASE target[r] \notin guard
  \* No loading call has r's pipeline, so r is the only one after the step.
  <2>1. guard' = guard \cup {target[r]} /\ Loading(r)' /\ ~Loading(r)
    BY <1>1, <1>3 DEF Admit, Goto, Loading, TypeOK
  <2>2. \A x \in Run : Loading(x) => target[x] # target[r]
    BY <1>3 DEF OneLoadPerPipeline
  <2>3. {y \in Run : Loading(y)'} = {y \in Run : Loading(y)} \cup {r}
    BY <1>1, <2>1
  <2>4. guard' = {target'[x] : x \in {y \in Run : Loading(y)'}}
    BY <1>1, <2>1, <2>3 DEF OneLoadPerPipeline
  <2>5. \A x, y \in Run :
            Loading(x)' /\ Loading(y)' /\ target'[x] = target'[y] => x = y
    BY <1>1, <2>1, <2>2 DEF OneLoadPerPipeline
  <2> QED
    BY <2>4, <2>5 DEF OneLoadPerPipeline
<1> QED
  BY <1>2, <1>3

LEMMA ReleaseKeeps ==
    ASSUME TypeOK, OneLoadPerPipeline, NEW r \in Run, Release(r)
    PROVE  OneLoadPerPipeline'
<1>1. /\ target' = target
      /\ guard' = guard \ {target[r]}
      /\ Loading(r)
      /\ ~Loading(r)'
      /\ \A x \in Run \ {r} : Loading(x)' <=> Loading(x)
  BY DEF Release, Goto, Loading, HasResult, TypeOK
\* Uniqueness is what makes the pop safe: no other load used this entry.
<1>2. \A x \in Run : Loading(x) /\ x # r => target[x] # target[r]
  BY <1>1 DEF OneLoadPerPipeline
<1>3. {y \in Run : Loading(y)'} = {y \in Run : Loading(y)} \ {r}
  BY <1>1
<1>4. guard' = {target'[x] : x \in {y \in Run : Loading(y)'}}
  BY <1>1, <1>2, <1>3 DEF OneLoadPerPipeline
<1>5. \A x, y \in Run :
          Loading(x)' /\ Loading(y)' /\ target'[x] = target'[y] => x = y
  BY <1>1 DEF OneLoadPerPipeline
<1> QED
  BY <1>4, <1>5 DEF OneLoadPerPipeline

LEMMA RestartKeeps ==
    ASSUME TypeOK, OneLoadPerPipeline, Restart
    PROVE  OneLoadPerPipeline'
<1>1. \A x \in Run : ~Loading(x)'
  BY DEF Restart, Loading, Live, TypeOK
<1>2. {y \in Run : Loading(y)'} = {}
  BY <1>1
<1> QED
  BY <1>1, <1>2 DEF OneLoadPerPipeline, Restart

LEMMA LoadsKept ==
    ASSUME TypeOK, OneLoadPerPipeline, [Next]_vars
    PROVE  OneLoadPerPipeline'
<1>1. CASE \E r \in Run : Admit(r)
  BY <1>1, AdmitKeeps
<1>2. CASE \E r \in Run : Release(r)
  BY <1>2, ReleaseKeeps
<1>3. CASE \E r \in Run : Execute(r)
  <2>1. PICK r \in Run : Execute(r)
    BY <1>3
  <2>2. \A x \in Run : Loading(x)' <=> Loading(x)
    BY <2>1 DEF Execute, Goto, Loading, TypeOK
  <2> QED
    BY <2>1, <2>2, SameLoads DEF Execute
<1>4. ASSUME NEW r \in Run, Step(r), ~Admit(r), ~Release(r), ~Execute(r)
      PROVE  OneLoadPerPipeline'
  <2>1. guard' = guard /\ target' = target
    BY <1>4 DEF Step, StartJob, QueueBegin, Load, Record, Handle, Answer, SetResult,
                Fault, Finish, AsideCheck, AsideEnd
  <2>2. \A x \in Run : Loading(x)' <=> Loading(x)
    BY <1>4 DEF Step, StartJob, QueueBegin, Load, Record, Handle, Answer, SetResult,
                Fault, Finish, AsideCheck, AsideEnd, WriteEntry, Goto, Loading, TypeOK
  <2> QED
    BY <2>1, <2>2, SameLoads
<1>5. CASE \E r \in Run, n \in Name : \/ RequestSync(r, n)
                                       \/ RequestAsync(r, n)
                                       \/ RequestDemo(r, n)
                                       \/ RequestQueue(r, n)
                                       \/ RequestAside(r, n)
  <2>1. PICK r \in Run, n \in Name, o \in Origins,
             label \in {"load", "queued", "waiting", "check"} : Begin(r, n, o, label)
    BY <1>5 DEF RequestSync, RequestAsync, RequestDemo, RequestQueue, RequestAside
  <2>2. \A x \in Run : Loading(x)' <=> Loading(x)
    BY <2>1 DEF Begin, Goto, Loading, TypeOK
  <2>3. \A x \in Run : Loading(x) => target'[x] = target[x]
    BY <2>1 DEF Begin, Loading, TypeOK
  <2> QED
    BY <2>1, <2>2, <2>3, SameLoads DEF Begin
<1>6. CASE Dispatch \/ UNCHANGED vars \/ \E n \in Name : Delete(n)
  <2>1. guard' = guard /\ pc' = pc /\ target' = target
    BY <1>6 DEF Dispatch, Delete, vars
  <2> QED
    BY <2>1, SameLoads DEF Loading
<1>7. CASE Restart
  BY <1>7, RestartKeeps
<1> QED
  BY <1>1, <1>2, <1>3, <1>4, <1>5, <1>6, <1>7 DEF Next

-----------------------------------------------------------------------------
LEMMA InitHolds == Init => IInv
<1> SUFFICES ASSUME Init PROVE IInv
  OBVIOUS
<1>1. TypeOK
  BY InitTypes
<1>2. HasTarget
  BY DEF Init, HasTarget
<1>3. \A r \in Run : ~Loading(r)
  BY DEF Init, Loading
<1>4. OneLoadPerPipeline
  <2>1. {r \in Run : Loading(r)} = {}
    BY <1>3
  <2> QED
    BY <1>3, <2>1 DEF OneLoadPerPipeline, Init
<1> QED
  BY <1>1, <1>2, <1>4 DEF IInv

LEMMA StepHolds == IInv /\ [Next]_vars => IInv'
<1> SUFFICES ASSUME IInv, [Next]_vars PROVE IInv'
  OBVIOUS
<1> USE DEF IInv
<1>1. CASE UNCHANGED vars
  BY <1>1 DEF vars, TypeOK, HasTarget, OneLoadPerPipeline, Loading
<1>2. CASE Next
  <2>1. TypeOK'
    BY <1>2, StepTypes, BeginTypes, OtherTypes DEF Next
  <2> QED
    BY <2>1, TargetKept, LoadsKept
<1> QED
  BY <1>1, <1>2

\* The invariant holds in every reachable state, with crashes at any point.
THEOREM Inductive == SafeSpec => []IInv
<1> QED
  BY InitHolds, StepHolds, PTL DEF SafeSpec

\* Every variable keeps its type; in particular the guard holds names of
\* pipelines only and the run queue stays a queue of them.
THEOREM TypeCorrect == SafeSpec => []TypeOK
<1>1. IInv => TypeOK
  BY DEF IInv
<1> QED
  BY <1>1, Inductive, PTL

\* No pipeline is ever loaded twice at once, whatever mixture of sync, async,
\* scheduled and demo calls, deletions and crashes there is, and the guard
\* names exactly the pipelines that load: none is locked out by a dead run.
THEOREM MutualExclusion == SafeSpec => []OneLoadPerPipeline
<1>1. IInv => OneLoadPerPipeline
  BY DEF IInv
<1> QED
  BY <1>1, Inductive, PTL
=============================================================================
