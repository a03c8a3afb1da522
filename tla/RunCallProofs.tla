--------------------------- MODULE RunCallProofs ---------------------------
(***************************************************************************)
(* What the history, the job table and the queue's slots say of the calls, *)
(* for every number of calls, of pipelines and of crashes.  A call is      *)
(* written about only by itself, so the first invariant speaks of one call *)
(* at a time: where it stands decides what it may have written.  Slots are *)
(* shared, so the second relates the calls to the run queue.               *)
(***************************************************************************)
EXTENDS RunServiceProofs, FiniteSetTheorems

-----------------------------------------------------------------------------
(* The inductive invariant.                                                *)

\* The call has tried to write its entry.
Accounted(r) == history[r] # <<>> \/ r \in dropped

\* Before a call writes its entry, its history is empty.
NothingYet(r) ==
    /\ pc[r] \in {"free", "queued", "waiting", "load", "admit", "execute", "check",
                  "touch"} => history[r] = <<>> /\ outcome[r] = "none"
    /\ pc[r] = "waiting" => origin[r] = "queue"
    /\ pc[r] \in {"check", "touch"} => origin[r] = "aside"
    /\ pc[r] = "release" =>
           history[r] = <<>> /\ outcome[r] \in {"ok", "failed", "raised", "keyerror"}
    /\ pc[r] = "record" => history[r] = <<>> /\ HasResult(r)
    /\ pc[r] = "except" => /\ history[r] = <<>>
                           /\ outcome[r] # "none"
                           /\ HasResult(r) => r \in dropped

\* After it, the entry is there, or the reason why it is not.
AccountedAfter(r) ==
    /\ pc[r] \in {"answer", "result"} => Accounted(r) /\ HasResult(r)
    /\ pc[r] = "fault" => Accounted(r) \/ outcome[r] = "busy"
    /\ pc[r] \in {"answer", "result", "fault"} => origin[r] = "async"
    /\ pc[r] \in {"finish", "done"} =>
           Accounted(r) \/ outcome[r] = "none" \/ NotAFailure(r)
    /\ pc[r] = "finish" /\ origin[r] = "async" => r \in dropped

\* The job follows its call.
JobFollows(r) ==
    /\ pc[r] \notin {"result", "done"} => job[r].status \notin {"done", "error"}
    /\ pc[r] = "result" => job[r].status = "done"
    /\ pc[r] # "done" => ~job[r].finished

\* The parts of the checked properties that are about one call.
Honest(r) ==
    history[r] # <<>> =>
        /\ Len(history[r]) = 1
        /\ history[r] = <<"ok">> => outcome[r] = "ok"
        /\ history[r] = <<"fail">> => outcome[r] # "ok" \/ r \in dropped
        /\ outcome[r] = "busy" => origin[r] = "demo"
Terminal(r) ==
    job[r].status \in {"done", "error"} => Accounted(r) \/ outcome[r] = "busy"
Tells(r) ==
    job[r].finished =>
        \/ job[r].status = "done" /\ job[r].result
        \/ job[r].status = "error"
        \/ r \in dropped

CallInv(r) == /\ NothingYet(r)
              /\ AccountedAfter(r)
              /\ JobFollows(r)
              /\ Honest(r)
              /\ Terminal(r)
              /\ Tells(r)

HistInv == \A r \in Run : CallInv(r)

USE DEF NothingYet, AccountedAfter, JobFollows, Honest, Terminal, Tells, Accounted

-----------------------------------------------------------------------------
(* A step of one call leaves the others' invariant alone.                  *)

\* What CallInv(x) reads is unchanged.
Untouched(x) ==
    /\ pc'[x] = pc[x]
    /\ origin'[x] = origin[x]
    /\ outcome'[x] = outcome[x]
    /\ history'[x] = history[x]
    /\ job'[x] = job[x]
    /\ x \in dropped' <=> x \in dropped

LEMMA UntouchedKeeps ==
    ASSUME NEW x \in Run, CallInv(x), Untouched(x)
    PROVE  CallInv(x)'
  BY DEF CallInv, Untouched, HasResult, NotAFailure

LEMMA StepTouchesOne ==
    ASSUME TypeOK, NEW r \in Run, Step(r), NEW x \in Run, x # r
    PROVE  Untouched(x)
<1>1. CASE Record(r) \/ Handle(r)
  BY <1>1 DEF TypeOK, Untouched, Record, Handle, WriteEntry, Goto
<1>2. CASE StartJob(r) \/ QueueBegin(r) \/ Load(r) \/ Admit(r) \/ Execute(r) \/ Release(r)
  BY <1>2 DEF TypeOK, Untouched, StartJob, QueueBegin, Load, Admit, Execute, Release, Goto
<1>3. CASE Answer(r) \/ SetResult(r) \/ Fault(r) \/ Finish(r)
  BY <1>3 DEF TypeOK, Untouched, Answer, SetResult, Fault, Finish, Goto
<1>4. CASE AsideCheck(r) \/ AsideEnd(r)
  BY <1>4 DEF TypeOK, Untouched, AsideCheck, AsideEnd, Goto
<1> QED
  BY <1>1, <1>2, <1>3, <1>4 DEF Step

-----------------------------------------------------------------------------
(* Each step keeps the invariant of its own call.                          *)

\* Steps before the load ends write nothing.
LEMMA EarlySteps ==
    ASSUME TypeOK, NEW r \in Run, CallInv(r),
           StartJob(r) \/ QueueBegin(r) \/ Load(r) \/ Admit(r) \/ Execute(r) \/ Release(r)
             \/ AsideCheck(r) \/ AsideEnd(r)
    PROVE  CallInv(r)'
<1> USE DEF CallInv, Goto, TypeOK, HasResult, NotAFailure
<1>1. CASE StartJob(r)
  BY <1>1 DEF StartJob
<1>2. CASE QueueBegin(r)
  BY <1>2 DEF QueueBegin
<1>3. CASE Load(r)
  BY <1>3 DEF Load
<1>4. CASE Admit(r)
  BY <1>4 DEF Admit
<1>5. CASE Execute(r)
  BY <1>5 DEF Execute
<1>6. CASE Release(r)
  BY <1>6 DEF Release
<1>7. CASE AsideCheck(r)
  BY <1>7 DEF AsideCheck
<1>8. CASE AsideEnd(r)
  BY <1>8 DEF AsideEnd
<1> QED
  BY <1>1, <1>2, <1>3, <1>4, <1>5, <1>6, <1>7, <1>8

\* An attempt to write leaves one entry or a mark in dropped.
LEMMA Attempt ==
    ASSUME TypeOK, NEW r \in Run, NEW e \in {"ok", "fail"}, NEW after, NEW broken,
           history[r] = <<>>,
           WriteEntry(r, e, after, broken)
    PROVE  \/ history'[r] = <<e>> /\ dropped' = dropped /\ pc'[r] = after
           \/ history'[r] = <<>> /\ r \in dropped' /\ pc'[r] = after
           \/ /\ history'[r] = <<>> /\ r \in dropped'
              /\ pc'[r] = broken /\ origin[r] # "queue"
<1>1. Append(<<>>, e) = <<e>>
  OBVIOUS
<1> QED
  BY <1>1 DEF TypeOK, WriteEntry, Goto

LEMMA OneEntry ==
    ASSUME NEW e
    PROVE  Len(<<e>>) = 1 /\ <<e>> # <<>> /\ \A f : <<e>> = <<f>> => e = f
  OBVIOUS

LEMMA RecordStep ==
    ASSUME TypeOK, NEW r \in Run, CallInv(r), Record(r)
    PROVE  CallInv(r)'
<1>1. /\ pc[r] = "record" /\ history[r] = <<>> /\ HasResult(r)
      /\ origin' = origin /\ outcome' = outcome /\ job' = job
  BY DEF Record, CallInv
<1>2. Entry(r) \in {"ok", "fail"} /\ (Entry(r) = "ok" => outcome[r] = "ok")
        /\ (Entry(r) = "fail" => outcome[r] # "ok")
  BY DEF Entry
<1>3. \/ /\ history'[r] = <<Entry(r)>>
         /\ dropped' = dropped
         /\ pc'[r] = IF origin[r] = "async" THEN "answer" ELSE "finish"
      \/ /\ history'[r] = <<>>
         /\ r \in dropped'
         /\ pc'[r] = IF origin[r] = "async" THEN "answer" ELSE "finish"
      \/ /\ history'[r] = <<>>
         /\ r \in dropped'
         /\ pc'[r] = IF origin[r] = "async" THEN "except" ELSE "finish"
  BY <1>1, <1>2, Attempt DEF Record
<1>4. /\ job[r].status \notin {"done", "error"}
      /\ ~job[r].finished
  BY <1>1 DEF CallInv
<1>5. CASE history'[r] = <<Entry(r)>> /\ dropped' = dropped
  <2>1. Honest(r)'
    BY <1>1, <1>2, <1>5, OneEntry DEF HasResult
  <2>2. pc'[r] \in {"answer", "finish"} /\ (pc'[r] = "answer" <=> origin[r] = "async")
    BY <1>1, <1>3, <1>5, OneEntry
  <2> QED
    BY <1>1, <1>4, <1>5, <2>1, <2>2, OneEntry DEF CallInv, HasResult
<1>6. CASE history'[r] = <<>> /\ r \in dropped'
  <2>1. \/ pc'[r] \in {"answer", "except"} /\ origin[r] = "async"
        \/ pc'[r] = "finish" /\ origin[r] # "async"
    BY <1>3
  <2> QED
    BY <1>1, <1>4, <1>6, <2>1 DEF CallInv, HasResult
<1> QED
  BY <1>3, <1>5, <1>6

LEMMA HandleStep ==
    ASSUME TypeOK, NEW r \in Run, CallInv(r), Handle(r)
    PROVE  CallInv(r)'
<1>1. /\ pc[r] = "except" /\ history[r] = <<>> /\ outcome[r] # "none"
      /\ HasResult(r) => r \in dropped
      /\ origin' = origin /\ outcome' = outcome /\ job' = job
  BY DEF Handle, CallInv
<1>2. CASE NotAFailure(r)
  BY <1>1, <1>2 DEF CallInv, Handle, Goto, TypeOK, NotAFailure, HasResult
<1>3. CASE ~NotAFailure(r)
  <2>1. \/ /\ history'[r] = <<"fail">>
           /\ dropped' = dropped
           /\ pc'[r] = IF origin[r] = "async" THEN "fault" ELSE "finish"
        \/ /\ history'[r] = <<>>
           /\ r \in dropped'
           /\ pc'[r] \in {IF origin[r] = "async" THEN "fault" ELSE "finish", "finish"}
    BY <1>1, <1>3, Attempt DEF Handle
  <2>2. outcome[r] = "busy" => origin[r] = "demo"
    BY <1>3 DEF NotAFailure
  <2>3. outcome[r] = "ok" => r \in dropped
    BY <1>1 DEF HasResult
  <2> QED
    BY <1>1, <2>1, <2>2, <2>3, OneEntry, ZenonT(40) DEF CallInv, HasResult
<1> QED
  BY <1>2, <1>3

\* Steps after the attempt change the job and where the call stands.
LEMMA LateSteps ==
    ASSUME TypeOK, NEW r \in Run, CallInv(r),
           Answer(r) \/ SetResult(r) \/ Fault(r) \/ Finish(r)
    PROVE  CallInv(r)'
<1> USE DEF CallInv, Goto, TypeOK, HasResult, NotAFailure
<1>1. CASE Answer(r)
  BY <1>1 DEF Answer
<1>2. CASE SetResult(r)
  BY <1>2 DEF SetResult
<1>3. CASE Fault(r)
  BY <1>3 DEF Fault
<1>4. CASE Finish(r)
  BY <1>4 DEF Finish
<1> QED
  BY <1>1, <1>2, <1>3, <1>4

\* A request changes the call it begins, from "free" to its entry point.
LEMMA RequestSteps ==
    ASSUME TypeOK, NEW r \in Run, NEW n \in Name, CallInv(r),
           RequestSync(r, n) \/ RequestAsync(r, n) \/ RequestDemo(r, n)
             \/ RequestQueue(r, n) \/ RequestAside(r, n)
    PROVE  CallInv(r)' /\ \A x \in Run \ {r} : Untouched(x)
<1> USE DEF CallInv, Begin, Goto, TypeOK, HasResult, NotAFailure, Untouched
<1>1. CASE RequestSync(r, n)
  BY <1>1 DEF RequestSync
<1>2. CASE RequestAsync(r, n)
  BY <1>2 DEF RequestAsync
<1>3. CASE RequestDemo(r, n)
  BY <1>3 DEF RequestDemo
<1>4. CASE RequestQueue(r, n)
  BY <1>4 DEF RequestQueue
<1>5. CASE RequestAside(r, n)
  BY <1>5 DEF RequestAside
<1> QED
  BY <1>1, <1>2, <1>3, <1>4, <1>5

-----------------------------------------------------------------------------
LEMMA HistInit == Init => HistInv
<1> SUFFICES ASSUME Init, NEW r \in Run PROVE CallInv(r)
  BY DEF HistInv
<1> QED
  BY DEF Init, CallInv, NoJob, HasResult, NotAFailure

LEMMA HistStep == IInv /\ HistInv /\ [Next]_vars => HistInv'
<1> SUFFICES ASSUME IInv, HistInv, [Next]_vars, NEW x \in Run PROVE CallInv(x)'
  BY DEF HistInv
<1>1. TypeOK /\ CallInv(x)
  BY DEF IInv, HistInv
<1>2. ASSUME NEW r \in Run, Step(r)
      PROVE  CallInv(x)'
  <2>1. CASE x = r
    BY <1>1, <1>2, <2>1, EarlySteps, RecordStep, HandleStep, LateSteps DEF Step
  <2>2. CASE x # r
    BY <1>1, <1>2, <2>2, StepTouchesOne, UntouchedKeeps
  <2> QED
    BY <2>1, <2>2
<1>3. ASSUME NEW r \in Run, NEW n \in Name,
             RequestSync(r, n) \/ RequestAsync(r, n) \/ RequestDemo(r, n)
               \/ RequestQueue(r, n) \/ RequestAside(r, n)
      PROVE  CallInv(x)'
  <2>1. CallInv(r)
    BY DEF HistInv
  <2> QED
    BY <1>1, <1>3, <2>1, RequestSteps, UntouchedKeeps
<1>4. CASE Dispatch \/ UNCHANGED vars \/ \E n \in Name : Delete(n)
  <2>1. Untouched(x)
    BY <1>4 DEF Untouched, Dispatch, Delete, runVars, vars
  <2> QED
    BY <1>1, <2>1, UntouchedKeeps
<1>5. CASE Restart
  BY <1>1, <1>5 DEF Restart, CallInv, TypeOK, NoJob, Live, HasResult, NotAFailure
<1> QED
  BY <1>2, <1>3, <1>4, <1>5 DEF Next

\* Where a call stands decides what it has written, with crashes at any point.
THEOREM HistoryInductive == SafeSpec => []HistInv
<1> QED
  BY Inductive, HistInit, HistStep, PTL DEF SafeSpec

\* The history never claims a success that was not one, never enters a call
\* twice, and keeps refused calls out, for every number of calls and crashes.
THEOREM HistoryTells == SafeSpec => []HistoryHonest
<1>1. HistInv => HistoryHonest
  BY DEF HistInv, CallInv, HistoryHonest
<1> QED
  BY <1>1, HistoryInductive, PTL

\* A poller that sees an ended job finds the entry of its run in the history, and
\* a finished job says done, with the result, or error.
THEOREM JobsTell == SafeSpec => []EndedJobTells
<1>1. HistInv => EndedJobTells
  BY DEF HistInv, CallInv, EndedJobTells
<1> QED
  BY <1>1, HistoryInductive, PTL

\* A call whose load ended leaves an entry, or is one of the named exceptions.
THEOREM LoadsAreEntered == SafeSpec => []LoadLeavesEntry
<1>1. HistInv => LoadLeavesEntry
  BY DEF HistInv, CallInv, NotAFailure, LoadLeavesEntry
<1> QED
  BY <1>1, HistoryInductive, PTL

-----------------------------------------------------------------------------
(* Slots.  The queue holds a name at most once, and every name it holds,    *)
(* waiting or in a slot, belongs to exactly one scheduled call.             *)

Scheduled(r) == origin[r] = "queue" /\ Live(r)

\* Every scheduled call is in the queue, and within a slot once it began.
Placed ==
    \A r \in Run : Scheduled(r) =>
        \/ target[r] \in active
        \/ pc[r] = "waiting" /\ target[r] \in Pool!Waiting

OneCallPerName ==
    \A r, s \in Run : Scheduled(r) /\ Scheduled(s) /\ target[r] = target[s] => r = s

\* Everything in the queue belongs to a scheduled call.
Owned == \A n \in active \cup Pool!Waiting : \E r \in Run : Scheduled(r) /\ target[r] = n

Distinct == /\ \A i, j \in DOMAIN pending : pending[i] = pending[j] => i = j
            /\ Pool!Waiting \cap active = {}

SlotInv == Placed /\ OneCallPerName /\ Owned /\ Distinct

\* A step that leaves the queue alone and changes no call's schedule: at most
\* it begins a call whose slot is there.
LEMMA QuietKeeps ==
    ASSUME SlotInv, pending' = pending, active' = active,
           \A x \in Run : Scheduled(x)' <=> Scheduled(x),
           \A x \in Run : Scheduled(x) => target'[x] = target[x],
           \A x \in Run : Scheduled(x) /\ pc[x] = "waiting" =>
                              pc'[x] = "waiting" \/ target[x] \in active
    PROVE  SlotInv'
<1>1. Pool!Waiting' = Pool!Waiting
  BY DEF Pool!Waiting
<1>2. Placed'
  BY <1>1 DEF SlotInv, Placed
<1>3. OneCallPerName'
  BY DEF SlotInv, OneCallPerName
<1>4. Owned'
  BY <1>1 DEF SlotInv, Owned
<1>5. Distinct'
  BY <1>1 DEF SlotInv, Distinct
<1> QED
  BY <1>2, <1>3, <1>4, <1>5 DEF SlotInv

\* What the head and the tail of the queue hold.
LEMMA DispatchedWaiting ==
    ASSUME pending \in Seq(Name), pending # <<>>, Distinct
    PROVE  LET tail == Tail(pending)
           IN  /\ {tail[i] : i \in DOMAIN tail} = Pool!Waiting \ {Head(pending)}
               /\ \A i, j \in DOMAIN tail : tail[i] = tail[j] => i = j
               /\ Head(pending) \in Pool!Waiting
<1> DEFINE tail == Tail(pending)
<1>1. /\ tail \in Seq(Name)
      /\ Len(tail) = Len(pending) - 1
      /\ \A i \in 1 .. Len(tail) : tail[i] = pending[i + 1]
      /\ Head(pending) = pending[1]
      /\ Len(pending) \in Nat \ {0}
      /\ DOMAIN pending = 1 .. Len(pending)
  OBVIOUS
<1>2. DOMAIN tail = 1 .. Len(pending) - 1
  BY <1>1
<1> HIDE DEF tail
<1>3. \A i \in DOMAIN tail : i + 1 \in DOMAIN pending /\ tail[i] = pending[i + 1] /\ i + 1 # 1
  BY <1>1, <1>2
<1>4. \A k \in DOMAIN pending : k # 1 => k - 1 \in DOMAIN tail /\ tail[k - 1] = pending[k]
  BY <1>1, <1>2
<1>5. 1 \in DOMAIN pending
  BY <1>1
<1>6. \A i, j \in DOMAIN tail : tail[i] = tail[j] => i = j
  <2> SUFFICES ASSUME NEW i \in DOMAIN tail, NEW j \in DOMAIN tail, tail[i] = tail[j]
               PROVE  i = j
    OBVIOUS
  <2>1. i + 1 = j + 1
    BY <1>3 DEF Distinct
  <2> QED
    BY <2>1, <1>2, <1>1
<1>7. {tail[i] : i \in DOMAIN tail} \subseteq Pool!Waiting \ {Head(pending)}
  BY <1>1, <1>3, <1>5 DEF Pool!Waiting, Distinct
<1>8. Pool!Waiting \ {Head(pending)} \subseteq {tail[i] : i \in DOMAIN tail}
  BY <1>1, <1>4 DEF Pool!Waiting
<1>9. Head(pending) \in Pool!Waiting
  BY <1>1, <1>5 DEF Pool!Waiting
<1> QED
  BY <1>6, <1>7, <1>8, <1>9 DEF tail

LEMMA DispatchKeeps ==
    ASSUME TypeOK, SlotInv, Dispatch
    PROVE  SlotInv'
<1>1. /\ pending \in Seq(Name)
      /\ pending # <<>>
      /\ active' = active \cup {Head(pending)}
      /\ pending' = Tail(pending)
      /\ pc' = pc /\ origin' = origin /\ target' = target
  BY DEF TypeOK, Dispatch, Pool!Dispatch, runVars
<1>2. /\ Pool!Waiting' = Pool!Waiting \ {Head(pending)}
      /\ \A i, j \in DOMAIN pending' : pending'[i] = pending'[j] => i = j
      /\ Head(pending) \in Pool!Waiting
  BY <1>1, DispatchedWaiting DEF SlotInv, Pool!Waiting
<1>3. \A x \in Run : Scheduled(x)' <=> Scheduled(x)
  BY <1>1 DEF Scheduled, Live
<1>4. Placed'
  <2> SUFFICES ASSUME NEW x \in Run, Scheduled(x)'
               PROVE  \/ target'[x] \in active'
                      \/ pc'[x] = "waiting" /\ target'[x] \in Pool!Waiting'
    BY DEF Placed
  <2>1. \/ target[x] \in active
        \/ pc[x] = "waiting" /\ target[x] \in Pool!Waiting
    BY <1>3 DEF SlotInv, Placed
  <2> QED
    BY <2>1, <1>1, <1>2
<1>5. OneCallPerName'
  BY <1>1, <1>3 DEF SlotInv, OneCallPerName
<1>6. Owned'
  BY <1>1, <1>2, <1>3 DEF SlotInv, Owned
<1>7. Distinct'
  BY <1>1, <1>2 DEF SlotInv, Distinct
<1> QED
  BY <1>4, <1>5, <1>6, <1>7 DEF SlotInv

\* What an accepted name adds.
LEMMA SubmittedWaiting ==
    ASSUME pending \in Seq(Name), NEW n \in Name, n \notin Pool!Waiting,
           \A i, j \in DOMAIN pending : pending[i] = pending[j] => i = j
    PROVE  LET more == Append(pending, n)
           IN  /\ {more[i] : i \in DOMAIN more} = Pool!Waiting \cup {n}
               /\ \A i, j \in DOMAIN more : more[i] = more[j] => i = j
<1> DEFINE more == Append(pending, n)
<1>1. /\ more \in Seq(Name)
      /\ Len(more) = Len(pending) + 1
      /\ \A i \in 1 .. Len(pending) : more[i] = pending[i]
      /\ more[Len(pending) + 1] = n
      /\ Len(pending) \in Nat
      /\ DOMAIN pending = 1 .. Len(pending)
  BY AppendProperties
<1>2. DOMAIN more = DOMAIN pending \cup {Len(pending) + 1}
  BY <1>1
<1> HIDE DEF more
<1>3. \A i \in DOMAIN pending : more[i] = pending[i] /\ pending[i] # n
  BY <1>1 DEF Pool!Waiting
<1>4. {more[i] : i \in DOMAIN more} = Pool!Waiting \cup {n}
  BY <1>1, <1>2, <1>3 DEF Pool!Waiting
<1>5. \A i, j \in DOMAIN more : more[i] = more[j] => i = j
  BY <1>1, <1>2, <1>3
<1> QED
  BY <1>4, <1>5 DEF more

LEMMA SubmitKeeps ==
    ASSUME TypeOK, SlotInv, NEW r \in Run, NEW n \in Name, RequestQueue(r, n)
    PROVE  SlotInv'
<1>1. /\ pending \in Seq(Name)
      /\ n \notin active /\ n \notin Pool!Waiting
      /\ pending' = Append(pending, n)
      /\ active' = active
      /\ pc[r] = "free" /\ pc'[r] = "waiting" /\ origin'[r] = "queue" /\ target'[r] = n
      /\ \A x \in Run \ {r} : /\ pc'[x] = pc[x]
                              /\ origin'[x] = origin[x]
                              /\ target'[x] = target[x]
  BY DEF TypeOK, RequestQueue, Begin, Goto, Pool!Submit
<1>2. /\ Pool!Waiting' = Pool!Waiting \cup {n}
      /\ \A i, j \in DOMAIN pending' : pending'[i] = pending'[j] => i = j
  BY <1>1, SubmittedWaiting DEF SlotInv, Distinct, Pool!Waiting
<1>3. /\ Scheduled(r)' /\ ~Scheduled(r)
      /\ \A x \in Run \ {r} : Scheduled(x)' <=> Scheduled(x)
  BY <1>1 DEF Scheduled, Live
\* A scheduled call is in the queue, so none has the name just accepted.
<1>4. \A x \in Run : Scheduled(x) => target[x] # n
  BY <1>1 DEF SlotInv, Placed
<1>5. Placed'
  BY <1>1, <1>2, <1>3 DEF SlotInv, Placed
<1>6. OneCallPerName'
  BY <1>1, <1>3, <1>4 DEF SlotInv, OneCallPerName
<1>7. Owned'
  <2> SUFFICES ASSUME NEW m \in active' \cup Pool!Waiting'
               PROVE  \E x \in Run : Scheduled(x)' /\ target'[x] = m
    BY DEF Owned
  <2>1. CASE m = n
    BY <2>1, <1>1, <1>3
  <2>2. CASE m # n
    <3>1. PICK x \in Run : Scheduled(x) /\ target[x] = m
      BY <2>2, <1>1, <1>2 DEF SlotInv, Owned
    <3> QED
      BY <3>1, <1>1, <1>3
  <2> QED
    BY <2>1, <2>2
<1>8. Distinct'
  BY <1>1, <1>2 DEF SlotInv, Distinct
<1> QED
  BY <1>5, <1>6, <1>7, <1>8 DEF SlotInv

\* The worker of a scheduled call frees the slot of its own name.
LEMMA FinishKeeps ==
    ASSUME TypeOK, SlotInv, NEW r \in Run, Finish(r)
    PROVE  SlotInv'
<1>1. /\ pc[r] = "finish" /\ pc'[r] = "done"
      /\ origin' = origin /\ target' = target
      /\ \A x \in Run \ {r} : pc'[x] = pc[x]
  BY DEF TypeOK, Finish, Goto
<1>2. ~Scheduled(r)' /\ \A x \in Run \ {r} : Scheduled(x)' <=> Scheduled(x)
  BY <1>1 DEF Scheduled, Live
<1>3. CASE origin[r] # "queue"
  <2>1. pending' = pending /\ active' = active
    BY <1>3 DEF Finish, poolVars
  <2>2. ~Scheduled(r)
    BY <1>3 DEF Scheduled
  <2> QED
    BY <2>1, <2>2, <1>1, <1>2, QuietKeeps
<1>4. CASE origin[r] = "queue"
  <2>1. /\ pending' = pending
        /\ target[r] \in active
        /\ active' = active \ {target[r]}
    BY <1>4 DEF Finish, Pool!Complete
  <2>2. Pool!Waiting' = Pool!Waiting
    BY <2>1 DEF Pool!Waiting
  <2>3. Scheduled(r)
    BY <1>1, <1>4 DEF Scheduled, Live
  <2>4. \A x \in Run \ {r} : Scheduled(x) => target[x] # target[r]
    BY <2>3 DEF SlotInv, OneCallPerName
  <2>5. Placed'
    BY <1>1, <1>2, <2>1, <2>2, <2>4 DEF SlotInv, Placed
  <2>6. OneCallPerName'
    BY <1>1, <1>2 DEF SlotInv, OneCallPerName
  \* The freed name is not waiting as well, so nothing is left without its call.
  <2>7. Owned'
    BY <1>1, <1>2, <2>1, <2>2 DEF SlotInv, Owned, Distinct
  <2>8. Distinct'
    BY <2>1, <2>2 DEF SlotInv, Distinct
  <2> QED
    BY <2>5, <2>6, <2>7, <2>8 DEF SlotInv
<1> QED
  BY <1>3, <1>4

\* The other steps of a call.  Those that end it are not those of the queue.
LEMMA OtherStepsKeep ==
    ASSUME TypeOK, HistInv, SlotInv, NEW r \in Run, Step(r), ~Finish(r)
    PROVE  SlotInv'
<1>1. CallInv(r)
  BY DEF HistInv
<1>2. pending' = pending /\ active' = active /\ origin' = origin /\ target' = target
  BY DEF Step, StartJob, QueueBegin, Load, Admit, Execute, Release, Record, Handle,
         Answer, SetResult, Fault, AsideCheck, AsideEnd, poolVars
<1>3. \A x \in Run \ {r} : pc'[x] = pc[x]
  BY StepTouchesOne DEF Untouched
<1>4. (Live(r)' <=> Live(r)) \/ origin[r] # "queue"
  <2>1. CASE Record(r) \/ Handle(r)
    BY <2>1 DEF TypeOK, Record, Handle, WriteEntry, Goto, Live
  <2>2. CASE StartJob(r) \/ QueueBegin(r) \/ Load(r) \/ Admit(r) \/ Execute(r) \/ Release(r)
    BY <2>2 DEF TypeOK, StartJob, QueueBegin, Load, Admit, Execute, Release, Goto, Live
  <2>3. CASE Answer(r) \/ SetResult(r) \/ Fault(r)
    BY <1>1, <2>3 DEF TypeOK, CallInv, Answer, SetResult, Fault, Goto, Live
  <2>4. CASE AsideCheck(r) \/ AsideEnd(r)
    BY <1>1, <2>4 DEF TypeOK, CallInv, AsideCheck, AsideEnd, Goto, Live
  <2> QED
    BY <2>1, <2>2, <2>3, <2>4 DEF Step
<1>5. pc[r] = "waiting" => target[r] \in active
  BY DEF Step, StartJob, QueueBegin, Load, Admit, Execute, Release, Record, Handle,
         Answer, SetResult, Fault, AsideCheck, AsideEnd
<1>6. \A x \in Run : Scheduled(x)' <=> Scheduled(x)
  BY <1>2, <1>3, <1>4 DEF Scheduled, Live
<1> QED
  BY <1>2, <1>3, <1>5, <1>6, QuietKeeps

\* Requests that are not for the queue.
LEMMA OtherRequestsKeep ==
    ASSUME TypeOK, SlotInv, NEW r \in Run, NEW n \in Name,
           RequestSync(r, n) \/ RequestAsync(r, n) \/ RequestDemo(r, n) \/ RequestAside(r, n)
    PROVE  SlotInv'
<1>1. PICK o \in {"sync", "async", "demo", "aside"}, label \in {"load", "queued", "check"} :
          Begin(r, n, o, label)
  <2>1. CASE RequestSync(r, n)
    BY <2>1 DEF RequestSync
  <2>2. CASE RequestAsync(r, n)
    BY <2>2 DEF RequestAsync
  <2>3. CASE RequestDemo(r, n)
    BY <2>3 DEF RequestDemo
  <2>4. CASE RequestAside(r, n)
    BY <2>4 DEF RequestAside
  <2> QED
    BY <2>1, <2>2, <2>3, <2>4
<1>2. pending' = pending /\ active' = active
  BY DEF RequestSync, RequestAsync, RequestDemo, RequestAside, poolVars
<1>3. /\ pc[r] = "free" /\ origin'[r] # "queue"
      /\ \A x \in Run \ {r} : /\ pc'[x] = pc[x]
                              /\ origin'[x] = origin[x]
                              /\ target'[x] = target[x]
  BY <1>1 DEF TypeOK, Begin, Goto
<1>4. \A x \in Run : Scheduled(x)' <=> Scheduled(x)
  BY <1>3 DEF Scheduled, Live
<1>5. \A x \in Run : Scheduled(x) => x # r
  BY <1>3 DEF Scheduled, Live
<1> QED
  BY <1>2, <1>3, <1>4, <1>5, QuietKeeps

LEMMA SlotInit == Init => SlotInv
<1> SUFFICES ASSUME Init PROVE SlotInv
  OBVIOUS
<1>1. \A r \in Run : ~Scheduled(r)
  BY DEF Init, Scheduled
<1>2. Pool!Waiting = {} /\ active = {} /\ DOMAIN pending = {}
  BY DEF Init, Pool!Init, Pool!Waiting
<1> QED
  BY <1>1, <1>2 DEF SlotInv, Placed, OneCallPerName, Owned, Distinct

LEMMA SlotStep == IInv /\ HistInv /\ SlotInv /\ [Next]_vars => SlotInv'
<1> SUFFICES ASSUME IInv, HistInv, SlotInv, [Next]_vars PROVE SlotInv'
  OBVIOUS
<1>1. TypeOK
  BY DEF IInv
<1>2. ASSUME NEW r \in Run, Step(r)
      PROVE  SlotInv'
  BY <1>1, <1>2, FinishKeeps, OtherStepsKeep
<1>3. ASSUME NEW r \in Run, NEW n \in Name,
             RequestSync(r, n) \/ RequestAsync(r, n) \/ RequestDemo(r, n)
               \/ RequestQueue(r, n) \/ RequestAside(r, n)
      PROVE  SlotInv'
  BY <1>1, <1>3, SubmitKeeps, OtherRequestsKeep
<1>4. CASE Dispatch
  BY <1>1, <1>4, DispatchKeeps
<1>5. CASE UNCHANGED vars \/ \E n \in Name : Delete(n)
  <2>1. /\ pending' = pending /\ active' = active
        /\ pc' = pc /\ origin' = origin /\ target' = target
    BY <1>5 DEF Delete, runVars, poolVars, vars
  <2> QED
    BY <2>1, QuietKeeps DEF Scheduled, Live
<1>6. CASE Restart
  <2>1. \A r \in Run : ~Scheduled(r)'
    BY <1>1, <1>6 DEF TypeOK, Restart, Scheduled, Live
  <2>2. pending' = <<>> /\ active' = {}
    BY <1>6 DEF Restart
  <2>3. Pool!Waiting' = {} /\ DOMAIN pending' = {}
    BY <2>2 DEF Pool!Waiting
  <2> QED
    BY <2>1, <2>2, <2>3 DEF SlotInv, Placed, OneCallPerName, Owned, Distinct
<1> QED
  BY <1>2, <1>3, <1>4, <1>5, <1>6 DEF Next

\* A scheduled run works inside a slot of its own from its first step to its
\* last, and no slot outlives its run, with crashes at any point.
THEOREM SlotsAreUsed == SafeSpec => []SlotsHaveWorkers
<1>1. SlotInv => SlotsHaveWorkers
  BY DEF SlotInv, Placed, OneCallPerName, Owned, Scheduled, SlotsHaveWorkers
<1> QED
  BY <1>1, Inductive, HistoryInductive, SlotInit, SlotStep, PTL DEF SafeSpec

(***************************************************************************)
(* The limit.  Calls under way stand in slots of their own (SlotInv), so   *)
(* there are no more of them than slots.                                   *)
(***************************************************************************)
UnderWay == {r \in Run : origin[r] = "queue" /\ Live(r) /\ pc[r] # "waiting"}

SlotsWithinMax == IsFiniteSet(active) /\ Cardinality(active) <= Max

\* Dispatch is the only step that takes a slot, and it looks for a free one.
LEMMA SlotsCounted == SlotsWithinMax /\ [Next]_vars => SlotsWithinMax'
<1> SUFFICES ASSUME SlotsWithinMax, [Next]_vars PROVE SlotsWithinMax'
  OBVIOUS
<1>1. CASE Dispatch
  <2>0. Pool!Cardinality(active) = Cardinality(active)
    BY DEF Pool!Cardinality, Cardinality
  <2>1. Cardinality(active) < Max /\ active' = active \cup {Head(pending)}
    BY <1>1, <2>0 DEF Dispatch, Pool!Dispatch
  <2>2. /\ IsFiniteSet(active')
        /\ Cardinality(active') \in {Cardinality(active), Cardinality(active) + 1}
    BY <2>1, FS_AddElement DEF SlotsWithinMax
  <2>3. Cardinality(active) \in Nat
    BY FS_CardinalityType DEF SlotsWithinMax
  <2> QED
    BY <2>1, <2>2, <2>3, BoundsAssumption DEF SlotsWithinMax
<1>2. CASE active' \subseteq active
  <2>1. IsFiniteSet(active') /\ Cardinality(active') <= Cardinality(active)
    BY <1>2, FS_Subset DEF SlotsWithinMax
  <2>2. Cardinality(active') \in Nat /\ Cardinality(active) \in Nat
    BY <2>1, FS_CardinalityType DEF SlotsWithinMax
  <2> QED
    BY <2>1, <2>2, BoundsAssumption DEF SlotsWithinMax
<1>3. Dispatch \/ active' \subseteq active
  <2>1. ASSUME NEW r \in Run, Step(r) PROVE active' \subseteq active
    BY <2>1 DEF Step, StartJob, QueueBegin, Load, Admit, Execute, Release, Record, Handle,
                Answer, SetResult, Fault, Finish, Pool!Complete, AsideCheck, AsideEnd, poolVars
  <2>2. ASSUME NEW r \in Run, NEW n \in Name,
               RequestSync(r, n) \/ RequestAsync(r, n) \/ RequestDemo(r, n)
                 \/ RequestQueue(r, n) \/ RequestAside(r, n)
        PROVE  active' \subseteq active
    BY <2>2 DEF RequestSync, RequestAsync, RequestDemo, RequestQueue, Pool!Submit,
                RequestAside, poolVars
  <2>3. CASE UNCHANGED vars \/ Restart \/ \E n \in Name : Delete(n)
    BY <2>3 DEF vars, Restart, Delete, poolVars
  <2> QED
    BY <2>1, <2>2, <2>3 DEF Next
<1> QED
  BY <1>1, <1>2, <1>3

\* Two calls under way have two slots.
LEMMA SlotEach == SlotInv /\ SlotsWithinMax => ScheduledWithinLimit
<1> SUFFICES ASSUME SlotInv, SlotsWithinMax PROVE Cardinality(UnderWay) <= Max
  BY DEF ScheduledWithinLimit, UnderWay
<1>1. IsFiniteSet(UnderWay)
  BY RunAssumption, FS_Subset DEF UnderWay
<1>2. Cardinality(UnderWay) \in Nat /\ Cardinality(active) \in Nat
  BY <1>1, FS_CardinalityType DEF SlotsWithinMax
<1>3. \A r \in UnderWay : Scheduled(r) /\ target[r] \in active
  BY DEF UnderWay, Scheduled, SlotInv, Placed
<1> DEFINE slot == [r \in UnderWay |-> target[r]]
<1>4. slot \in [UnderWay -> active]
  BY <1>3
<1>5. \A r, s \in UnderWay : slot[r] = slot[s] => r = s
  BY <1>3 DEF UnderWay, SlotInv, OneCallPerName
<1> HIDE DEF slot
<1>6. ASSUME Cardinality(active) < Cardinality(UnderWay) PROVE FALSE
  <2>1. IsFiniteSet(active)
    BY DEF SlotsWithinMax
  <2>2. \E r, s \in UnderWay : r # s /\ slot[r] = slot[s]
    BY <1>1, <1>4, <1>6, <2>1, FS_PigeonHole
  <2> QED
    BY <1>5, <2>2
<1> QED
  BY <1>2, <1>6, BoundsAssumption DEF SlotsWithinMax

\* The limit holds among the scheduled runs, whatever manual calls run beside
\* them, for every limit, with crashes at any point.
THEOREM LimitKept == SafeSpec => []ScheduledWithinLimit
<1>1. Init => SlotsWithinMax
  BY FS_EmptySet, BoundsAssumption DEF Init, Pool!Init, SlotsWithinMax
<1> QED
  BY <1>1, SlotsCounted, SlotEach, Inductive, HistoryInductive, SlotInit, SlotStep, PTL
  DEF SafeSpec

-----------------------------------------------------------------------------
(* The ledger.  RunService keeps RunLedger: a step of a call is one step of  *)
(* the ledger for that call, or none.                                      *)

\* Recovery and preview stay apart from the runs, and a job is only told of an
\* error over a result when the write of that result was lost.
Apart(r) == /\ origin[r] = "aside" => pc[r] \in {"check", "touch", "done", "lost"}
            /\ pc[r] = "fault" /\ HasResult(r) => r \in dropped

ApartInv == \A r \in Run : Apart(r)

LEMMA ApartInit == Init => ApartInv
  BY DEF Init, ApartInv, Apart, HasResult

LEMMA ApartStep == TypeOK /\ HistInv /\ ApartInv /\ [Next]_vars => ApartInv'
<1> SUFFICES ASSUME TypeOK, HistInv, ApartInv, [Next]_vars, NEW x \in Run
             PROVE  Apart(x)'
  BY DEF ApartInv
<1>1. Apart(x) /\ CallInv(x)
  BY DEF ApartInv, HistInv
<1>2. ASSUME NEW r \in Run, Step(r)
      PROVE  Apart(x)'
  <2>1. CASE x # r
    BY <1>1, <1>2, <2>1, StepTouchesOne DEF Untouched, Apart, HasResult
  <2>2. CASE x = r /\ (Record(r) \/ Handle(r))
    BY <1>1, <2>2 DEF TypeOK, Apart, CallInv, Record, Handle, WriteEntry, Goto, HasResult
  <2>3. CASE x = r /\ (StartJob(r) \/ QueueBegin(r) \/ Load(r) \/ Admit(r) \/ Execute(r)
                         \/ Release(r))
    BY <1>1, <2>3 DEF TypeOK, Apart, StartJob, QueueBegin, Load, Admit, Execute, Release,
                      Goto, HasResult
  <2>4. CASE x = r /\ (Answer(r) \/ SetResult(r) \/ Fault(r) \/ Finish(r)
                         \/ AsideCheck(r) \/ AsideEnd(r))
    BY <1>1, <2>4 DEF TypeOK, Apart, Answer, SetResult, Fault, Finish, AsideCheck, AsideEnd,
                      Goto, HasResult
  <2> QED
    BY <1>2, <2>1, <2>2, <2>3, <2>4 DEF Step
<1>3. ASSUME NEW r \in Run, NEW n \in Name,
             RequestSync(r, n) \/ RequestAsync(r, n) \/ RequestDemo(r, n)
               \/ RequestQueue(r, n) \/ RequestAside(r, n)
      PROVE  Apart(x)'
  BY <1>1, <1>3 DEF TypeOK, Apart, RequestSync, RequestAsync, RequestDemo, RequestQueue,
                    RequestAside, Begin, Goto, HasResult
<1>4. CASE Dispatch \/ UNCHANGED vars \/ \E n \in Name : Delete(n)
  BY <1>1, <1>4 DEF Apart, Dispatch, Delete, runVars, vars, HasResult
<1>5. CASE Restart
  BY <1>1, <1>5 DEF TypeOK, Apart, Restart, Live, HasResult
<1> QED
  BY <1>2, <1>3, <1>4, <1>5 DEF Next

\* What the ledger has of x stays.
SamePage(x) ==
    /\ Stage'[x] = Stage[x]
    /\ Subject'[x] = Subject[x]
    /\ Verdict'[x] = Verdict[x]
    /\ history'[x] = history[x]
    /\ x \in dropped' <=> x \in dropped
    /\ Told'[x] = Told[x]

LEMMA UntouchedPage ==
    ASSUME NEW x \in Run, Untouched(x), target'[x] = target[x]
    PROVE  SamePage(x)
  BY DEF Untouched, SamePage, Stage, Subject, Verdict, Told, NoRun, Loading

\* Functions of one domain that agree, everywhere or but in one place.
LEMMA Agree ==
    ASSUME NEW S, NEW f, NEW g, f = [x \in S |-> f[x]], g = [x \in S |-> g[x]]
    PROVE  /\ (\A x \in S : g[x] = f[x]) => g = f
           /\ \A r \in S : (\A x \in S \ {r} : g[x] = f[x]) => g = [f EXCEPT ![r] = g[r]]
  OBVIOUS

LEMMA Columns ==
    /\ Stage = [x \in Run |-> Stage[x]]
    /\ Subject = [x \in Run |-> Subject[x]]
    /\ Verdict = [x \in Run |-> Verdict[x]]
    /\ Told = [x \in Run |-> Told[x]]
<1>1. Stage = [x \in Run |-> Stage[x]]
  BY DEF Stage
<1>2. Subject = [x \in Run |-> Subject[x]]
  BY DEF Subject
<1>3. Verdict = [x \in Run |-> Verdict[x]]
  BY DEF Verdict
<1>4. Told = [x \in Run |-> Told[x]]
  BY DEF Told
<1> QED
  BY <1>1, <1>2, <1>3, <1>4

LEMMA ColumnsAfter ==
    /\ Stage' = [x \in Run |-> Stage'[x]]
    /\ Subject' = [x \in Run |-> Subject'[x]]
    /\ Verdict' = [x \in Run |-> Verdict'[x]]
    /\ Told' = [x \in Run |-> Told'[x]]
<1>1. Stage' = [x \in Run |-> Stage'[x]]
  BY DEF Stage
<1>2. Subject' = [x \in Run |-> Subject'[x]]
  BY DEF Subject
<1>3. Verdict' = [x \in Run |-> Verdict'[x]]
  BY DEF Verdict
<1>4. Told' = [x \in Run |-> Told'[x]]
  BY DEF Told
<1> QED
  BY <1>1, <1>2, <1>3, <1>4

LEMMA PagesKept ==
    ASSUME TypeOK, TypeOK', \A x \in Run : SamePage(x)
    PROVE  UNCHANGED Ledger!vars
<1>1. Stage' = Stage
  BY Columns, ColumnsAfter, Agree DEF SamePage
<1>2. Subject' = Subject
  BY Columns, ColumnsAfter, Agree DEF SamePage
<1>3. Verdict' = Verdict
  BY Columns, ColumnsAfter, Agree DEF SamePage
<1>4. Told' = Told
  BY Columns, ColumnsAfter, Agree DEF SamePage
<1>5. history' = history
  BY DEF SamePage, TypeOK
<1>6. dropped' = dropped
  BY DEF SamePage, TypeOK
<1> QED
  BY <1>1, <1>2, <1>3, <1>4, <1>5, <1>6 DEF Ledger!vars

\* A step of r writes on the page of r only, and keeps what it does not change.
LEMMA OnePage ==
    ASSUME TypeOK, TypeOK', NEW r \in Run, \A x \in Run \ {r} : SamePage(x)
    PROVE  /\ Stage' = [Stage EXCEPT ![r] = Stage'[r]]
           /\ Subject' = [Subject EXCEPT ![r] = Subject'[r]]
           /\ Verdict' = [Verdict EXCEPT ![r] = Verdict'[r]]
           /\ history' = [history EXCEPT ![r] = history'[r]]
           /\ Told' = [Told EXCEPT ![r] = Told'[r]]
           /\ Stage'[r] = Stage[r] => Stage' = Stage
           /\ Subject'[r] = Subject[r] => Subject' = Subject
           /\ Verdict'[r] = Verdict[r] => Verdict' = Verdict
           /\ history'[r] = history[r] => history' = history
           /\ Told'[r] = Told[r] => Told' = Told
           /\ (r \in dropped' <=> r \in dropped) => dropped' = dropped
           /\ r \in dropped' => dropped' = dropped \cup {r}
<1>1. /\ Stage' = [Stage EXCEPT ![r] = Stage'[r]]
      /\ Stage'[r] = Stage[r] => Stage' = Stage
  BY Columns, ColumnsAfter, Agree DEF SamePage
<1>2. /\ Subject' = [Subject EXCEPT ![r] = Subject'[r]]
      /\ Subject'[r] = Subject[r] => Subject' = Subject
  BY Columns, ColumnsAfter, Agree DEF SamePage
<1>3. /\ Verdict' = [Verdict EXCEPT ![r] = Verdict'[r]]
      /\ Verdict'[r] = Verdict[r] => Verdict' = Verdict
  BY Columns, ColumnsAfter, Agree DEF SamePage
<1>4. /\ Told' = [Told EXCEPT ![r] = Told'[r]]
      /\ Told'[r] = Told[r] => Told' = Told
  BY Columns, ColumnsAfter, Agree DEF SamePage
<1>5. /\ history' = [history EXCEPT ![r] = history'[r]]
      /\ history'[r] = history[r] => history' = history
  BY DEF SamePage, TypeOK
<1>6. /\ (r \in dropped' <=> r \in dropped) => dropped' = dropped
      /\ r \in dropped' => dropped' = dropped \cup {r}
  <2>1. dropped \subseteq Run /\ dropped' \subseteq Run
    BY DEF TypeOK
  <2>2. \A x \in Run \ {r} : x \in dropped' <=> x \in dropped
    BY DEF SamePage
  <2> QED
    BY <2>1, <2>2
<1> QED
  BY <1>1, <1>2, <1>3, <1>4, <1>5, <1>6

\* Where a call stands and what the ledger has of it.
Shown(r) ==
    /\ NoRun(r) => Stage[r] = "new"
    /\ ~NoRun(r) /\ pc[r] \in {"queued", "waiting", "load", "admit"} => Stage[r] = "open"
    /\ ~NoRun(r) /\ Loading(r) => Stage[r] = "loading"
    /\ ~NoRun(r) /\ pc[r] = "done" => Stage[r] = "closed"
    /\ ~NoRun(r) /\ pc[r] = "lost" => Stage[r] = "gone"
    /\ ~NoRun(r) /\ pc[r] \in {"record", "except", "answer", "result", "fault", "finish"}
         => Stage[r] = "ended"
    /\ Subject[r] = IF NoRun(r) THEN NoName ELSE target[r]
    /\ outcome[r] = "ok" <=> Verdict[r] = "ok"
    /\ outcome[r] \in {"none", "missing", "busy"} => Verdict[r] = "none"
    /\ outcome[r] \in {"failed", "raised"} => Verdict[r] = "bad"
    /\ outcome[r] = "keyerror" => Verdict[r] = IF origin[r] = "sync" THEN "unseen" ELSE "bad"
    /\ job[r].status \in {"done", "error"} => Told[r] = job[r].status
    /\ job[r].status \notin {"done", "error"} => Told[r] = "none"

LEMMA Page == \A r \in Run : Shown(r)
<1> SUFFICES ASSUME NEW r \in Run PROVE Shown(r)
  OBVIOUS
<1>1. /\ NoRun(r) => Stage[r] = "new"
      /\ ~NoRun(r) /\ pc[r] \in {"queued", "waiting", "load", "admit"} => Stage[r] = "open"
      /\ ~NoRun(r) /\ Loading(r) => Stage[r] = "loading"
  BY DEF Stage, Loading
<1>2. /\ ~NoRun(r) /\ pc[r] = "done" => Stage[r] = "closed"
      /\ ~NoRun(r) /\ pc[r] = "lost" => Stage[r] = "gone"
  BY DEF Stage, Loading
<1>3. ~NoRun(r) /\ pc[r] \in {"record", "except", "answer", "result", "fault", "finish"}
        => Stage[r] = "ended"
  BY DEF Stage, Loading
<1>4. Subject[r] = IF NoRun(r) THEN NoName ELSE target[r]
  BY DEF Subject
<1>5. /\ outcome[r] = "ok" <=> Verdict[r] = "ok"
      /\ outcome[r] \in {"none", "missing", "busy"} => Verdict[r] = "none"
      /\ outcome[r] \in {"failed", "raised"} => Verdict[r] = "bad"
      /\ outcome[r] = "keyerror" => Verdict[r] = IF origin[r] = "sync" THEN "unseen" ELSE "bad"
  BY DEF Verdict
<1>6. /\ job[r].status \in {"done", "error"} => Told[r] = job[r].status
      /\ job[r].status \notin {"done", "error"} => Told[r] = "none"
  BY DEF Told
<1> QED
  BY <1>1, <1>2, <1>3, <1>4, <1>5, <1>6 DEF Shown

LEMMA PageAfter == (\A r \in Run : Shown(r))'
  BY Page, PTL

\* One attempt to write, on the ledger.
LEMMA WriteOnLedger ==
    ASSUME TypeOK, TypeOK', NEW r \in Run, \A x \in Run \ {r} : SamePage(x),
           NEW e \in {"ok", "fail"}, NEW after, NEW broken,
           history[r] = <<>>, WriteEntry(r, e, after, broken),
           Ledger!True(r, e),
           Stage[r] = "ended", Stage'[r] = "ended", Told[r] = "none",
           Subject'[r] = Subject[r], Verdict'[r] = Verdict[r], Told'[r] = Told[r]
    PROVE  Ledger!Write(r) \/ Ledger!LoseWrite(r)
<1>1. Stage' = Stage /\ Subject' = Subject /\ Verdict' = Verdict /\ Told' = Told
  BY OnePage
<1>2. CASE history'[r] = <<e>> /\ dropped' = dropped
  <2>1. history' = [history EXCEPT ![r] = <<e>>]
    BY <1>2, OnePage
  <2> QED
    BY <1>1, <1>2, <2>1 DEF Ledger!Write
<1>3. CASE history'[r] = <<>> /\ r \in dropped'
  <2>1. history' = history /\ dropped' = dropped \cup {r}
    BY <1>3, OnePage
  <2> QED
    BY <1>1, <2>1 DEF Ledger!LoseWrite
<1> QED
  BY <1>2, <1>3, Attempt

\* Each step of a call is a step of the ledger for that call, or none.
LEMMA StepOnLedger ==
    ASSUME TypeOK, TypeOK', HasTarget, OneLoadPerPipeline, HistInv, HistInv', ApartInv,
           NEW r \in Run, Step(r)
    PROVE  [Ledger!Next]_(Ledger!vars)
<1>1. CallInv(r) /\ Apart(r)
  BY DEF HistInv, ApartInv
<1>2. origin' = origin /\ target' = target /\ pc[r] # "free"
  BY DEF Step, StartJob, QueueBegin, Load, Admit, Execute, Release, Record,
         Handle, Answer, SetResult, Fault, Finish, AsideCheck, AsideEnd
<1>3. \A x \in Run \ {r} : SamePage(x)
  BY <1>2, StepTouchesOne, UntouchedPage
<1>4. SamePage(r) => UNCHANGED Ledger!vars
  BY <1>3, PagesKept
<1>5. target[r] \in Name
  BY <1>2 DEF HasTarget
<1>6. pc'[r] # "free"
  BY <1>2 DEF TypeOK, Step, StartJob, QueueBegin, Load, Admit, Execute, Release, Record,
         Handle, Answer, SetResult, Fault, Finish, AsideCheck, AsideEnd, WriteEntry, Goto
<1>7. /\ NoRun(r)' <=> NoRun(r)
      /\ NoRun(r) <=> origin[r] = "aside"
      /\ Subject'[r] = Subject[r]
  BY <1>2, <1>6 DEF NoRun, Subject
<1>8. Shown(r) /\ Shown(r)'
  BY Page, PageAfter
<1> USE DEF Goto
<1>9. CASE StartJob(r)
  <2>1. pc[r] = "queued" /\ pc'[r] = "load" /\ job'[r].status = "running"
    BY <1>9 DEF StartJob, TypeOK
  <2>2. history' = history /\ dropped' = dropped /\ outcome' = outcome
    BY <1>9 DEF StartJob
  <2> QED
    BY <1>1, <1>2, <1>4, <1>7, <1>8, <2>1, <2>2 DEF SamePage, Shown, CallInv, Verdict
<1>10. CASE QueueBegin(r)
  <2>1. /\ pc[r] = "waiting" /\ pc'[r] \in {"load", "finish"}
        /\ history' = history /\ dropped' = dropped /\ outcome' = outcome /\ job' = job
    BY <1>10 DEF QueueBegin, TypeOK
  <2>2. Verdict' = Verdict /\ Told' = Told
    BY <1>2, <2>1 DEF Verdict, Told
  <2>3. CASE pc'[r] = "load"
    BY <1>4, <1>7, <1>8, <2>1, <2>2, <2>3 DEF SamePage, Shown
  <2>4. CASE pc'[r] = "finish"
    <3>1. ~NoRun(r) /\ Stage[r] = "open" /\ Stage'[r] = "ended"
      BY <1>1, <1>7, <1>8, <2>1, <2>4 DEF Shown, CallInv
    <3>2. Stage' = [Stage EXCEPT ![r] = "ended"] /\ Subject' = Subject
      BY <1>3, <1>7, <3>1, OnePage
    <3> QED
      BY <2>1, <2>2, <3>1, <3>2 DEF Ledger!Next, Ledger!Refuse, Ledger!Advance
  <2> QED
    BY <2>1, <2>3, <2>4
\* From here on a step of the load path is not one of recovery or preview.
<1>11. ASSUME pc[r] \in {"load", "admit", "execute", "release", "record", "except", "answer",
                         "result", "fault", "finish"}
       PROVE  ~NoRun(r)
  BY <1>1, <1>7, <1>11 DEF Apart
<1>12. CASE Load(r)
  <2>1. /\ pc[r] = "load" /\ outcome[r] = "none"
        /\ \/ pc'[r] = "admit" /\ outcome'[r] = "none"
           \/ pc'[r] = "except" /\ outcome'[r] \in {"missing", "raised"}
        /\ history' = history /\ dropped' = dropped /\ job' = job
    BY <1>1, <1>12 DEF Load, TypeOK, CallInv
  <2>2. Told' = Told
    BY <2>1 DEF Told
  <2>3. CASE pc'[r] = "admit"
    BY <1>4, <1>7, <1>8, <1>11, <2>1, <2>2, <2>3 DEF SamePage, Shown
  <2>4. CASE pc'[r] = "except"
    <3>1. /\ Stage[r] = "open" /\ Stage'[r] = "ended"
          /\ Verdict[r] = "none" /\ Verdict'[r] \in {"none", "bad"}
      BY <1>7, <1>8, <1>11, <2>1, <2>4 DEF Shown
    <3>2. /\ Stage' = [Stage EXCEPT ![r] = "ended"] /\ Subject' = Subject
          /\ Verdict' = Verdict \/ Verdict' = [Verdict EXCEPT ![r] = "bad"]
      BY <1>3, <1>7, <3>1, OnePage
    <3> QED
      BY <2>1, <2>2, <3>1, <3>2 DEF Ledger!Next, Ledger!Refuse, Ledger!Advance
  <2> QED
    BY <2>1, <2>3, <2>4
<1>13. CASE Admit(r)
  <2>1. /\ pc[r] = "admit" /\ outcome[r] = "none"
        /\ history' = history /\ dropped' = dropped /\ job' = job
    BY <1>1, <1>13 DEF Admit, CallInv
  <2>2. Told' = Told
    BY <2>1 DEF Told
  <2>3. CASE target[r] \in guard
    <3>1. pc'[r] = "except" /\ outcome'[r] = "busy"
      BY <1>13, <2>3 DEF Admit, TypeOK
    <3>2. /\ Stage[r] = "open" /\ Stage'[r] = "ended"
          /\ Verdict[r] = "none" /\ Verdict'[r] = "none"
      BY <1>7, <1>8, <1>11, <2>1, <3>1 DEF Shown
    <3>3. /\ Stage' = [Stage EXCEPT ![r] = "ended"]
          /\ Subject' = Subject /\ Verdict' = Verdict
      BY <1>3, <1>7, <3>2, OnePage
    <3> QED
      BY <2>1, <2>2, <3>2, <3>3 DEF Ledger!Next, Ledger!Refuse, Ledger!Advance
  <2>4. CASE target[r] \notin guard
    <3>1. pc'[r] = "execute" /\ outcome' = outcome
      BY <1>13, <2>4 DEF Admit, TypeOK
    <3>2. Stage[r] = "open" /\ Stage'[r] = "loading" /\ Verdict'[r] = Verdict[r]
      BY <1>2, <1>7, <1>8, <1>11, <2>1, <3>1 DEF Shown, Loading
    <3>3. /\ Stage' = [Stage EXCEPT ![r] = "loading"]
          /\ Subject' = Subject /\ Verdict' = Verdict
      BY <1>3, <1>7, <3>2, OnePage
    \* The guard has the pipeline of every load, so none loads this one.
    <3>4. \A d \in Run : Stage[d] = "loading" => Subject[d] # Subject[r]
      <4> SUFFICES ASSUME NEW d \in Run, Stage[d] = "loading" PROVE Subject[d] # Subject[r]
        OBVIOUS
      <4>1. Loading(d) /\ Subject[d] = target[d]
        BY Page DEF Shown, Stage, TypeOK
      <4>2. target[d] \in guard
        BY <4>1 DEF OneLoadPerPipeline
      <4>3. Subject[r] = target[r]
        BY <1>8, <1>11, <2>1 DEF Shown
      <4> QED
        BY <2>4, <4>1, <4>2, <4>3
    <3> QED
      BY <2>1, <2>2, <3>2, <3>3, <3>4 DEF Ledger!Next, Ledger!Start, Ledger!Advance
  <2> QED
    BY <2>3, <2>4
<1>14. CASE Execute(r)
  <2>1. /\ pc[r] = "execute" /\ pc'[r] = "release" /\ outcome[r] = "none"
        /\ outcome'[r] \in {"ok", "failed", "raised", "keyerror"}
        /\ history' = history /\ dropped' = dropped /\ job' = job
    BY <1>1, <1>14 DEF Execute, TypeOK, CallInv
  <2>2. Told' = Told
    BY <2>1 DEF Told
  <2>3. /\ Stage[r] = "loading" /\ Stage'[r] = "loading"
        /\ Verdict[r] = "none" /\ Verdict'[r] \in {"ok", "bad", "unseen"}
    BY <1>7, <1>8, <1>11, <2>1 DEF Shown, Loading
  <2>4. /\ Stage' = Stage /\ Subject' = Subject
        /\ Verdict' = [Verdict EXCEPT ![r] = Verdict'[r]]
    BY <1>3, <1>7, <2>3, OnePage
  <2> QED
    BY <2>1, <2>2, <2>3, <2>4 DEF Ledger!Next, Ledger!End
<1>15. CASE Release(r)
  <2>1. /\ pc[r] = "release" /\ pc'[r] \in {"record", "except"}
        /\ outcome[r] \in {"ok", "failed", "raised", "keyerror"}
        /\ history' = history /\ dropped' = dropped /\ job' = job /\ outcome' = outcome
    BY <1>1, <1>15 DEF Release, TypeOK, CallInv
  <2>2. Told' = Told /\ Verdict' = Verdict
    BY <1>2, <2>1 DEF Told, Verdict
  <2>3. Stage[r] = "loading" /\ Stage'[r] = "ended" /\ Verdict[r] # "none"
    BY <1>7, <1>8, <1>11, <2>1 DEF Shown, Loading
  <2>4. Stage' = [Stage EXCEPT ![r] = "ended"] /\ Subject' = Subject
    BY <1>3, <1>7, <2>3, OnePage
  <2> QED
    BY <2>1, <2>2, <2>3, <2>4 DEF Ledger!Next, Ledger!Leave, Ledger!Advance
<1>16. CASE Record(r)
  <2>1. /\ pc[r] = "record" /\ history[r] = <<>> /\ HasResult(r)
        /\ pc'[r] \in {"answer", "except", "finish"}
        /\ outcome' = outcome /\ job' = job /\ job[r].status \notin {"done", "error"}
    BY <1>1, <1>16 DEF Record, WriteEntry, TypeOK, CallInv
  <2>2. Told' = Told /\ Verdict' = Verdict
    BY <1>2, <2>1 DEF Told, Verdict
  <2>3. Stage[r] = "ended" /\ Stage'[r] = "ended" /\ Told[r] = "none"
    BY <1>7, <1>8, <1>11, <2>1 DEF Shown
  <2>4. Entry(r) \in {"ok", "fail"} /\ Ledger!True(r, Entry(r))
    BY <1>8, <2>1 DEF Entry, HasResult, Shown, Ledger!True
  <2>5. \E after, broken : WriteEntry(r, Entry(r), after, broken)
    BY <1>16 DEF Record
  <2>6. Ledger!Write(r) \/ Ledger!LoseWrite(r)
    BY <1>3, <1>7, <2>1, <2>2, <2>3, <2>4, <2>5, WriteOnLedger
  <2> QED
    BY <2>6 DEF Ledger!Next
<1>17. CASE Handle(r)
  <2>1. /\ pc[r] = "except" /\ history[r] = <<>> /\ (HasResult(r) => r \in dropped)
        /\ pc'[r] \in {"fault", "finish"}
        /\ outcome' = outcome /\ job' = job /\ job[r].status \notin {"done", "error"}
    BY <1>1, <1>17 DEF Handle, WriteEntry, TypeOK, CallInv
  <2>2. Told' = Told /\ Verdict' = Verdict
    BY <1>2, <2>1 DEF Told, Verdict
  <2>3. Stage[r] = "ended" /\ Stage'[r] = "ended" /\ Told[r] = "none"
    BY <1>7, <1>8, <1>11, <2>1 DEF Shown
  <2>4. CASE NotAFailure(r)
    <3>1. history' = history /\ dropped' = dropped
      BY <1>17, <2>4 DEF Handle
    <3> QED
      BY <1>4, <1>7, <2>2, <2>3, <3>1 DEF SamePage
  <2>5. CASE ~NotAFailure(r)
    <3>1. Ledger!True(r, "fail")
      BY <1>8, <2>1 DEF HasResult, Shown, Ledger!True
    <3>2. \E after, broken : WriteEntry(r, "fail", after, broken)
      BY <1>17, <2>5 DEF Handle
    <3>3. Ledger!Write(r) \/ Ledger!LoseWrite(r)
      BY <1>3, <1>7, <2>1, <2>2, <2>3, <3>1, <3>2, WriteOnLedger
    <3> QED
      BY <3>3 DEF Ledger!Next
  <2> QED
    BY <2>4, <2>5
<1>18. CASE Answer(r)
  <2>1. /\ pc[r] = "answer" /\ pc'[r] = "result" /\ HasResult(r) /\ Accounted(r)
        /\ job'[r].status = "done"
        /\ history' = history /\ dropped' = dropped /\ outcome' = outcome
    BY <1>1, <1>18 DEF Answer, TypeOK, CallInv
  <2>2. Verdict' = Verdict
    BY <1>2, <2>1 DEF Verdict
  <2>3. /\ Stage[r] = "ended" /\ Stage'[r] = "ended"
        /\ Verdict[r] \in {"ok", "bad"} /\ Told'[r] = "done"
    BY <1>7, <1>8, <1>11, <2>1 DEF Shown, HasResult
  <2>4. Stage' = Stage /\ Subject' = Subject /\ Told' = [Told EXCEPT ![r] = "done"]
    BY <1>3, <1>7, <2>3, OnePage
  <2> QED
    BY <2>1, <2>2, <2>3, <2>4 DEF Ledger!Next, Ledger!Answer, Ledger!Accounted
<1>19. CASE SetResult(r) \/ Finish(r)
  <2>1. /\ pc[r] \in {"result", "finish"} /\ pc'[r] = "done"
        /\ job'[r].status = job[r].status
        /\ history' = history /\ dropped' = dropped /\ outcome' = outcome
    BY <1>19 DEF SetResult, Finish, TypeOK
  <2>2. Verdict' = Verdict
    BY <1>2, <2>1 DEF Verdict
  <2>3. Stage[r] = "ended" /\ Stage'[r] = "closed" /\ Told'[r] = Told[r]
    BY <1>7, <1>8, <1>11, <2>1 DEF Shown
  <2>4. Verdict[r] \in {"ok", "bad"} => Accounted(r)
    BY <1>1, <1>8, <2>1 DEF Shown, CallInv, NotAFailure
  <2>5. Stage' = [Stage EXCEPT ![r] = "closed"] /\ Subject' = Subject /\ Told' = Told
    BY <1>3, <1>7, <2>3, OnePage
  <2> QED
    BY <2>1, <2>2, <2>3, <2>4, <2>5 DEF Ledger!Next, Ledger!Close, Ledger!Advance, Ledger!Accounted
<1>20. CASE Fault(r)
  <2>1. /\ pc[r] = "fault" /\ pc'[r] = "done"
        /\ job[r].status \notin {"done", "error"} /\ job'[r].status = "error"
        /\ history' = history /\ dropped' = dropped /\ outcome' = outcome
    BY <1>1, <1>20 DEF Fault, TypeOK, CallInv
  <2>2. Verdict' = Verdict
    BY <1>2, <2>1 DEF Verdict
  <2>3. Stage[r] = "ended" /\ Stage'[r] = "closed" /\ Told[r] = "none" /\ Told'[r] = "error"
    BY <1>7, <1>8, <1>11, <2>1 DEF Shown
  <2>4. /\ Verdict[r] \in {"ok", "bad"} => Accounted(r)
        /\ Verdict[r] = "ok" => r \in dropped
    BY <1>1, <1>8, <2>1 DEF Shown, CallInv, Apart, HasResult
  <2>5. /\ Stage' = [Stage EXCEPT ![r] = "closed"] /\ Subject' = Subject
        /\ Told' = [Told EXCEPT ![r] = "error"]
    BY <1>3, <1>7, <2>3, OnePage
  <2> QED
    BY <2>1, <2>2, <2>3, <2>4, <2>5 DEF Ledger!Next, Ledger!Close, Ledger!Advance, Ledger!Accounted
<1>21. CASE AsideCheck(r) \/ AsideEnd(r)
  <2>1. /\ pc[r] \in {"check", "touch"} /\ pc'[r] \in {"touch", "done"}
        /\ history' = history /\ dropped' = dropped /\ outcome' = outcome /\ job' = job
    BY <1>21 DEF AsideCheck, AsideEnd, TypeOK
  <2>2. Verdict' = Verdict /\ Told' = Told
    BY <1>2, <2>1 DEF Verdict, Told
  <2>3. NoRun(r)
    BY <1>1, <1>7, <2>1 DEF CallInv
  <2> QED
    BY <1>4, <1>7, <1>8, <2>1, <2>2, <2>3 DEF SamePage, Shown
<1> QED
  BY <1>9, <1>10, <1>12, <1>13, <1>14, <1>15, <1>16, <1>17, <1>18, <1>19, <1>20, <1>21 DEF Step

\* A request opens a page, unless it is for recovery or the preview.
LEMMA RequestOnLedger ==
    ASSUME TypeOK, TypeOK', HistInv, NEW r \in Run, NEW n \in Name,
           RequestSync(r, n) \/ RequestAsync(r, n) \/ RequestDemo(r, n)
             \/ RequestQueue(r, n) \/ RequestAside(r, n)
    PROVE  [Ledger!Next]_(Ledger!vars)
<1>1. PICK o \in {"sync", "async", "queue", "demo", "aside"},
           label \in {"load", "queued", "waiting", "check"} : Begin(r, n, o, label)
  BY DEF RequestSync, RequestAsync, RequestDemo, RequestQueue, RequestAside
<1>2. /\ pc[r] = "free" /\ pc'[r] = label
      /\ origin'[r] = o /\ target'[r] = n
      /\ outcome' = outcome /\ history' = history /\ dropped' = dropped
      /\ \A x \in Run \ {r} : /\ pc'[x] = pc[x]
                              /\ origin'[x] = origin[x]
                              /\ target'[x] = target[x]
  BY <1>1 DEF TypeOK, Begin, Goto
<1>3. label = "check" => o = "aside"
  BY <1>2 DEF TypeOK, Begin, Goto, RequestSync, RequestAsync, RequestDemo, RequestQueue,
              RequestAside
<1>4. /\ \A x \in Run \ {r} : job'[x] = job[x]
      /\ job'[r].status \in {job[r].status, "queued"}
  BY DEF TypeOK, RequestSync, RequestAsync, RequestDemo, RequestQueue, RequestAside
<1>5. \A x \in Run \ {r} : SamePage(x)
  BY <1>2, <1>4, UntouchedPage DEF Untouched
<1>6. Shown(r) /\ Shown(r)'
  BY Page, PageAfter
<1>7. /\ NoRun(r) /\ (NoRun(r)' <=> o = "aside")
      /\ outcome[r] = "none" /\ job[r].status \notin {"done", "error"}
  BY <1>2 DEF NoRun, HistInv, CallInv
<1>8. Stage[r] = "new" /\ Verdict'[r] = Verdict[r] /\ Told'[r] = Told[r]
  BY <1>2, <1>4, <1>6, <1>7 DEF Shown
<1>9. CASE o = "aside"
  <2>1. Stage'[r] = Stage[r] /\ Subject'[r] = Subject[r]
    BY <1>6, <1>7, <1>9 DEF Shown
  <2>2. \A x \in Run : SamePage(x)
    BY <1>2, <1>5, <1>8, <2>1 DEF SamePage
  <2> QED
    BY <2>2, PagesKept
<1>10. CASE o # "aside"
  <2>1. Stage'[r] = "open" /\ Subject'[r] = n
    BY <1>2, <1>3, <1>6, <1>7, <1>10 DEF Shown
  <2>2. /\ Stage' = [Stage EXCEPT ![r] = "open"] /\ Subject' = [Subject EXCEPT ![r] = n]
        /\ Verdict' = Verdict /\ Told' = Told
    BY <1>5, <1>8, <2>1, OnePage
  <2> QED
    BY <1>2, <1>8, <2>2 DEF Ledger!Next, Ledger!Open, Ledger!Advance
<1> QED
  BY <1>9, <1>10

\* A crash leaves the pages as they are, and closes none.
LEMMA CrashOnLedger ==
    ASSUME TypeOK, Restart
    PROVE  Ledger!Crash
<1>1. /\ origin' = origin /\ target' = target /\ outcome' = outcome
      /\ history' = history /\ dropped' = dropped
      /\ \A x \in Run : /\ pc'[x] = IF Live(x) THEN "lost" ELSE pc[x]
                        /\ job'[x].status = "none"
  BY DEF TypeOK, Restart, NoJob
<1>2. \A x \in Run : NoRun(x)' <=> NoRun(x)
  BY <1>1 DEF NoRun, Live
<1>3. Subject' = Subject /\ Verdict' = Verdict
  BY <1>1, <1>2 DEF Subject, Verdict
<1>4. Told' = [x \in Run |-> "none"]
  BY <1>1 DEF Told
<1>5. ASSUME NEW x \in Run
      PROVE  Stage'[x] = IF Stage[x] \in {"new", "closed"} THEN Stage[x] ELSE "gone"
  <2>1. Shown(x)
    BY Page
  <2>2. Shown(x)'
    BY PageAfter
  <2>3. NoRun(x) \/ pc[x] = "done" => Stage'[x] = Stage[x]
    BY <1>1, <1>2, <2>1, <2>2 DEF Shown, Live
  <2>4. ~NoRun(x) /\ pc[x] # "done" => Stage'[x] = "gone"
    BY <1>1, <1>2, <2>2 DEF Shown, Live, NoRun
  <2>5. NoRun(x) \/ pc[x] = "done" <=> Stage[x] \in {"new", "closed"}
    BY DEF Stage, Loading
  <2> QED
    BY <2>3, <2>4, <2>5
<1>6. Stage' = [x \in Run |-> IF Stage[x] \in {"new", "closed"} THEN Stage[x] ELSE "gone"]
  BY <1>5, ColumnsAfter
<1> QED
  BY <1>1, <1>3, <1>4, <1>6 DEF Ledger!Crash

LEMMA LedgerInit == Init => Ledger!Init
<1> SUFFICES ASSUME Init PROVE Ledger!Init
  OBVIOUS
<1>1. Stage = [x \in Run |-> "new"] /\ Subject = [x \in Run |-> NoName]
  BY DEF Init, Stage, Subject, NoRun
<1>2. Verdict = [x \in Run |-> "none"] /\ Told = [x \in Run |-> "none"]
  BY DEF Init, Verdict, Told, NoJob
<1> QED
  BY <1>1, <1>2 DEF Init, Ledger!Init

LEMMA LedgerStep ==
    IInv /\ IInv' /\ HistInv /\ HistInv' /\ ApartInv /\ [Next]_vars
      => [Ledger!Next]_(Ledger!vars)
<1> SUFFICES ASSUME IInv, IInv', HistInv, HistInv', ApartInv, [Next]_vars
             PROVE  [Ledger!Next]_(Ledger!vars)
  OBVIOUS
<1>1. TypeOK /\ TypeOK' /\ HasTarget /\ OneLoadPerPipeline
  BY DEF IInv
<1>2. ASSUME NEW r \in Run, Step(r) PROVE [Ledger!Next]_(Ledger!vars)
  BY <1>1, <1>2, StepOnLedger
<1>3. ASSUME NEW r \in Run, NEW n \in Name,
             RequestSync(r, n) \/ RequestAsync(r, n) \/ RequestDemo(r, n)
               \/ RequestQueue(r, n) \/ RequestAside(r, n)
      PROVE  [Ledger!Next]_(Ledger!vars)
  BY <1>1, <1>3, RequestOnLedger
<1>4. CASE Dispatch \/ UNCHANGED vars \/ \E n \in Name : Delete(n)
  <2>1. /\ pc' = pc /\ origin' = origin /\ target' = target /\ outcome' = outcome
        /\ history' = history /\ dropped' = dropped /\ job' = job
    BY <1>4 DEF Dispatch, Delete, runVars, vars
  <2>2. \A x \in Run : SamePage(x)
    BY <2>1, UntouchedPage DEF Untouched
  <2> QED
    BY <1>1, <2>2, PagesKept
<1>5. CASE Restart
  BY <1>1, <1>5, CrashOnLedger DEF Ledger!Next
<1> QED
  BY <1>2, <1>3, <1>4, <1>5 DEF Next

\* The run service implements its ledger: whatever the entry points, their
\* handlers, the guard and crashes do, a run loads once and alone, its verdict
\* comes before its entry, its entry before its answer, and both are true.
THEOREM LedgerKept == SafeSpec => ImplementsLedger
<1>1. TypeOK /\ HistInv /\ ApartInv /\ [Next]_vars => ApartInv'
  BY ApartStep
<1>2. SafeSpec => []ApartInv
  BY <1>1, TypeCorrect, HistoryInductive, ApartInit, PTL DEF SafeSpec
<1> QED
  BY <1>2, Inductive, HistoryInductive, LedgerInit, LedgerStep, PTL
  DEF SafeSpec, ImplementsLedger, Ledger!Spec
=============================================================================
