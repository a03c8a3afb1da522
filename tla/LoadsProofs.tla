----------------------------- MODULE LoadsProofs -----------------------------
(***************************************************************************)
(* Proofs about Loads.  What a load may rely on is an invariant of one     *)
(* load at a time (LoadInv); it survives the steps of the others because   *)
(* the guard keeps them out of its working directory (Alone), and the      *)
(* steps that do reach into it put the load into "hit".  Leftovers that no *)
(* clearing reaches put it into "missed", of which LoadInv says nothing.   *)
(***************************************************************************)
EXTENDS Loads, TLAPS

USE NamesAssumption, LimitsAssumption DEF NamesAssumption, LimitsAssumption

\* Two live loads have different pipelines, and a live load has one.
Alone == /\ \A r \in Load : Live(r) => name[r] \in Name
         /\ \A r, s \in Load : Live(r) /\ Live(s) /\ name[r] = name[s] => r = s

\* How often pipeline.run has been called.
Tries(r) == /\ pc[r] \in {"free", "build", "setenv", "clear", "trace"} => tries[r] = 0
            /\ pc[r] = "extract" => tries[r] \in {0, 1}
            /\ pc[r] = "reclear" => tries[r] = 1

\* A load that met no error: nothing has gone wrong but what it found, and by
\* its last try it finds nothing.
LoadInv(r) ==
    /\ pc[r] \in {"free", "build", "setenv", "clear", "trace", "extract", "load",
                  "reclear"} => outcome[r] = "none" /\ r \notin unknown
    /\ pc[r] \in {"free", "build", "setenv", "clear", "trace", "extract",
                  "reclear"} => rows[r] = "none"
    /\ pc[r] = "trace" => packages[name[r]] # "whole"
    /\ pc[r] = "extract" => /\ packages[name[r]] # "whole"
                            /\ tries[r] = 1 => packages[name[r]] \in {"none", "beyond"}
    /\ pc[r] = "load" => packages[name[r]] = "whole" /\ rows[r] = "own"
    /\ pc[r] \in {"stop", "check", "done"} =>
           \/ outcome[r] = "ok" /\ rows[r] = "own"
           \/ outcome[r] = "raised" /\ rows[r] = "none" /\ r \in unknown

LoadsInv == \A r \in Load : r \notin hit \cup missed => LoadInv(r)

Inv == /\ TypeOK
       /\ Alone
       /\ \A r \in Load : Tries(r)
       /\ LoadsInv

\* What the steps of load r leave of another load s.
Apart(r, s) == /\ pc'[s] = pc[s] /\ name'[s] = name[s] /\ tries'[s] = tries[s]
               /\ outcome'[s] = outcome[s] /\ rows'[s] = rows[s]
               /\ s \in hit' <=> s \in hit
               /\ s \in missed' <=> s \in missed
               /\ s \in unknown' <=> s \in unknown
               /\ Live(s) => packages'[name[s]] = packages[name[s]]

\* The start: no load has begun, whatever the directories hold.
LEMMA InitInv == Init => Inv
<1> SUFFICES ASSUME Init PROVE Inv
  OBVIOUS
<1>1. TypeOK
  <2>1. /\ packages \in [Name -> Packages] /\ plain \in BOOLEAN /\ tracing \in BOOLEAN
        /\ pc \in [Load -> PCs] /\ name \in [Load -> Name \cup {NoName}]
        /\ kind \in [Load -> Kinds]
    BY DEF Init, Kinds, PCs
  <2>2. /\ tries \in [Load -> 0..2]
        /\ outcome \in [Load -> {"none", "ok", "failed", "raised"}]
        /\ rows \in [Load -> {"none", "own", "old"}]
        /\ wrote \in [Load -> {"none", "plain", "packed"}]
    BY DEF Init
  <2>3. /\ hit \subseteq Load /\ missed \subseteq Load /\ unknown \subseteq Load
        /\ faults \in 0..MaxFaults /\ restarts \in 0..MaxRestarts
    BY DEF Init
  <2> QED
    BY <2>1, <2>2, <2>3 DEF TypeOK
<1>2. \A r \in Load : /\ pc[r] = "free" /\ tries[r] = 0 /\ outcome[r] = "none"
                       /\ rows[r] = "none" /\ r \notin unknown
  BY DEF Init
<1>3. Alone
  BY <1>2 DEF Alone, Live
<1>4. (\A r \in Load : Tries(r)) /\ LoadsInv
  BY <1>2 DEF Tries, LoadsInv, LoadInv
<1> QED
  BY <1>1, <1>3, <1>4 DEF Inv

-----------------------------------------------------------------------------
\* Types and the number of tries.

LEMMA BeforeTypes ==
    ASSUME Inv, NEW r \in Load,
           (\E n \in Name, k \in Kinds : Begin(r, n, k)) \/ Build(r) \/ SetEnv(r) \/ Trace(r)
    PROVE  TypeOK' /\ \A s \in Load : Tries(s)'
<1>1. TypeOK /\ \A s \in Load : Tries(s)
  BY DEF Inv
<1>2. CASE \E n \in Name, k \in Kinds : Begin(r, n, k)
  BY <1>1, <1>2 DEF TypeOK, Tries, Begin, Goto, progress, leftovers, PCs
<1>3. CASE Build(r)
  BY <1>1, <1>3 DEF TypeOK, Tries, Build, Ends, Goto, Fault, NoFault, leftovers, PCs
<1>4. CASE SetEnv(r)
  BY <1>1, <1>4 DEF TypeOK, Tries, SetEnv, Goto, progress, leftovers, PCs, Kinds
<1>5. CASE Trace(r)
  BY <1>1, <1>5 DEF TypeOK, Tries, Trace, Goto, progress, leftovers, PCs
<1> QED
  BY <1>2, <1>3, <1>4, <1>5

LEMMA ClearTypes ==
    ASSUME Inv, NEW r \in Load, Clear(r) \/ Reclear(r)
    PROVE  TypeOK' /\ \A s \in Load : Tries(s)'
<1>1. TypeOK /\ \A s \in Load : Tries(s)
  BY DEF Inv
<1>2. name[r] \in Name
  BY DEF Inv, Alone, Live, Clear, Reclear
<1>3. packages' \in [Name -> Packages] /\ hit' \subseteq Load /\ faults' \in 0..MaxFaults
  <2>1. PICK b \in BOOLEAN : ClearPending(r, b)
    BY DEF Clear, Reclear
  <2> QED
    BY <1>1, <1>2, <2>1
    DEF TypeOK, ClearPending, LeftBy, LeftByDiskError, Keep, Fault, NoFault, Packages
<1>4. /\ pc' \in [Load -> PCs]
      /\ \A s \in Load : s # r => pc'[s] = pc[s]
      /\ \/ pc[r] = "clear" /\ pc'[r] = "trace"
         \/ pc[r] = "reclear" /\ pc'[r] = "extract"
  BY <1>1 DEF TypeOK, Clear, Reclear, Goto, PCs
<1>5. UNCHANGED <<plain, tracing, name, kind, tries, outcome, rows, wrote, missed, unknown,
                  restarts>>
  BY DEF Clear, Reclear, progress, leftovers
<1>6. TypeOK'
  BY <1>1, <1>3, <1>4, <1>5 DEF TypeOK
<1>7. \A s \in Load : Tries(s)'
  BY <1>1, <1>4, <1>5 DEF Tries
<1> QED
  BY <1>6, <1>7

LEMMA RunTypes ==
    ASSUME Inv, NEW r \in Load, RunPipeline(r) \/ LoadPackage(r)
    PROVE  TypeOK' /\ \A s \in Load : Tries(s)'
<1>1. TypeOK /\ \A s \in Load : Tries(s)
  BY DEF Inv
<1>2. name[r] \in Name
  BY DEF Inv, Alone, Live, RunPipeline, LoadPackage
<1>3. tries' \in [Load -> 0..2]
  BY <1>1 DEF TypeOK, Tries, RunPipeline, LoadPackage
<1>4. packages' \in [Name -> Packages] /\ hit' \subseteq Load /\ faults' \in 0..MaxFaults
  <2>1. hit' \subseteq Load /\ faults' \in 0..MaxFaults
    <3>1. Fault(r) \/ NoFault \/ UNCHANGED <<hit, faults>>
      BY DEF RunPipeline, Extract, Resume, LoadPackage
    <3> QED
      BY <1>1, <3>1 DEF TypeOK, Fault, NoFault
  <2>2. packages' = packages \/ \E p \in Packages : Keep(r, p)
    <3>1. packages[name[r]] \in Packages
      BY <1>1, <1>2 DEF TypeOK
    <3>2. LeftByDiskError(packages[name[r]]) \subseteq Packages
      BY <3>1 DEF LeftByDiskError, Packages
    <3>3. CASE RunPipeline(r)
      BY <3>3 DEF RunPipeline, Extract, Resume, Packages
    <3>4. CASE LoadPackage(r)
      BY <3>2, <3>4 DEF LoadPackage, Packages
    <3> QED
      BY <3>3, <3>4
  <2> QED
    BY <1>1, <1>2, <2>1, <2>2 DEF TypeOK, Keep
<1>5. /\ outcome' \in [Load -> {"none", "ok", "failed", "raised"}]
      /\ rows' \in [Load -> {"none", "own", "old"}]
      /\ wrote' \in [Load -> {"none", "plain", "packed"}]
  BY <1>1 DEF TypeOK, RunPipeline, Extract, Resume, LoadPackage, RunRaises
<1>6. /\ pc' \in [Load -> PCs]
      /\ \A s \in Load : s # r => pc'[s] = pc[s] /\ tries'[s] = tries[s]
      /\ pc'[r] \in {"load", "stop", "reclear"}
      /\ pc'[r] = "reclear" => tries'[r] = 1
  BY <1>1
  DEF TypeOK, RunPipeline, Extract, Resume, LoadPackage, RunRaises, Goto, PCs
<1>7. missed' \subseteq Load /\ unknown' \subseteq Load
  BY <1>1 DEF TypeOK, RunPipeline, Extract, Resume, LoadPackage, leftovers
<1>9. TypeOK'
  BY <1>1, <1>3, <1>4, <1>5, <1>6, <1>7 DEF TypeOK, RunPipeline, LoadPackage
<1>8. \A s \in Load : Tries(s)'
  BY <1>1, <1>6 DEF Tries
<1> QED
  BY <1>8, <1>9

LEMMA AfterTypes ==
    ASSUME Inv, NEW r \in Load, Stop(r) \/ Check(r)
    PROVE  TypeOK' /\ \A s \in Load : Tries(s)'
<1>1. TypeOK /\ \A s \in Load : Tries(s)
  BY DEF Inv
<1>2. CASE Stop(r)
  <2>1. CASE outcome[r] = "ok"
    BY <1>1, <1>2, <2>1 DEF TypeOK, Tries, Stop, Goto, leftovers, PCs
  <2>2. CASE outcome[r] # "ok"
    <3>1. Ends(r) /\ tracing' = FALSE
          /\ UNCHANGED <<packages, plain, kind, outcome, rows, wrote, hit, missed, unknown,
                         faults, restarts>>
      BY <1>2, <2>2 DEF Stop, leftovers
    <3>2. /\ pc' = [pc EXCEPT ![r] = "done"] /\ name' = [name EXCEPT ![r] = NoName]
          /\ tries' = [tries EXCEPT ![r] = 0]
      BY <3>1 DEF Ends, Goto
    <3>3. TypeOK'
      <4>1. /\ pc' \in [Load -> PCs] /\ name' \in [Load -> Name \cup {NoName}]
            /\ tries' \in [Load -> 0..2]
        BY <1>1, <3>2 DEF TypeOK, PCs
      <4>2. tracing' \in BOOLEAN
        BY <3>1
      <4> QED
        BY <1>1, <3>1, <4>1, <4>2 DEF TypeOK
    <3>4. \A s \in Load : Tries(s)'
      BY <1>1, <3>2 DEF TypeOK, Tries
    <3> QED
      BY <3>3, <3>4
  <2> QED
    BY <2>1, <2>2
<1>3. CASE Check(r)
  BY <1>1, <1>3 DEF TypeOK, Tries, Check, Ends, Goto, Fault, NoFault, leftovers, PCs
<1> QED
  BY <1>2, <1>3
-----------------------------------------------------------------------------
\* The other loads.

\* Only the directory of the load that steps changes.
LEMMA OwnDirectory ==
    ASSUME Inv, NEW r \in Load, Step(r)
    PROVE  \/ UNCHANGED packages
           \/ Live(r) /\ \A n \in Name : n # name[r] => packages'[n] = packages[n]
<1>1. packages \in [Name -> Packages]
  BY DEF Inv, TypeOK
<1>2. CASE (\E n \in Name, k \in Kinds : Begin(r, n, k)) \/ Build(r) \/ SetEnv(r)
           \/ Trace(r) \/ Stop(r) \/ Check(r)
  BY <1>2 DEF Begin, Build, SetEnv, Trace, Stop, Check
<1>3. CASE Clear(r) \/ Reclear(r)
  <2>1. \E p : Keep(r, p)
    <3>1. PICK b \in BOOLEAN : ClearPending(r, b)
      BY <1>3 DEF Clear, Reclear
    <3> QED
      BY <3>1 DEF ClearPending
  <2> QED
    BY <1>1, <1>3, <2>1 DEF Keep, Clear, Reclear, Live
<1>4. CASE RunPipeline(r)
  <2>1. UNCHANGED packages \/ \E p : Keep(r, p)
    BY <1>4 DEF RunPipeline, Extract, Resume
  <2> QED
    BY <1>1, <1>4, <2>1 DEF Keep, RunPipeline, Live
<1>5. CASE LoadPackage(r)
  <2>1. UNCHANGED packages \/ \E p : Keep(r, p)
    BY <1>5 DEF LoadPackage
  <2> QED
    BY <1>1, <1>5, <2>1 DEF Keep, LoadPackage, Live
<1> QED
  BY <1>2, <1>3, <1>4, <1>5 DEF Step

\* A step of one load leaves the progress and the fate of the others alone.
LEMMA OwnProgress ==
    ASSUME Inv, NEW r \in Load, Step(r), NEW s \in Load, s # r
    PROVE  /\ pc'[s] = pc[s] /\ name'[s] = name[s] /\ tries'[s] = tries[s]
           /\ outcome'[s] = outcome[s] /\ rows'[s] = rows[s]
           /\ s \in hit' <=> s \in hit
           /\ s \in missed' <=> s \in missed
           /\ s \in unknown' <=> s \in unknown
<1>1. TypeOK
  BY DEF Inv
<1>2. CASE (\E n \in Name, k \in Kinds : Begin(r, n, k)) \/ SetEnv(r) \/ Trace(r) \/ Stop(r)
  BY <1>1, <1>2 DEF TypeOK, Begin, SetEnv, Trace, Stop, Ends, Goto, progress, leftovers
<1>3. CASE Build(r) \/ Check(r)
  BY <1>1, <1>3 DEF TypeOK, Build, Check, Ends, Goto, Fault, NoFault, leftovers
<1>4. CASE Clear(r) \/ Reclear(r)
  <2>1. PICK b \in BOOLEAN : ClearPending(r, b)
    BY <1>4 DEF Clear, Reclear
  <2>2. s \in hit' <=> s \in hit
    BY <2>1 DEF ClearPending, Fault, NoFault
  <2> QED
    BY <1>1, <1>4, <2>2 DEF TypeOK, Clear, Reclear, Goto, progress, leftovers
<1>5. CASE RunPipeline(r)
  BY <1>1, <1>5
  DEF TypeOK, RunPipeline, Extract, Resume, RunRaises, Goto, Fault, NoFault, leftovers
<1>6. CASE LoadPackage(r)
  BY <1>1, <1>6 DEF TypeOK, LoadPackage, RunRaises, Goto, Fault, NoFault, leftovers
<1> QED
  BY <1>2, <1>3, <1>4, <1>5, <1>6 DEF Step

\* The guard keeps every other load out of the stepping load's directory.
LEMMA StepApart ==
    ASSUME Inv, NEW r \in Load, Step(r), NEW s \in Load, s # r
    PROVE  Apart(r, s)
<1>1. Live(s) => packages'[name[s]] = packages[name[s]]
  BY OwnDirectory DEF Inv, Alone
<1> QED
  BY <1>1, OwnProgress DEF Apart

\* The guard admits no second load of a pipeline.
LEMMA StepAlone ==
    ASSUME Inv, NEW r \in Load, Step(r)
    PROVE  Alone'
<1>1. TypeOK /\ Alone
  BY DEF Inv
<1>2. \A s \in Load : s # r => pc'[s] = pc[s] /\ name'[s] = name[s]
  BY OwnProgress
<1>3. CASE \E n \in Name, k \in Kinds : Begin(r, n, k)
  <2>1. PICK n \in Name, k \in Kinds : Begin(r, n, k)
    BY <1>3
  <2>2. name'[r] = n /\ \A s \in Load : Live(s) => name[s] # n
    BY <1>1, <2>1 DEF Begin, TypeOK
  <2> QED
    BY <1>1, <1>2, <2>2 DEF Alone, Live
<1>4. CASE ~ \E n \in Name, k \in Kinds : Begin(r, n, k)
  <2>1. Live(r) /\ (name'[r] = name[r] \/ pc'[r] = "done")
    BY <1>1, <1>4 DEF TypeOK, Step, Build, SetEnv, Clear, Trace, RunPipeline, LoadPackage,
                      Reclear, Stop, Check, Ends, Goto, Live
  <2> QED
    BY <1>1, <1>2, <2>1 DEF Alone, Live
<1> QED
  BY <1>3, <1>4

-----------------------------------------------------------------------------
\* The load itself: without an error of its own, every step keeps LoadInv.

\* What a clearing that met no error of the disk leaves.
LEMMA Cleared ==
    ASSUME NEW p \in Packages, NEW aggressive \in BOOLEAN
    PROVE  /\ "whole" \notin LeftBy(p, aggressive)
           /\ aggressive => LeftBy(p, aggressive) \subseteq {"none", "beyond"}
<1>1. CASE p \in {"none", "whole"}
  BY <1>1 DEF LeftBy
<1>2. CASE p = "corrupt"
  BY <1>2 DEF LeftBy
<1>3. CASE p = "beyond"
  BY <1>3 DEF LeftBy
<1> QED
  BY <1>1, <1>2, <1>3 DEF Packages

LEMMA BeforeLoadInv ==
    ASSUME Inv, NEW r \in Load, r \notin hit' \cup missed', LoadInv(r),
           (\E n \in Name, k \in Kinds : Begin(r, n, k)) \/ Build(r) \/ SetEnv(r)
           \/ Clear(r) \/ Trace(r)
    PROVE  LoadInv(r)'
<1>1. TypeOK /\ Alone /\ Tries(r)
  BY DEF Inv
<1>2. CASE \E n \in Name, k \in Kinds : Begin(r, n, k)
  BY <1>1, <1>2 DEF TypeOK, LoadInv, Begin, Goto, progress, leftovers
<1>3. CASE Build(r)
  BY <1>1, <1>3 DEF TypeOK, LoadInv, Build, Goto, Fault, NoFault, leftovers
<1>4. CASE SetEnv(r)
  BY <1>1, <1>4 DEF TypeOK, LoadInv, SetEnv, Goto, progress, leftovers
<1>5. CASE Clear(r)
  <2>1. name[r] \in Name
    BY <1>1, <1>5 DEF Alone, Live, Clear
  <2>2. packages'[name[r]] # "whole"
    <3>1. packages[name[r]] \in Packages
      BY <1>1, <2>1 DEF TypeOK
    <3>2. PICK p \in LeftBy(packages[name[r]], FALSE) :
              packages' = [packages EXCEPT ![name[r]] = p]
      BY <1>5 DEF Clear, ClearPending, Fault, Keep
    <3>3. p # "whole"
      BY <3>1, Cleared
    <3> QED
      BY <1>1, <2>1, <3>2, <3>3 DEF TypeOK
  <2>3. /\ pc'[r] = "trace" /\ name' = name
        /\ outcome'[r] = "none" /\ rows'[r] = "none" /\ r \notin unknown'
    BY <1>1, <1>5 DEF TypeOK, LoadInv, Clear, Goto, progress, leftovers
  <2> QED
    BY <2>2, <2>3 DEF LoadInv
<1>6. CASE Trace(r)
  BY <1>1, <1>6 DEF TypeOK, LoadInv, Tries, Trace, Goto, progress, leftovers
<1> QED
  BY <1>2, <1>3, <1>4, <1>5, <1>6

LEMMA RunLoadInv ==
    ASSUME Inv, NEW r \in Load, r \notin hit' \cup missed', LoadInv(r),
           RunPipeline(r) \/ LoadPackage(r) \/ Reclear(r)
    PROVE  LoadInv(r)'
<1>1. TypeOK /\ Tries(r) /\ name[r] \in Name
  BY DEF Inv, Alone, Live, RunPipeline, LoadPackage, Reclear
<1>2. CASE RunPipeline(r)
  <2>1. CASE Extract(r)
    <3>1. packages'[name[r]] = "whole" /\ pc'[r] = "load" /\ rows'[r] = "own"
          /\ UNCHANGED <<outcome, name, unknown>>
      BY <1>1, <1>2, <2>1 DEF TypeOK, RunPipeline, Extract, Fault, Keep, Goto, leftovers
    <3> QED
      BY <1>2, <3>1 DEF LoadInv, RunPipeline
  <2>2. CASE Resume(r)
    <3>1. packages[name[r]] = "corrupt" /\ tries[r] = 0
      BY <1>1, <1>2, <2>2 DEF TypeOK, Packages, LoadInv, Tries, RunPipeline, Resume
    <3>2. /\ tries'[r] = 1 /\ UNCHANGED <<rows, name>>
          /\ \/ pc'[r] = "reclear" /\ UNCHANGED <<outcome, unknown>>
             \/ pc'[r] = "stop" /\ outcome'[r] = "raised" /\ r \in unknown'
      BY <1>1, <1>2, <2>2, <3>1 DEF TypeOK, RunPipeline, Resume, RunRaises, Goto
    <3> QED
      BY <1>2, <3>2 DEF LoadInv, RunPipeline
  <2> QED
    BY <1>2, <2>1, <2>2 DEF RunPipeline
<1>3. CASE LoadPackage(r)
  BY <1>1, <1>3 DEF TypeOK, LoadInv, LoadPackage, Fault, Goto, leftovers
<1>4. CASE Reclear(r)
  <2>1. packages'[name[r]] \in {"none", "beyond"}
    <3>1. packages[name[r]] \in Packages
      BY <1>1 DEF TypeOK
    <3>2. \E p \in LeftBy(packages[name[r]], TRUE) : Keep(r, p)
      BY <1>4 DEF Reclear, ClearPending, Fault
    <3> QED
      BY <1>1, <3>1, <3>2, Cleared DEF TypeOK, Keep
  <2> QED
    BY <1>1, <1>4, <2>1 DEF TypeOK, LoadInv, Reclear, Goto, progress, leftovers
<1> QED
  BY <1>2, <1>3, <1>4

LEMMA AfterLoadInv ==
    ASSUME Inv, NEW r \in Load, r \notin hit' \cup missed', LoadInv(r), Stop(r) \/ Check(r)
    PROVE  LoadInv(r)'
<1>1. TypeOK
  BY DEF Inv
<1>2. CASE Stop(r)
  BY <1>1, <1>2 DEF TypeOK, LoadInv, Stop, Ends, Goto, leftovers
<1>3. CASE Check(r)
  BY <1>1, <1>3 DEF TypeOK, LoadInv, Check, Ends, Goto, Fault, leftovers
<1> QED
  BY <1>2, <1>3

\* No step of a load takes one out of "hit" or "missed".
LEMMA HitGrows ==
    ASSUME NEW r \in Load, Step(r)
    PROVE  hit \subseteq hit' /\ missed \subseteq missed'
<1>1. CASE Clear(r) \/ Reclear(r)
  <2>1. PICK b \in BOOLEAN : ClearPending(r, b)
    BY <1>1 DEF Clear, Reclear
  <2> QED
    BY <1>1, <2>1 DEF ClearPending, Fault, NoFault, Clear, Reclear, leftovers
<1> QED
  BY <1>1 DEF Step, Begin, Build, SetEnv, Trace, RunPipeline, Extract, Resume, LoadPackage,
              Stop, Check, Fault, NoFault, leftovers

-----------------------------------------------------------------------------
\* The invariant.

LEMMA StepInv == ASSUME Inv, NEW r \in Load, Step(r) PROVE Inv'
<1>1. TypeOK' /\ \A s \in Load : Tries(s)'
  BY BeforeTypes, ClearTypes, RunTypes, AfterTypes DEF Step
<1>2. Alone'
  BY StepAlone
<1>3. ASSUME NEW s \in Load, s \notin hit' \cup missed' PROVE LoadInv(s)'
  <2>1. s \notin hit \cup missed
    BY <1>3, HitGrows
  <2>2. LoadInv(s)
    BY <2>1 DEF Inv, LoadsInv
  <2>3. CASE s = r
    BY <1>3, <2>2, <2>3, BeforeLoadInv, RunLoadInv, AfterLoadInv DEF Step
  <2>4. CASE s # r
    BY <2>2, <2>4, StepApart DEF Apart, LoadInv, Live
  <2> QED
    BY <2>3, <2>4
<1> QED
  BY <1>1, <1>2, <1>3 DEF Inv, LoadsInv

LEMMA RecoverInv == ASSUME Inv, NEW n \in Name, Recover(n) PROVE Inv'
<1>1. TypeOK /\ Alone /\ (\A r \in Load : Tries(r)) /\ LoadsInv
  BY DEF Inv
<1>2. packages' \in [Name -> Packages]
  BY <1>1 DEF TypeOK, Recover, LeftByDiskError, Packages
<1>3. /\ UNCHANGED <<plain, tracing, pc, name, kind, tries, outcome, rows, wrote, missed, unknown,
                     faults, restarts>>
      /\ hit' = hit \cup {r \in Load : Live(r) /\ name[r] = n}
      /\ \A m \in Name : m # n => packages'[m] = packages[m]
  BY <1>1 DEF TypeOK, Recover, progress, leftovers
<1>4. TypeOK' /\ Alone' /\ \A r \in Load : Tries(r)'
  BY <1>1, <1>2, <1>3 DEF TypeOK, Alone, Live, Tries
<1>5. ASSUME NEW r \in Load, r \notin hit' \cup missed' PROVE LoadInv(r)'
  <2>1. LoadInv(r)
    BY <1>1, <1>3, <1>5 DEF LoadsInv
  <2>2. Live(r) => packages'[name[r]] = packages[name[r]]
    BY <1>1, <1>3, <1>5 DEF Alone
  <2> QED
    BY <1>3, <2>1, <2>2 DEF LoadInv, Live
<1> QED
  BY <1>4, <1>5 DEF Inv, LoadsInv

LEMMA RestartInv == ASSUME Inv, Restart PROVE Inv'
<1>1. TypeOK /\ Alone /\ (\A r \in Load : Tries(r)) /\ LoadsInv
  BY DEF Inv
<1>2. /\ UNCHANGED <<kind, wrote, faults>>
      /\ plain' = FALSE /\ tracing' = FALSE
      /\ packages' \in [Name -> Packages]
      /\ restarts' \in 0..MaxRestarts
      /\ hit' \subseteq hit /\ missed' \subseteq missed /\ unknown' \subseteq unknown
  BY <1>1 DEF TypeOK, Restart
<1>3. \A r \in Load :
          IF Live(r) THEN /\ pc'[r] = "lost" /\ name'[r] = NoName /\ tries'[r] = 0
                          /\ outcome'[r] = "none" /\ rows'[r] = "none"
                     ELSE /\ pc'[r] = pc[r] /\ name'[r] = name[r] /\ tries'[r] = tries[r]
                          /\ outcome'[r] = outcome[r] /\ rows'[r] = rows[r]
                          /\ r \in hit' <=> r \in hit
                          /\ r \in missed' <=> r \in missed
                          /\ r \in unknown' <=> r \in unknown
  BY DEF Restart, Emptied
<1>4. /\ pc' \in [Load -> PCs] /\ name' \in [Load -> Name \cup {NoName}]
      /\ tries' \in [Load -> 0..2]
      /\ outcome' \in [Load -> {"none", "ok", "failed", "raised"}]
      /\ rows' \in [Load -> {"none", "own", "old"}]
  BY <1>1 DEF TypeOK, Restart, Emptied, PCs
<1>5. TypeOK'
  BY <1>1, <1>2, <1>4 DEF TypeOK
<1>6. \A r \in Load : ~Live(r)' /\ Tries(r)'
  BY <1>1, <1>3 DEF Live, Tries
<1>7. Alone'
  BY <1>6 DEF Alone
<1>8. LoadsInv'
  <2>1. ASSUME NEW r \in Load, r \notin hit' \cup missed' PROVE LoadInv(r)'
    BY <1>1, <1>3, <2>1 DEF LoadsInv, LoadInv, Live
  <2> QED
    BY <2>1 DEF LoadsInv
<1> QED
  BY <1>5, <1>6, <1>7, <1>8 DEF Inv

LEMMA NextInv == Inv /\ [Next]_vars => Inv'
<1>1. ASSUME Inv, UNCHANGED vars PROVE Inv'
  <2>1. UNCHANGED <<packages, plain, tracing, pc, name, kind, tries, outcome, rows, wrote,
                    hit, missed, unknown, faults, restarts>>
    BY <1>1 DEF vars
  <2> QED
    BY <1>1, <2>1 DEF Inv, TypeOK, Alone, Live, Tries, LoadsInv, LoadInv
<1> QED
  BY <1>1, StepInv, RecoverInv, RestartInv DEF Next

LEMMA SpecInv == Spec => []Inv
  BY InitInv, NextInv, PTL DEF Spec

\* Types; pipeline.run is called at most twice in a load, for any number of
\* loads, pipelines, errors and crashes.
THEOREM TypeCorrect == Spec => []TypeOK
<1>1. Inv => TypeOK
  BY DEF Inv
<1> QED
  BY <1>1, SpecInv, PTL

\* A load that met no error of its own and no recovery, no leftovers outside the
\* directories that are wiped and no unknown error text succeeds, whatever else
\* it found in its working directory.
THEOREM LoadsHeal == Spec => []HealsByItself
<1>1. Inv => HealsByItself
  BY DEF Inv, LoadsInv, LoadInv, HealsByItself
<1> QED
  BY <1>1, SpecInv, PTL

\* ... and what a load reports are its own rows, never those that an earlier load
\* left, even where the text of its error was unknown.
THEOREM LoadsReportOwn == Spec => []LoadsOwnRows
<1>1. Inv => LoadsOwnRows
  BY DEF Inv, LoadsInv, LoadInv, LoadsOwnRows
<1> QED
  BY <1>1, SpecInv, PTL

\* tracemalloc is off whenever no load is between its start and its stop.
THEOREM TracingIsBounded == Spec => []TracingEnds
<1>1. Init => TracingEnds
  BY DEF Init, TracingEnds
<1>2. Inv /\ TracingEnds /\ [Next]_vars => TracingEnds'
  <2> SUFFICES ASSUME Inv, TracingEnds, [Next]_vars PROVE TracingEnds'
    OBVIOUS
  <2>1. pc \in [Load -> PCs]
    BY DEF Inv, TypeOK
  <2>2. ASSUME NEW r \in Load, Step(r) PROVE TracingEnds'
    <3>1. \A s \in Load : s # r => pc'[s] = pc[s]
      BY <2>2, OwnProgress
    <3>2. CASE Trace(r)
      BY <2>1, <3>2 DEF Trace, Goto, TracingEnds, Tracing
    <3>3. CASE Stop(r)
      BY <3>3 DEF Stop, TracingEnds
    <3>4. CASE RunPipeline(r) \/ LoadPackage(r) \/ Reclear(r)
      <4>1. Tracing(r)'
        BY <2>1, <3>4 DEF RunPipeline, Extract, Resume, LoadPackage, RunRaises, Reclear,
                          Goto, Tracing
      <4> QED
        BY <4>1 DEF TracingEnds, Tracing
    <3>5. CASE (\E n \in Name, k \in Kinds : Begin(r, n, k)) \/ Build(r) \/ SetEnv(r)
               \/ Clear(r) \/ Check(r)
      <4>1. ~Tracing(r) /\ UNCHANGED tracing
        BY <3>5 DEF Begin, Build, SetEnv, Clear, Check, Tracing
      <4> QED
        BY <3>1, <4>1 DEF TracingEnds, Tracing
    <3> QED
      BY <2>2, <3>2, <3>3, <3>4, <3>5 DEF Step
  <2>3. ASSUME NEW n \in Name, Recover(n) PROVE TracingEnds'
    BY <2>3 DEF Recover, TracingEnds, Tracing
  <2>4. CASE Restart
    BY <2>4 DEF Restart, TracingEnds
  <2>5. CASE UNCHANGED vars
    BY <2>5 DEF vars, TracingEnds, Tracing
  <2> QED
    BY <2>2, <2>3, <2>4, <2>5 DEF Next
<1> QED
  BY <1>1, <1>2, SpecInv, PTL DEF Spec

(***************************************************************************)
(* The environment.  From its own SetEnv on, a load finds the variable the *)
(* way it left it, as long as no load of the other format came between.    *)
(***************************************************************************)
Set(r) == pc[r] \in {"clear", "trace", "extract", "load", "reclear"}
NoneOf(k) == \A r \in Load : kind[r] # k

FormatInv == /\ \A r \in Load : pc[r] = "free" => kind[r] = "table" /\ wrote[r] = "none"
             /\ NoneOf("binary") =>
                    \A r \in Load : kind[r] = "csv" => /\ Set(r) => plain
                                                       /\ wrote[r] # "packed"
             /\ NoneOf("csv") => /\ ~plain
                                 /\ \A r \in Load : wrote[r] # "plain"

\* Only the start of a load gives it a kind, and no load starts twice.
LEMMA KindsStay ==
    ASSUME Inv, FormatInv, [Next]_vars
    PROVE  /\ \A k \in {"csv", "binary"} : NoneOf(k)' => NoneOf(k)
           /\ \A r \in Load : pc'[r] = "free" => kind'[r] = "table"
           /\ \A r \in Load : kind'[r] # kind[r] => pc[r] = "free" /\ pc'[r] = "build"
           /\ \A r \in Load : pc'[r] = "free" => pc[r] = "free"
<1>1. pc \in [Load -> PCs] /\ kind \in [Load -> Kinds]
  BY DEF Inv, TypeOK
<1>2. CASE \E r \in Load, n \in Name, k \in Kinds : Begin(r, n, k)
  <2>1. PICK r \in Load, n \in Name, k \in Kinds : Begin(r, n, k)
    BY <1>2
  <2>2. /\ pc[r] = "free" /\ pc' = [pc EXCEPT ![r] = "build"]
        /\ kind' = [kind EXCEPT ![r] = k]
    BY <2>1 DEF Begin, Goto
  <2>3. kind[r] = "table"
    BY <2>2 DEF FormatInv
  <2> QED
    BY <1>1, <2>2, <2>3 DEF FormatInv, NoneOf
<1>3. CASE UNCHANGED kind /\ \A r \in Load : pc'[r] = "free" => pc[r] = "free"
  BY <1>3 DEF FormatInv, NoneOf
<1>4. ASSUME NEW r \in Load, Step(r), ~(\E n \in Name, k \in Kinds : Begin(r, n, k))
      PROVE  UNCHANGED kind /\ \A s \in Load : pc'[s] = "free" => pc[s] = "free"
  <2>1. \A s \in Load : s # r => pc'[s] = pc[s]
    BY <1>4, OwnProgress
  <2>2. UNCHANGED kind
    BY <1>4 DEF Step, Build, SetEnv, Clear, Trace, RunPipeline, LoadPackage, Reclear, Stop,
                Check
  <2>3. pc'[r] # "free"
    BY <1>1, <1>4 DEF Step, Build, SetEnv, Clear, Trace, RunPipeline, Extract, Resume,
                      LoadPackage, RunRaises, Reclear, Stop, Check, Ends, Goto
  <2> QED
    BY <2>1, <2>2, <2>3
<1>5. CASE UNCHANGED vars \/ Restart \/ \E n \in Name : Recover(n)
  <2>1. UNCHANGED kind /\ \A r \in Load : pc'[r] = "free" => pc[r] = "free"
    BY <1>5 DEF vars, Restart, Emptied, Recover
  <2> QED
    BY <1>3, <2>1
<1> QED
  BY <1>2, <1>3, <1>4, <1>5 DEF Next

\* What a step of a load does to the environment and to its files.
LEMMA Writes ==
    ASSUME Inv, NEW r \in Load, Step(r)
    PROVE  /\ \A s \in Load : s # r => pc'[s] = pc[s] /\ wrote'[s] = wrote[s]
           /\ Set(r)' => (Set(r) /\ UNCHANGED plain) \/ SetEnv(r)
           /\ UNCHANGED plain \/ SetEnv(r)
           /\ wrote'[r] # wrote[r] =>
                  Set(r) /\ wrote'[r] = IF plain THEN "plain" ELSE "packed"
<1>1. pc \in [Load -> PCs] /\ wrote \in [Load -> {"none", "plain", "packed"}]
  BY DEF Inv, TypeOK
<1>2. \A s \in Load : s # r => pc'[s] = pc[s]
  BY OwnProgress
<1>3. CASE RunPipeline(r)
  <2>1. pc[r] = "extract" /\ UNCHANGED plain
    BY <1>3 DEF RunPipeline
  <2>2. \/ UNCHANGED wrote
        \/ wrote' = [wrote EXCEPT ![r] = IF plain THEN "plain" ELSE "packed"]
    BY <1>3 DEF RunPipeline, Extract, Resume
  <2> QED
    BY <1>1, <1>2, <2>1, <2>2 DEF Set
<1>4. CASE SetEnv(r)
  BY <1>1, <1>2, <1>4 DEF SetEnv, progress, leftovers
<1>5. CASE Clear(r) \/ Trace(r) \/ LoadPackage(r) \/ Reclear(r)
  BY <1>1, <1>2, <1>5 DEF Clear, Trace, LoadPackage, Reclear, progress, leftovers, Set
<1>6. CASE (\E n \in Name, k \in Kinds : Begin(r, n, k)) \/ Build(r) \/ Stop(r) \/ Check(r)
  <2>1. UNCHANGED <<plain, wrote>>
    BY <1>6 DEF Begin, Build, Stop, Check, progress, leftovers
  <2>2. pc'[r] \in {"build", "setenv", "check", "done"}
    BY <1>1, <1>6 DEF Begin, Build, Stop, Check, Ends, Goto
  <2> QED
    BY <1>1, <1>2, <2>1, <2>2 DEF Set
<1> QED
  BY <1>3, <1>4, <1>5, <1>6 DEF Step

\* A step of a load keeps what the two formats rely on.
LEMMA FormatOfStep ==
    ASSUME Inv, FormatInv, NEW r \in Load, Step(r)
    PROVE  FormatInv'
<1>1. /\ \A k \in {"csv", "binary"} : NoneOf(k)' => NoneOf(k)
      /\ \A s \in Load : pc'[s] = "free" => kind'[s] = "table" /\ pc[s] = "free"
      /\ \A s \in Load : kind'[s] # kind[s] => pc[s] = "free" /\ pc'[s] = "build"
  <2>1. Next
    BY DEF Next
  <2> QED
    BY <2>1, KindsStay
<1>2. /\ \A s \in Load : s # r => pc'[s] = pc[s] /\ wrote'[s] = wrote[s]
      /\ Set(r)' => (Set(r) /\ UNCHANGED plain) \/ SetEnv(r)
      /\ UNCHANGED plain \/ SetEnv(r)
      /\ wrote'[r] # wrote[r] => Set(r) /\ wrote'[r] = IF plain THEN "plain" ELSE "packed"
  BY Writes
<1>3. SetEnv(r) => /\ plain' = CASE kind[r] = "csv" -> TRUE
                                 [] kind[r] = "binary" -> FALSE
                                 [] kind[r] = "table" -> plain
                   /\ UNCHANGED kind
  BY DEF SetEnv
<1>4. kind[r] \in {"csv", "binary", "table"}
  BY DEF Inv, TypeOK, Kinds
<1>5. \A s \in Load : pc[s] = "free" => ~Set(s) /\ wrote[s] = "none" /\ wrote'[s] = wrote[s]
  <2>1. \A s \in Load : pc[s] = "free" => ~Set(s) /\ wrote[s] = "none"
    BY DEF FormatInv, Set
  <2> QED
    BY <1>2, <2>1
<1>6. \A s \in Load : pc'[s] = "free" => kind'[s] = "table" /\ wrote'[s] = "none"
  BY <1>1, <1>5
<1>7. ASSUME NoneOf("binary")', NEW s \in Load, kind'[s] = "csv"
      PROVE  (Set(s)' => plain') /\ wrote'[s] # "packed"
  <2>1. NoneOf("binary")
    BY <1>1, <1>7
  <2>2. CASE kind[s] # "csv"
    <3>1. pc[s] = "free" /\ pc'[s] = "build"
      BY <1>1, <1>7, <2>2
    <3> QED
      BY <1>5, <3>1 DEF Set
  <2>3. CASE kind[s] = "csv"
    <3>1. (Set(s) => plain) /\ wrote[s] # "packed"
      BY <2>1, <2>3 DEF FormatInv
    <3>2. plain => plain'
      BY <1>2, <1>3, <1>4, <2>1 DEF NoneOf
    <3>3. CASE s # r
      <4>1. Set(s)' => Set(s)
        BY <1>2, <3>3 DEF Set
      <4> QED
        BY <1>2, <3>1, <3>2, <3>3, <4>1
    <3>4. CASE s = r
      BY <1>2, <1>3, <2>3, <3>1, <3>2, <3>4
    <3> QED
      BY <3>3, <3>4
  <2> QED
    BY <2>2, <2>3
<1>8. ASSUME NoneOf("csv")'
      PROVE  ~plain' /\ \A s \in Load : wrote'[s] # "plain"
  <2>1. NoneOf("csv")
    BY <1>1, <1>8
  <2>2. ~plain /\ \A s \in Load : wrote[s] # "plain"
    BY <2>1 DEF FormatInv
  <2>3. ~plain'
    BY <1>2, <1>3, <1>4, <2>1, <2>2 DEF NoneOf
  <2> QED
    BY <1>2, <2>2, <2>3
<1>9. NoneOf("binary")' =>
          \A s \in Load : kind'[s] = "csv" => (Set(s)' => plain') /\ wrote'[s] # "packed"
  BY <1>7
<1> QED
  BY <1>6, <1>8, <1>9 DEF FormatInv

LEMMA FormatStep == Inv /\ FormatInv /\ [Next]_vars => FormatInv'
<1> SUFFICES ASSUME Inv, FormatInv, [Next]_vars PROVE FormatInv'
  OBVIOUS
<1>1. ASSUME NEW r \in Load, Step(r) PROVE FormatInv'
  BY <1>1, FormatOfStep
<1>2. CASE UNCHANGED vars \/ \E n \in Name : Recover(n)
  <2>1. UNCHANGED <<plain, pc, kind, wrote>>
    BY <1>2 DEF vars, Recover, progress, leftovers
  <2> QED
    BY <2>1 DEF FormatInv, NoneOf, Set
<1>3. CASE Restart
  <2>1. /\ ~plain' /\ UNCHANGED <<kind, wrote>>
        /\ \A r \in Load : pc'[r] = IF Live(r) THEN "lost" ELSE pc[r]
    BY <1>3 DEF Restart, Emptied
  <2>2. \A r \in Load : ~Set(r)' /\ (pc'[r] = "free" => pc[r] = "free")
    BY <2>1 DEF Live, Set
  <2> QED
    BY <2>1, <2>2 DEF FormatInv, NoneOf
<1> QED
  BY <1>1, <1>2, <1>3 DEF Next

\* Where all files are of one format, each has the compression of its format,
\* for any number of loads, errors, recoveries and crashes.
THEOREM OneFormatIsKept == Spec => []OneFormatKept
<1>1. Init => FormatInv
  BY DEF Init, FormatInv, NoneOf, Set
<1>2. FormatInv => OneFormatKept
  BY DEF FormatInv, NoneOf, OneFormatKept
<1> QED
  BY <1>1, <1>2, FormatStep, SpecInv, PTL DEF Spec
=============================================================================
