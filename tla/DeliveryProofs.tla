----------------------------- MODULE DeliveryProofs -----------------------------
(***************************************************************************)
(* Proofs about Delivery.  What a publication has done so far is an        *)
(* invariant of one run (PubInv), which the steps of the others leave      *)
(* alone unless they have put it into "met" (Apart, Met).  What the report *)
(* says and what is still due cover all that was to be checked (QualInv).  *)
(***************************************************************************)
EXTENDS Delivery, FiniteSetTheorems, TLAPS

USE NoPipeAssumption, FilesAssumption, ChecksAssumption, BoundsAssumption
    DEF NoPipeAssumption, FilesAssumption, ChecksAssumption, BoundsAssumption

\* Every set of names has a first one, so that Item is a table still to publish.
LEMMA FirstExists ==
  ASSUME NEW S, S \subseteq Nat, S # {}
  PROVE  \E x \in S : \A y \in S : x <= y
<1> DEFINE R == StrictSubsetOrdering(Nat)
           Segments == {1..x : x \in S}
<1>1. IsWellFoundedOn(R, FiniteSubsetsOf(Nat))
  BY FS_StrictSubsetOrderingWellFounded
<1>2. Segments \subseteq FiniteSubsetsOf(Nat)
  <2>1. \A x \in S : IsFiniteSet(1..x) /\ 1..x \subseteq Nat
    BY FS_Interval
  <2>2. QED
    BY <2>1 DEF FiniteSubsetsOf
<1>3. Segments # {}
  OBVIOUS
<1> HIDE DEF R, Segments
<1>4. \E A \in Segments : \A B \in Segments : <<B, A>> \notin R
  BY <1>1, <1>2, <1>3, WFMin
<1>5. PICK x \in S : \A y \in S : <<1..y, 1..x>> \notin R
  BY <1>4 DEF Segments
<1>6. ASSUME NEW y \in S, y < x PROVE FALSE
  <2>1. 1..y \subseteq 1..x /\ x \in 1..x /\ x \notin 1..y
    BY <1>6
  <2>2. <<1..y, 1..x>> \in R
    BY <2>1 DEF R, StrictSubsetOrdering
  <2>3. QED
    BY <1>5, <2>2
<1>7. QED
  BY <1>6

(***************************************************************************)
(* The invariant                                                           *)
(***************************************************************************)
DataTypes == /\ tables \in [Pipe -> FilesOfLoads] /\ visible \in [Folder -> FilesToSee]
             /\ loads \in 0..MaxLoads /\ faults \in 0..MaxFaults
RunTypes == /\ pc \in [Run -> PCs] /\ pipe \in [Run -> Pipe \cup {NoPipe}]
            /\ disposition \in [Run -> Dispositions]
            /\ checks \in [Run -> SUBSET Checks] /\ table \in [Run -> 0..Tables]
            /\ written \in [Run -> SUBSET Table] /\ counted \in [Run -> SUBSET Table]
MindTypes == /\ items \in [Run -> SUBSET Table] /\ todo \in [Run -> SUBSET (1..MaxLoads)]
             /\ file \in [Run -> 0..MaxLoads] /\ due \in [Run -> SUBSET (Checks \X Table)]
             /\ passed \in [Run -> BOOLEAN]
             /\ held \in [Run -> SUBSET (Checks \X Table)]
             /\ met \in [Run -> BOOLEAN] /\ torn \in [Run -> BOOLEAN]
             /\ blind \in [Run -> BOOLEAN]

LEMMA Parts == TypeOK <=> DataTypes /\ RunTypes /\ MindTypes
  BY DEF TypeOK, DataTypes, RunTypes, MindTypes

Copying == {"tree", "walk"}
Publishing == {"publish", "copy"} \cup Copying

\* Where a run is says what kind of pipeline it has.
Placed == \A r \in Run : /\ Active(r) => pipe[r] \in Pipe
                         /\ pc[r] \in Publishing => Exports(r)
                         /\ file[r] # 0 => pc[r] \in Copying
                         /\ pc[r] \in Copying => items[r] # {}
                         /\ pc[r] \in {"connect", "check"} => ~Exports(r)

\* Two runs that meet know it.
Met == \A r, s \in Run : r # s /\ Active(r) /\ Active(s) /\ Meets(pipe[r], pipe[s]) => met[r]

\* A table that has been published.
Done(r, t) == IF disposition[r] = "replace" THEN Shown(r, t) = tables[pipe[r]][t]
                                            ELSE tables[pipe[r]][t] \subseteq Shown(r, t)

\* The table at hand: what is staged of it is shown, is being written, or is
\* still to be copied; and of a replaced one nothing else is shown.
Written(r) == IF file[r] = 0 THEN {} ELSE {file[r]}
Opened(r) == IF file[r] = 0 THEN {} ELSE {Broken(file[r])}
AtHand(r) ==
    /\ todo[r] \subseteq Staged(r) /\ Written(r) \subseteq Staged(r)
    /\ Staged(r) \subseteq Shown(r, Item(r)) \cup Written(r) \cup todo[r]
    /\ Opened(r) \subseteq Shown(r, Item(r))
    /\ disposition[r] = "replace" => Shown(r, Item(r)) \subseteq Staged(r) \cup Opened(r)

\* The publication of a run that met no error and no other run.
PubInv(r) ==
    /\ pc[r] \in Publishing =>
           items[r] \subseteq There(r) /\ \A t \in There(r) \ items[r] : Done(r, t)
    /\ pc[r] = "copy" =>
           disposition[r] = "replace" /\ items[r] # {} /\ Shown(r, Item(r)) = {}
    /\ pc[r] \in Copying => AtHand(r)
    /\ pc[r] = "result" => \A t \in Table : Done(r, t)
Publications == \A r \in Run : Exports(r) /\ ~torn[r] /\ ~met[r] => PubInv(r)

\* What is to be checked has been, or is due; and the tables are all there.
Settled(r, check, t) == Skipped(r, check) \/ <<check, t>> \in held[r]
QualInv(r) ==
    /\ pc[r] \in {"connect", "check", "result"} => blind[r] \/ written[r] \subseteq counted[r]
    /\ pc[r] = "check" => \A check \in checks[r], t \in Targets(r) :
           ~passed[r] \/ <<check, t>> \in due[r] \/ Settled(r, check, t)
    /\ pc[r] = "result" => \A check \in checks[r], t \in Targets(r) :
           ~passed[r] \/ Settled(r, check, t)
Reports == \A r \in Run : Active(r) /\ ~Exports(r) => QualInv(r)

Inv == TypeOK /\ Placed /\ Met /\ Publications /\ Reports

\* The start: no run, no tables, empty folders.
LEMMA InitInv == Init => Inv
<1> SUFFICES ASSUME Init PROVE Inv
  OBVIOUS
<1>1. DataTypes
  BY DEF Init, DataTypes, FilesOfLoads, FilesToSee
<1>2. RunTypes
  BY DispositionsAssumption DEF DispositionsAssumption, Init, RunTypes, PCs
<1>3. MindTypes
  BY DEF Init, MindTypes
<1>4. \A r \in Run : pc[r] = "free" /\ file[r] = 0
  BY DEF Init
<1>5. Placed /\ Met /\ Publications /\ Reports
  BY <1>4 DEF Placed, Met, Publications, PubInv, Reports, Active, Publishing, Copying
<1>6. QED
  BY <1>1, <1>2, <1>3, <1>5, Parts DEF Inv

(***************************************************************************)
(* Types                                                                   *)
(***************************************************************************)
LEMMA OverTypes ==
  ASSUME RunTypes, MindTypes, NEW r \in Run, Over(r)
  PROVE  RunTypes' /\ MindTypes'
<1>1. RunTypes'
  BY DispositionsAssumption DEF DispositionsAssumption, Over, Goto, RunTypes, PCs
<1>2. MindTypes'
  BY DEF Over, MindTypes
<1>3. QED
  BY <1>1, <1>2

LEMMA Exporting ==
  ASSUME TypeOK, Placed, NEW r \in Run
  PROVE  /\ Active(r) => pipe[r] \in Pipe /\ FolderOf[pipe[r]] \in Folder
                         /\ tables[pipe[r]] \in FilesOfLoads
                         /\ visible[FolderOf[pipe[r]]] \in FilesToSee
         /\ items[r] # {} => Item(r) \in items[r] /\ Item(r) \in Table
<1>1. ASSUME items[r] # {} PROVE Item(r) \in items[r]
  <2>1. items[r] \subseteq Nat /\ items[r] # {}
    BY <1>1 DEF TypeOK, Table
  <2>2. \E t \in items[r] : \A u \in items[r] : t <= u
    BY <2>1, FirstExists
  <2>3. QED
    BY <2>2 DEF Item
<1>2. items[r] \subseteq Table
  BY DEF TypeOK
<1>3. Active(r) => pipe[r] \in Pipe
  BY DEF Placed
<1>4. QED
  BY <1>1, <1>2, <1>3 DEF TypeOK

\* Showing files of the loads, broken ones too, keeps the folders' types.
LEMMA ShowTypes ==
  ASSUME DataTypes, NEW r \in Run, Into(r) \in Folder, NEW t \in Table,
         NEW files \in SUBSET ((0 - MaxLoads)..MaxLoads), Show(r, t, files)
  PROVE  visible' \in [Folder -> FilesToSee]
<1>1. visible[Into(r)] \in FilesToSee
  BY DEF DataTypes
<1>2. [visible[Into(r)] EXCEPT ![t] = files] \in FilesToSee
  BY <1>1 DEF FilesToSee
<1>3. visible' = [visible EXCEPT ![Into(r)] = [visible[Into(r)] EXCEPT ![t] = files]]
  BY <1>1 DEF Show
<1>4. QED
  BY <1>2, <1>3 DEF DataTypes

\* What an error of the publication, or of a copy, changes.
GaveUp(r) ==
  /\ pc' \in [Run -> PCs] /\ items' \in [Run -> SUBSET Table]
  /\ todo' \in [Run -> SUBSET (1..MaxLoads)] /\ file' \in [Run -> 0..MaxLoads]
  /\ torn' \in [Run -> BOOLEAN] /\ torn'[r] /\ file'[r] = 0
  /\ pc'[r] = "result" \/ (pc[r] = "tree" /\ pc'[r] = "tree" /\ items'[r] = items[r])
  /\ \A s \in Run : s # r => /\ pc'[s] = pc[s] /\ items'[s] = items[s]
                           /\ todo'[s] = todo[s] /\ file'[s] = file[s]
                           /\ torn'[s] = torn[s]

LEMMA GivingUp == ASSUME TypeOK, NEW r \in Run, GivesUp(r) PROVE GaveUp(r)
  BY DEF GivesUp, GaveUp, Goto, TypeOK, PCs

LEMMA FailedCopy ==
  ASSUME TypeOK, NEW r \in Run, NEW others \in SUBSET todo[r], CopyFails(r, others)
  PROVE  GaveUp(r)
<1>1. CASE GivesUp(r)
  BY <1>1, GivingUp
<1>2. CASE ~GivesUp(r)
  <2>1. /\ pc' = pc /\ items' = items /\ pc[r] = "tree"
        /\ torn' = [torn EXCEPT ![r] = TRUE] /\ file' = [file EXCEPT ![r] = 0]
        /\ todo' = [todo EXCEPT ![r] = others]
    BY <1>2 DEF CopyFails
  <2>2. others \in SUBSET (1..MaxLoads)
    BY DEF TypeOK
  <2>3. QED
    BY <2>1, <2>2 DEF GaveUp, TypeOK
<1>3. QED
  BY <1>1, <1>2

\* What a step of a publication may change.
PublishEffect(r) ==
  /\ Publishes /\ pc[r] \in Publishing /\ faults' \in 0..MaxFaults
  /\ pc' \in [Run -> PCs] /\ items' \in [Run -> SUBSET Table]
  /\ todo' \in [Run -> SUBSET (1..MaxLoads)] /\ file' \in [Run -> 0..MaxLoads]
  /\ torn' \in [Run -> BOOLEAN] /\ (torn[r] => torn'[r])
  /\ pc'[r] \in Publishing \cup {"result"} /\ (file'[r] # 0 => pc'[r] \in Copying)
  /\ pc'[r] \in Copying => items'[r] # {}
  /\ \A s \in Run : s # r => /\ pc'[s] = pc[s] /\ items'[s] = items[s]
                           /\ todo'[s] = todo[s] /\ file'[s] = file[s]
                           /\ torn'[s] = torn[s]
  /\ visible' \in [Folder -> FilesToSee]
  /\ \A f \in Folder : f # Into(r) => visible'[f] = visible[f]

LEMMA RemoveEffect ==
  ASSUME TypeOK, Placed, NEW r \in Run, Remove(r)
  PROVE  PublishEffect(r)
<1>0. DataTypes /\ RunTypes /\ MindTypes
  BY Parts
<1>1. /\ Active(r) /\ pc[r] = "publish" /\ file[r] = 0
      /\ Into(r) \in Folder /\ visible[Into(r)] \in FilesToSee /\ Item(r) \in Table
  BY Exporting DEF Remove, Active, Into, Placed, Copying
<1>2. PICK left \in SUBSET Shown(r, Item(r)) : Show(r, Item(r), left)
  BY DEF Remove
<1>3. left \in SUBSET ((0 - MaxLoads)..MaxLoads)
  BY <1>1, <1>2 DEF Shown, FilesToSee
<1>4. /\ visible' \in [Folder -> FilesToSee]
      /\ \A f \in Folder : f # Into(r) => visible'[f] = visible[f]
  BY <1>0, <1>1, <1>2, <1>3, ShowTypes DEF Show, DataTypes
<1>5. CASE GivesUp(r)
  BY <1>0, <1>1, <1>4, <1>5, GivingUp
  DEF GaveUp, Remove, PublishEffect, Fault, NoFault, DataTypes, Publishing, Copying
<1>6. CASE ~GivesUp(r)
  BY <1>0, <1>1, <1>4, <1>6
  DEF Remove, PublishEffect, NoFault, copying, Goto, DataTypes, RunTypes, MindTypes, Publishing, PCs
<1>7. QED
  BY <1>5, <1>6

LEMMA StartCopyEffect ==
  ASSUME TypeOK, Placed, NEW r \in Run, StartCopy(r)
  PROVE  PublishEffect(r)
<1>0. DataTypes /\ RunTypes /\ MindTypes
  BY Parts
<1>1. /\ Active(r) /\ pc[r] \in {"copy", "publish"} /\ file[r] = 0
      /\ Staged(r) \in SUBSET (1..MaxLoads) /\ items[r] # {}
  BY Exporting DEF StartCopy, Active, Placed, Copying, Staged, FilesOfLoads
<1>2. /\ pc' \in [Run -> PCs] /\ todo' \in [Run -> SUBSET (1..MaxLoads)]
      /\ pc'[r] \in Copying /\ UNCHANGED <<visible, items, file, torn, faults>> /\ Publishes
      /\ \A s \in Run : s # r => pc'[s] = pc[s] /\ todo'[s] = todo[s]
  BY <1>0, <1>1 DEF StartCopy, NoFault, Goto, RunTypes, MindTypes, Copying, PCs
<1>3. QED
  BY <1>0, <1>1, <1>2 DEF PublishEffect, DataTypes, RunTypes, MindTypes, Publishing

LEMMA OpenEffect ==
  ASSUME TypeOK, Placed, NEW r \in Run, Open(r)
  PROVE  PublishEffect(r)
<1>0. DataTypes /\ RunTypes /\ MindTypes
  BY Parts
<1>1. /\ Active(r) /\ pc[r] \in Copying /\ file[r] = 0 /\ items[r] # {}
      /\ Into(r) \in Folder /\ visible[Into(r)] \in FilesToSee /\ Item(r) \in Table
  BY Exporting DEF Open, Active, Placed, Copying, Into
<1>2. PICK n \in todo[r] :
           \/ /\ n \in Staged(r) /\ NoFault
              /\ Show(r, Item(r), (Shown(r, Item(r)) \ {n}) \cup {Broken(n)})
              /\ file' = [file EXCEPT ![r] = n]
              /\ todo' = [todo EXCEPT ![r] = @ \ {n}]
              /\ UNCHANGED <<pc, items, torn>>
           \/ /\ IF met[r] THEN NoFault ELSE Fault
              /\ CopyFails(r, todo[r] \ {n})
              /\ UNCHANGED visible
  BY DEF Open
<1>3. Publishes /\ n \in 1..MaxLoads /\ Broken(n) \in (0 - MaxLoads)..MaxLoads
  BY <1>0 DEF Open, MindTypes, Broken
<1>4. CASE CopyFails(r, todo[r] \ {n}) /\ UNCHANGED visible
           /\ IF met[r] THEN NoFault ELSE Fault
  <2>1. faults' \in 0..MaxFaults
    BY <1>0, <1>4 DEF Fault, NoFault, DataTypes
  <2>2. QED
    BY <1>0, <1>1, <1>3, <1>4, <2>1, FailedCopy DEF GaveUp, PublishEffect, DataTypes, Publishing, Copying
<1>5. CASE /\ n \in Staged(r) /\ NoFault
           /\ Show(r, Item(r), (Shown(r, Item(r)) \ {n}) \cup {Broken(n)})
           /\ file' = [file EXCEPT ![r] = n]
           /\ todo' = [todo EXCEPT ![r] = @ \ {n}]
           /\ UNCHANGED <<pc, items, torn>>
  <2>1. (Shown(r, Item(r)) \ {n}) \cup {Broken(n)} \in SUBSET ((0 - MaxLoads)..MaxLoads)
    BY <1>1, <1>3 DEF Shown, FilesToSee
  <2>2. visible' \in [Folder -> FilesToSee]
    BY <1>0, <1>1, <1>5, <2>1, ShowTypes
  <2>3. \A f \in Folder : f # Into(r) => visible'[f] = visible[f]
    BY <1>0, <1>5 DEF Show, DataTypes
  <2>4. QED
    BY <1>0, <1>1, <1>3, <1>5, <2>2, <2>3
    DEF PublishEffect, NoFault, DataTypes, RunTypes, MindTypes, Publishing
<1>6. QED
  BY <1>2, <1>4, <1>5

LEMMA WriteEffect ==
  ASSUME TypeOK, Placed, NEW r \in Run, Write(r)
  PROVE  PublishEffect(r)
<1>0. DataTypes /\ RunTypes /\ MindTypes
  BY Parts
<1>1. /\ file[r] # 0 /\ pc[r] \in Copying /\ Publishes /\ items[r] # {}
  BY DEF Write, Placed
<1>2. /\ Active(r) /\ file[r] \in 1..MaxLoads
      /\ Into(r) \in Folder /\ visible[Into(r)] \in FilesToSee /\ Item(r) \in Table
  BY <1>0, <1>1, Exporting DEF Active, Copying, Into, MindTypes
<1>3. CASE Fault /\ CopyFails(r, todo[r]) /\ UNCHANGED visible
  <2>1. faults' \in 0..MaxFaults
    BY <1>0, <1>3 DEF Fault, DataTypes
  <2>2. QED
    BY <1>0, <1>1, <1>3, <2>1, FailedCopy DEF GaveUp, PublishEffect, DataTypes, Publishing, Copying
<1>4. ASSUME NEW files \in SUBSET (Shown(r, Item(r)) \cup {file[r]}), NoFault,
             Show(r, Item(r), files), file' = [file EXCEPT ![r] = 0],
             UNCHANGED <<pc, items, todo, torn>>
      PROVE  PublishEffect(r)
  <2>1. files \in SUBSET ((0 - MaxLoads)..MaxLoads)
    BY <1>2, <1>4 DEF Shown, FilesToSee
  <2>2. visible' \in [Folder -> FilesToSee]
    BY <1>0, <1>2, <1>4, <2>1, ShowTypes
  <2>3. \A f \in Folder : f # Into(r) => visible'[f] = visible[f]
    BY <1>0, <1>4 DEF Show, DataTypes
  <2>4. QED
    BY <1>0, <1>1, <1>4, <2>2, <2>3
    DEF PublishEffect, NoFault, DataTypes, RunTypes, MindTypes, Publishing
<1>5. QED
  BY <1>3, <1>4 DEF Write

LEMMA ItemDoneEffect ==
  ASSUME TypeOK, Placed, NEW r \in Run, ItemDone(r)
  PROVE  PublishEffect(r)
<1>0. DataTypes /\ RunTypes /\ MindTypes
  BY Parts
<1>1. CASE GivesUp(r)
  BY <1>0, <1>1, GivingUp
  DEF GaveUp, ItemDone, NoFault, PublishEffect, Placed, DataTypes, Publishing, Copying
<1>2. CASE ~GivesUp(r)
  BY <1>0, <1>2
  DEF ItemDone, NoFault, Goto, PublishEffect, DataTypes, RunTypes, MindTypes, Publishing, Copying, PCs
<1>3. QED
  BY <1>1, <1>2

LEMMA TidyEffect ==
  ASSUME TypeOK, Placed, NEW r \in Run, Tidy(r)
  PROVE  PublishEffect(r)
<1>0. DataTypes /\ RunTypes /\ MindTypes
  BY Parts
<1>1. /\ Active(r) /\ pc[r] = "publish" /\ file[r] = 0
      /\ Into(r) \in Folder /\ visible[Into(r)] \in FilesToSee
  BY Exporting DEF Tidy, Active, Into, Placed, Copying
<1>2. ASSUME NEW some,
             visible' = [visible EXCEPT ![Into(r)] =
                             [t \in Table |-> IF t \in some THEN {} ELSE @[t]]]
      PROVE  /\ visible' \in [Folder -> FilesToSee]
             /\ \A f \in Folder : f # Into(r) => visible'[f] = visible[f]
  <2> DEFINE new == [t \in Table |-> IF t \in some THEN {} ELSE visible[Into(r)][t]]
  <2>1. new \in FilesToSee
    BY <1>1 DEF FilesToSee
  <2>2. visible' = [visible EXCEPT ![Into(r)] = new]
    BY <1>0, <1>1, <1>2 DEF DataTypes
  <2> HIDE DEF new
  <2>3. QED
    BY <1>0, <2>1, <2>2 DEF DataTypes
<1>3. /\ visible' \in [Folder -> FilesToSee]
      /\ \A f \in Folder : f # Into(r) => visible'[f] = visible[f]
  <2>1. CASE UNCHANGED visible
    BY <1>0, <2>1 DEF DataTypes
  <2>2. QED
    BY <1>2, <2>1 DEF Tidy
<1>7. \/ NoFault /\ UNCHANGED torn
      \/ Fault /\ torn' = [torn EXCEPT ![r] = TRUE]
  BY DEF Tidy
<1>4. /\ Publishes /\ UNCHANGED copying /\ faults' \in 0..MaxFaults
      /\ torn' \in [Run -> BOOLEAN] /\ (torn[r] => torn'[r])
      /\ \A s \in Run : s # r => torn'[s] = torn[s]
  <2>1. Publishes /\ UNCHANGED copying
    BY DEF Tidy
  <2>2. faults' \in 0..MaxFaults
    BY <1>0, <1>7 DEF Fault, NoFault, DataTypes
  <2>3. QED
    BY <1>0, <1>7, <2>1, <2>2 DEF MindTypes
<1>5. pc' \in [Run -> PCs] /\ pc'[r] = "result" /\ \A s \in Run : s # r => pc'[s] = pc[s]
  BY <1>0 DEF Tidy, Goto, RunTypes, PCs
<1>8. QED
  BY <1>0, <1>1, <1>3, <1>4, <1>5 DEF PublishEffect, copying, MindTypes, Publishing, Copying

LEMMA PublishEffects ==
  ASSUME TypeOK, Placed, NEW r \in Run, Publish(r)
  PROVE  PublishEffect(r)
BY RemoveEffect, StartCopyEffect, OpenEffect, WriteEffect, ItemDoneEffect, TidyEffect DEF Publish

\* The load.
LEMMA LoadTypes ==
  ASSUME TypeOK, Placed, NEW r \in Run, NEW p \in Pipe, NEW d \in Dispositions,
         NEW ts \in SUBSET Table, Load(r, p, d, ts)
  PROVE  TypeOK'
<1>0. DataTypes /\ RunTypes /\ MindTypes
  BY Parts
<1>1. loads' \in 0..MaxLoads /\ loads + 1 \in 1..MaxLoads
  BY <1>0 DEF Load, DataTypes
<1>2. tables' \in [Pipe -> FilesOfLoads]
  <2> DEFINE after(t) == IF d = "replace" THEN {loads + 1} ELSE tables[p][t] \cup {loads + 1}
             new == [t \in Table |-> IF t \in ts THEN after(t) ELSE tables[p][t]]
  <2>1. tables[p] \in FilesOfLoads
    BY <1>0 DEF DataTypes
  <2>2. new \in FilesOfLoads
    BY <1>1, <2>1 DEF FilesOfLoads
  <2>3. tables' = [tables EXCEPT ![p] = new]
    BY <1>0 DEF Load, DataTypes
  <2> HIDE DEF new
  <2>4. QED
    BY <1>0, <2>2, <2>3 DEF DataTypes
<1>3. DataTypes'
  BY <1>0, <1>1, <1>2 DEF Load, DataTypes
<1>4. pc' \in [Run -> PCs] /\ pipe' \in [Run -> Pipe \cup {NoPipe}]
  BY <1>0 DEF Load, Goto, RunTypes, PCs
<1>5. checks' \in [Run -> SUBSET Checks] /\ table' \in [Run -> 0..Tables]
  <2>1. PICK c \in SUBSET Checks, t \in 0..Tables :
            checks' = [checks EXCEPT ![r] = c] /\ table' = [table EXCEPT ![r] = t]
    BY DEF Load
  <2>2. QED
    BY <1>0, <2>1 DEF RunTypes
<1>6. RunTypes'
  BY <1>0, <1>4, <1>5 DEF Load, RunTypes
<1>7. met' \in [Run -> BOOLEAN]
  <2>1. \A s \in Run : met'[s] \in BOOLEAN
    BY <1>0 DEF Load, MindTypes
  <2>2. QED
    BY <2>1 DEF Load
<1>8. MindTypes'
  BY <1>0, <1>7 DEF Load, copying, MindTypes
<1>9. QED
  BY <1>3, <1>6, <1>8, Parts DEF TypeOK, DataTypes, RunTypes, MindTypes

LEMMA LoadFailsTypes ==
  ASSUME TypeOK, NEW p \in Pipe, NEW ts \in SUBSET Table, LoadFails(p, ts)
  PROVE  TypeOK'
<1>0. DataTypes /\ RunTypes /\ MindTypes
  BY Parts
<1>1. loads' \in 0..MaxLoads /\ loads + 1 \in 1..MaxLoads /\ faults' \in 0..MaxFaults
  BY <1>0 DEF LoadFails, Fault, DataTypes
<1>2. tables' \in [Pipe -> FilesOfLoads]
  <2> DEFINE new == [t \in Table |-> IF t \in ts THEN tables[p][t] \cup {loads + 1}
                                                ELSE tables[p][t]]
  <2>1. tables[p] \in FilesOfLoads
    BY <1>0 DEF DataTypes
  <2>2. new \in FilesOfLoads
    BY <1>1, <2>1 DEF FilesOfLoads
  <2>3. tables' = [tables EXCEPT ![p] = new]
    BY <1>0 DEF LoadFails, DataTypes
  <2> HIDE DEF new
  <2>4. QED
    BY <1>0, <2>2, <2>3 DEF DataTypes
<1>3. met' \in [Run -> BOOLEAN]
  <2>1. \A s \in Run : (met[s] \/ (Active(s) /\ Meets(p, pipe[s]))) \in BOOLEAN
    BY <1>0 DEF MindTypes
  <2>2. QED
    BY <2>1 DEF LoadFails
<1>4. QED
  BY <1>0, <1>1, <1>2, <1>3, Parts
  DEF LoadFails, config, copying, DataTypes, RunTypes, MindTypes, TypeOK

\* The other steps of a run.
LEMMA WorkTypes ==
  ASSUME TypeOK, Placed, NEW r \in Run,
         \/ Count(r) \/ Publish(r) \/ Connect(r) \/ Check(r) \/ Result(r) \/ Dies(r)
  PROVE  TypeOK'
<1>0. DataTypes /\ RunTypes /\ MindTypes
  BY Parts
<1> SUFFICES DataTypes' /\ RunTypes' /\ MindTypes'
  BY DEF TypeOK, DataTypes, RunTypes, MindTypes
<1>1. faults' \in 0..MaxFaults
  <2>1. CASE Publish(r)
    BY <2>1, PublishEffects DEF PublishEffect
  <2>2. CASE Count(r) \/ Connect(r) \/ Check(r) \/ Result(r) \/ Dies(r)
    BY <1>0, <2>2 DEF Count, Connect, Check, Result, Dies, Fault, NoFault, DataTypes
  <2>3. QED
    BY <2>1, <2>2
<1>2. There(r) \in SUBSET Table
  BY DEF There
<1>3. CASE Count(r)
  <2>1. counted' \in [Run -> SUBSET Table] /\ blind' \in [Run -> BOOLEAN]
    <3>1. Counts(r) \cup CountsAfterError(r) \subseteq SUBSET Table
      BY <1>0, <1>2 DEF Counts, CountsAfterError, RunTypes
    <3>2. QED
      BY <1>0, <1>3, <3>1 DEF Count, RunTypes, MindTypes
  <2>2. pc' \in [Run -> PCs] /\ items' \in [Run -> SUBSET Table]
    <3>1. \/ items' = [items EXCEPT ![r] = There(r)] /\ Goto(r, "publish")
          \/ Goto(r, "connect") /\ UNCHANGED items
      BY <1>3 DEF Count
    <3>2. QED
      BY <1>0, <1>2, <3>1 DEF Goto, PCs, RunTypes, MindTypes
  <2>3. QED
    BY <1>0, <1>1, <1>3, <2>1, <2>2 DEF Count, data, config, DataTypes, RunTypes, MindTypes
<1>4. CASE Publish(r)
  BY <1>0, <1>4, PublishEffects
  DEF PublishEffect, Publishes, config, DataTypes, RunTypes, MindTypes
<1>5. CASE Connect(r)
  <2>1. DataTypes'
    BY <1>0, <1>1, <1>5 DEF Connect, data, DataTypes
  <2>2. CASE Over(r)
    BY <1>0, <2>1, <2>2, OverTypes
  <2>3. CASE ~Over(r)
    <3>1. Targets(r) \subseteq Table
      BY <1>0 DEF Targets, RunTypes, Table
    <3>2. due' \in [Run -> SUBSET (Checks \X Table)]
      <4>1. checks[r] \X Targets(r) \in SUBSET (Checks \X Table)
        BY <1>0, <3>1 DEF RunTypes
      <4>2. \/ due' = [due EXCEPT ![r] = checks[r] \X Targets(r)]
            \/ due' = due
        BY <1>5, <2>3 DEF Connect, ghosts
      <4>3. QED
        BY <1>0, <4>1, <4>2 DEF MindTypes
    <3>3. passed' \in [Run -> BOOLEAN]
      BY <1>0, <1>5, <2>3 DEF Connect, MindTypes
    <3>4. pc' \in [Run -> PCs]
      BY <1>0, <1>5, <2>3 DEF Connect, Goto, PCs, RunTypes
    <3>5. QED
      BY <1>0, <1>5, <2>1, <2>3, <3>2, <3>3, <3>4 DEF Connect, config, copying, ghosts, RunTypes, MindTypes
  <2>4. QED
    BY <2>2, <2>3
<1>6. CASE Check(r)
  <2>1. due' \in [Run -> SUBSET (Checks \X Table)]
    BY <1>0, <1>6 DEF Check, MindTypes
  <2>2. pc' \in [Run -> PCs]
    BY <1>0, <1>6 DEF Check, Goto, PCs, RunTypes
  <2>3. passed' \in [Run -> BOOLEAN] /\ held' \in [Run -> SUBSET (Checks \X Table)]
    <3> DEFINE next == CHOOSE d \in due[r] : TRUE
    <3>1. due[r] # {} => next \in Checks \X Table
      BY <1>0 DEF MindTypes
    <3> HIDE DEF next
    <3>2. \/ UNCHANGED <<passed, held>>
          \/ \E result : /\ next \in Checks \X Table
                         /\ passed' = [passed EXCEPT ![r] = @ /\ Safely(result)]
                         /\ held' = [held EXCEPT ![r] =
                                         IF result = "held" THEN @ \cup {next} ELSE @]
      BY <1>6, <3>1 DEF Check, next
    <3>3. \A result : (passed[r] /\ Safely(result)) \in BOOLEAN
      BY DEF Safely
    <3>4. passed' \in [Run -> BOOLEAN]
      BY <1>0, <3>2, <3>3 DEF MindTypes
    <3>5. held' \in [Run -> SUBSET (Checks \X Table)]
      BY <1>0, <3>2 DEF MindTypes
    <3>6. QED
      BY <3>4, <3>5
  <2>4. QED
    BY <1>0, <1>1, <1>6, <2>1, <2>2, <2>3 DEF Check, data, config, copying, DataTypes, RunTypes, MindTypes
<1>7. CASE Result(r) \/ Dies(r)
  <2>1. DataTypes' /\ Over(r)
    BY <1>0, <1>1, <1>7 DEF Result, Dies, data, DataTypes
  <2>2. QED
    BY <1>0, <2>1, OverTypes
<1>8. QED
  BY <1>3, <1>4, <1>5, <1>6, <1>7

LEMMA NextTypes == TypeOK /\ Placed /\ [Next]_vars => TypeOK'
<1> SUFFICES ASSUME TypeOK, Placed, [Next]_vars PROVE TypeOK'
  OBVIOUS
<1>1. ASSUME NEW r \in Run, Step(r) PROVE TypeOK'
  BY <1>1, LoadTypes, WorkTypes DEF Step
<1>2. ASSUME NEW p \in Pipe, NEW ts \in SUBSET Table, LoadFails(p, ts) PROVE TypeOK'
  BY <1>2, LoadFailsTypes
<1>3. CASE UNCHANGED vars
  BY <1>3 DEF vars, data, config, copying, ghosts, TypeOK
<1>4. QED
  BY <1>1, <1>2, <1>3 DEF Next

(***************************************************************************)
(* Runs beside each other                                                  *)
(***************************************************************************)
\* What a step of another run, or a load that fails, leaves of run s.
Apart(s) ==
    /\ pc'[s] = pc[s] /\ pipe'[s] = pipe[s] /\ disposition'[s] = disposition[s]
    /\ checks'[s] = checks[s] /\ table'[s] = table[s] /\ written'[s] = written[s]
    /\ counted'[s] = counted[s] /\ items'[s] = items[s] /\ todo'[s] = todo[s]
    /\ file'[s] = file[s] /\ due'[s] = due[s]
    /\ passed'[s] = passed[s] /\ held'[s] = held[s] /\ torn'[s] = torn[s]
    /\ blind'[s] = blind[s]
    /\ met[s] => met'[s]
    /\ Active(s) /\ ~met'[s] => tables'[pipe[s]] = tables[pipe[s]]
    /\ Active(s) /\ ~met'[s] /\ Exports(s) => visible'[Into(s)] = visible[Into(s)]

LEMMA StepApart ==
  ASSUME TypeOK, Placed, Met, NEW r \in Run, NEW s \in Run, r # s, Step(r)
  PROVE  Apart(s)
<1>0. DataTypes /\ RunTypes /\ MindTypes
  BY Parts
<1>1. ASSUME NEW p \in Pipe, NEW d \in Dispositions, NEW ts \in SUBSET Table, Load(r, p, d, ts)
      PROVE  Apart(s)
  <2>1. /\ pc'[s] = pc[s] /\ pipe'[s] = pipe[s] /\ disposition'[s] = disposition[s]
        /\ checks'[s] = checks[s] /\ table'[s] = table[s] /\ written'[s] = written[s]
    BY <1>0, <1>1 DEF Load, Goto, RunTypes
  <2>2. met'[s] = (met[s] \/ (Active(s) /\ Meets(p, pipe[s])))
    BY <1>1 DEF Load
  <2>3. \A q \in Pipe : q # p => tables'[q] = tables[q]
    BY <1>0, <1>1 DEF Load, DataTypes
  <2>4. Active(s) => pipe[s] \in Pipe
    BY DEF Placed
  <2>5. QED
    BY <1>1, <2>1, <2>2, <2>3, <2>4 DEF Load, copying, Apart, Meets
<1>2. CASE Count(r) \/ Connect(r) \/ Check(r) \/ Result(r) \/ Dies(r)
  <2>1. UNCHANGED <<tables, visible>>
    BY <1>2 DEF Count, Connect, Check, Result, Dies, data
  <2>2. /\ pc'[s] = pc[s] /\ pipe'[s] = pipe[s] /\ disposition'[s] = disposition[s]
        /\ checks'[s] = checks[s] /\ table'[s] = table[s] /\ written'[s] = written[s]
        /\ counted'[s] = counted[s]
    BY <1>0, <1>2 DEF Count, Connect, Check, Result, Dies, Over, Goto, config, RunTypes
  <2>3. /\ items'[s] = items[s] /\ todo'[s] = todo[s] /\ file'[s] = file[s] /\ due'[s] = due[s] /\ passed'[s] = passed[s]
        /\ held'[s] = held[s] /\ torn'[s] = torn[s] /\ blind'[s] = blind[s]
        /\ met'[s] = met[s]
    BY <1>0, <1>2 DEF Count, Connect, Check, Result, Dies, Over, copying, ghosts, MindTypes
  <2>4. QED
    BY <2>1, <2>2, <2>3 DEF Apart
<1>3. CASE Publish(r)
  <2>1. PublishEffect(r)
    BY <1>3, PublishEffects
  <2>2. Publishes
    BY <2>1 DEF PublishEffect
  <2>3. \A f \in Folder : f # Into(r) => visible'[f] = visible[f]
    BY <2>1 DEF PublishEffect
  <2>4. Active(r) /\ Exports(r)
    BY <2>1 DEF PublishEffect, Publishing, Copying, Active, Placed
  <2>5. ASSUME Active(s), ~met'[s], Exports(s) PROVE Into(s) \in Folder /\ Into(s) # Into(r)
    <3>1. ~met[s] /\ pipe[s] \in Pipe
      BY <2>2, <2>5 DEF Publishes, Placed
    <3>2. ~Meets(pipe[s], pipe[r])
      BY <2>4, <2>5, <3>1 DEF Met
    <3>3. QED
      BY <2>4, <2>5, <3>1, <3>2 DEF Meets, Exports, Into
  <2>6. QED
    BY <2>1, <2>2, <2>3, <2>5 DEF PublishEffect, Publishes, config, Apart
<1>4. QED
  BY <1>1, <1>2, <1>3 DEF Step

LEMMA LoadFailsApart ==
  ASSUME TypeOK, Placed, NEW s \in Run, NEW p \in Pipe, NEW ts \in SUBSET Table,
         LoadFails(p, ts)
  PROVE  Apart(s)
<1>1. met'[s] = (met[s] \/ (Active(s) /\ Meets(p, pipe[s])))
  BY DEF LoadFails
<1>2. \A q \in Pipe : q # p => tables'[q] = tables[q]
  BY DEF LoadFails, TypeOK
<1>3. Active(s) => pipe[s] \in Pipe
  BY DEF Placed
<1>4. QED
  BY <1>1, <1>2, <1>3 DEF LoadFails, config, copying, Apart, Meets

LEMMA ApartKeeps ==
  ASSUME NEW s \in Run, Apart(s), Publications, Reports, Placed
  PROVE  /\ (Exports(s) /\ ~torn[s] /\ ~met[s] => PubInv(s))'
         /\ (Active(s) /\ ~Exports(s) => QualInv(s))'
<1>1. ASSUME Exports(s)', ~torn'[s], ~met'[s] PROVE PubInv(s)'
  <2>1. Exports(s) /\ ~torn[s] /\ ~met[s]
    BY <1>1 DEF Apart, Exports
  <2>2. PubInv(s)
    BY <2>1 DEF Publications
  <2>3. CASE Active(s)
    <3>1. tables'[pipe'[s]] = tables[pipe[s]] /\ visible'[Into(s)'] = visible[Into(s)]
      BY <1>1, <2>1, <2>3 DEF Apart, Into
    <3>2. There(s)' = There(s) /\ Item(s)' = Item(s)
      BY <3>1 DEF Apart, There, Item
    <3>3. \A t : Shown(s, t)' = Shown(s, t) /\ (Done(s, t)' <=> Done(s, t))
      BY <3>1 DEF Apart, Shown, Done
    <3>4. AtHand(s)' <=> AtHand(s)
      BY <3>1, <3>2, <3>3 DEF Apart, AtHand, Staged, Written, Opened
    <3>5. QED
      BY <2>2, <3>2, <3>3, <3>4 DEF Apart, PubInv
  <2>4. CASE ~Active(s)
    BY <2>4 DEF Apart, Active, PubInv, Publishing, Copying
  <2>5. QED
    BY <2>3, <2>4
<1>2. ASSUME Active(s)', ~Exports(s)' PROVE QualInv(s)'
  <2>1. QualInv(s)
    BY <1>2 DEF Apart, Active, Exports, Reports
  <2>2. Targets(s)' = Targets(s)
    BY DEF Apart, Targets
  <2>3. \A check, t : Settled(s, check, t)' <=> Settled(s, check, t)
    BY DEF Apart, Settled, Skipped
  <2>4. QED
    BY <2>1, <2>2, <2>3 DEF Apart, QualInv
<1>3. QED
  BY <1>1, <1>2

(***************************************************************************)
(* The run's own steps                                                     *)
(***************************************************************************)
LEMMA StepPlaced ==
  ASSUME TypeOK, Placed, NEW r \in Run, Step(r)
  PROVE  /\ Active(r)' => pipe'[r] \in Pipe
         /\ pc'[r] \in Publishing => Exports(r)'
         /\ file'[r] # 0 => pc'[r] \in Copying
         /\ pc'[r] \in Copying => items'[r] # {}
         /\ pc'[r] \in {"connect", "check"} => ~Exports(r)'
<1>0. RunTypes /\ MindTypes /\ (Active(r) => pipe[r] \in Pipe)
  BY Parts DEF Placed
<1>1. ASSUME NEW p \in Pipe, NEW d \in Dispositions, NEW ts \in SUBSET Table, Load(r, p, d, ts)
      PROVE  pc'[r] = "count" /\ pipe'[r] \in Pipe /\ file'[r] = 0
  BY <1>0, <1>1 DEF Load, copying, Goto, Active, Placed, Copying, RunTypes
<1>2. CASE Count(r)
  <2>1. /\ Active(r) /\ pipe'[r] = pipe[r] /\ file'[r] = 0
        /\ pc'[r] = IF Exports(r) THEN "publish" ELSE "connect"
    BY <1>0, <1>2 DEF Count, Goto, config, Active, Exports, Placed, Copying, RunTypes
  <2>2. QED
    BY <1>0, <2>1 DEF Exports, Publishing, Copying
<1>3. CASE Publish(r)
  <2>1. PublishEffect(r)
    BY <1>3, PublishEffects
  <2>2. Active(r) /\ Exports(r) /\ pipe'[r] = pipe[r]
    BY <2>1 DEF PublishEffect, Publishes, config, Active, Placed, Publishing, Copying
  <2>3. QED
    BY <1>0, <2>1, <2>2 DEF PublishEffect, Exports, Publishing, Copying
<1>4. CASE Connect(r) \/ Check(r)
  <2>1. CASE Over(r)
    BY <1>0, <2>1 DEF Over, Goto, Active, RunTypes, MindTypes, Publishing, Copying
  <2>2. CASE ~Over(r)
    <3>1. Active(r) /\ ~Exports(r) /\ pipe'[r] = pipe[r] /\ file'[r] = 0
      BY <1>4, <2>2 DEF Connect, Check, config, copying, Active, Placed, Copying
    <3>2. pc'[r] \in {"check", "result"}
      BY <1>0, <1>4, <2>2 DEF Connect, Check, Goto, RunTypes
    <3>3. QED
      BY <1>0, <3>1, <3>2 DEF Exports, Publishing, Copying
  <2>3. QED
    BY <2>1, <2>2
<1>5. CASE Result(r) \/ Dies(r)
  BY <1>0, <1>5 DEF Result, Dies, Over, Goto, Active, RunTypes, MindTypes, Publishing, Copying
<1>6. QED
  BY <1>1, <1>2, <1>3, <1>4, <1>5 DEF Step, Active, Publishing, Copying

\* A publication goes on, or ends, with every table it is done with as staged.
LEMMA StepPublishes ==
  ASSUME TypeOK, Placed, Publications, NEW r \in Run, Step(r),
         Exports(r)', ~torn'[r], ~met'[r]
  PROVE  PubInv(r)'
<1>0. DataTypes /\ RunTypes /\ MindTypes
  BY Parts
<1>1. ASSUME NEW p \in Pipe, NEW d \in Dispositions, NEW ts \in SUBSET Table, Load(r, p, d, ts)
      PROVE  PubInv(r)'
  BY <1>0, <1>1 DEF Load, Goto, RunTypes, PubInv, Publishing, Copying
<1>2. CASE Count(r)
  <2>1. UNCHANGED <<tables, pipe>> /\ pipe' = pipe
    BY <1>2 DEF Count, data, config
  <2>2. pc'[r] = "publish" /\ items'[r] = There(r)
    BY <1>0, <1>2, <2>1 DEF Count, Goto, Exports, RunTypes, MindTypes
  <2>3. There(r)' = There(r)
    BY <2>1 DEF There
  <2>4. QED
    BY <2>2, <2>3 DEF PubInv, Publishing, Copying
<1>3. CASE Publish(r)
  <2>0. PublishEffect(r)
    BY <1>3, PublishEffects
  <2>1. /\ UNCHANGED <<tables, pipe, disposition>> /\ met'[r] = met[r]
        /\ Active(r) /\ There(r)' = There(r)
    BY <2>0 DEF PublishEffect, Publishes, config, Active, There, Publishing, Copying
  <2>2. Exports(r) /\ Into(r)' = Into(r)
    BY <2>1 DEF Exports, Into
  <2>3. ~torn[r]
    BY <2>0 DEF PublishEffect
  <2>4. PubInv(r)
    BY <2>1, <2>2, <2>3 DEF Publications
  <2>5. /\ Into(r) \in Folder /\ tables[pipe[r]] \in FilesOfLoads
        /\ visible[Into(r)] \in FilesToSee
        /\ items[r] # {} => Item(r) \in items[r] /\ Item(r) \in Table
    BY <2>1, Exporting DEF Into
  <2>6. ~GivesUp(r) /\ \A others \in SUBSET todo[r] : ~CopyFails(r, others)
    BY GivingUp, FailedCopy DEF GaveUp
  <2>7. ASSUME NEW t \in Table, NEW files, Show(r, t, files)
        PROVE  /\ Shown(r, t)' = files
               /\ \A u \in Table : u # t => Shown(r, u)' = Shown(r, u)
    BY <1>0, <2>2, <2>5, <2>7 DEF Show, Shown, DataTypes, FilesToSee
  <2>8. CASE Remove(r)
    <3>1. /\ Show(r, Item(r), {}) /\ pc'[r] = "copy" /\ items' = items /\ items[r] # {}
          /\ pc[r] = "publish" /\ disposition[r] = "replace"
      BY <1>0, <2>6, <2>8 DEF Remove, Removes, copying, Goto, RunTypes
    <3>2. Item(r) \in items[r] /\ Item(r) \in Table /\ Item(r)' = Item(r)
      BY <2>5, <3>1 DEF Item
    <3>3. Shown(r, Item(r))' = {}
      BY <2>7, <3>1, <3>2
    <3>4. \A t \in There(r) \ items[r] : Done(r, t)'
      <4>1. \A t \in There(r) \ items[r] : t \in Table /\ t # Item(r) /\ Done(r, t)
        BY <2>4, <3>1, <3>2 DEF PubInv, There, Publishing
      <4>2. QED
        BY <2>1, <2>7, <3>1, <3>2, <4>1 DEF Done
    <3>5. items[r] \subseteq There(r)
      BY <2>4, <3>1 DEF PubInv, Publishing
    <3>6. QED
      BY <2>1, <3>1, <3>2, <3>3, <3>4, <3>5 DEF PubInv, Shown, Publishing, Copying
  <2>9. ASSUME pc[r] \in Publishing, items'[r] = items[r], items[r] # {},
               pc'[r] \in Copying, AtHand(r)',
               \A u \in Table : u # Item(r) => Shown(r, u)' = Shown(r, u)
        PROVE  PubInv(r)'
    <3>1. items[r] \subseteq There(r) /\ \A u \in There(r) \ items[r] : u \in Table /\ Done(r, u)
      BY <2>4, <2>9 DEF PubInv, There
    <3>2. \A u \in There(r) \ items[r] : Done(r, u)'
      BY <2>1, <2>5, <2>9, <3>1 DEF Done
    <3>3. QED
      BY <2>1, <2>9, <3>1, <3>2 DEF PubInv, Publishing, Copying
  <2>12. CASE StartCopy(r)
    <3>1. /\ UNCHANGED <<visible, items, file>> /\ todo'[r] = Staged(r) /\ items[r] # {}
          /\ pc[r] \in {"publish", "copy"} /\ pc'[r] \in Copying
      BY <1>0, <2>12 DEF StartCopy, Goto, RunTypes, MindTypes, Copying
    <3>2. file[r] = 0 /\ Item(r)' = Item(r)
      BY <3>1 DEF Placed, Copying, Item
    <3>3. disposition[r] = "replace" => Shown(r, Item(r)) = {}
      BY <2>4, <2>12 DEF StartCopy, Removes, PubInv
    <3>4. Staged(r)' = Staged(r) /\ \A u : Shown(r, u)' = Shown(r, u)
      BY <2>1, <2>2, <3>1, <3>2 DEF Staged, Shown
    <3>5. AtHand(r)'
      <4>1. Shown(r, Item(r))' = Shown(r, Item(r))
        BY <2>2, <3>1, <3>2 DEF Shown
      <4>2. QED
        BY <2>1, <3>1, <3>2, <3>3, <3>4, <4>1 DEF AtHand, Written, Opened
    <3>6. QED
      BY <2>9, <3>1, <3>4, <3>5 DEF Publishing
  <2>13. CASE Open(r)
    <3>1. PICK n \in todo[r] :
              /\ n \in Staged(r)
              /\ Show(r, Item(r), (Shown(r, Item(r)) \ {n}) \cup {Broken(n)})
              /\ file' = [file EXCEPT ![r] = n]
              /\ todo' = [todo EXCEPT ![r] = @ \ {n}]
              /\ UNCHANGED <<pc, items>>
      BY <2>6, <2>13 DEF Open
    <3>2. /\ file[r] = 0 /\ pc[r] \in Copying /\ items[r] # {} /\ Item(r) \in Table
          /\ n \in 1..MaxLoads /\ file'[r] = n /\ todo'[r] = todo[r] \ {n}
      BY <1>0, <2>5, <2>13, <3>1 DEF Open, Copying, Placed, MindTypes
    <3>0. PICK t : t = Item(r)
      OBVIOUS
    <3>3. /\ Shown(r, t)' = (Shown(r, t) \ {n}) \cup {Broken(n)}
          /\ \A u \in Table : u # t => Shown(r, u)' = Shown(r, u)
      BY <2>7, <3>0, <3>1, <3>2
    <3>6. Item(r)' = t /\ Staged(r)' = Staged(r)
      BY <2>1, <3>0, <3>1 DEF Item, Staged
    <3>4. AtHand(r)
      BY <2>4, <3>2 DEF PubInv
    <3>5. /\ Written(r)' = {n} /\ Opened(r)' = {Broken(n)}
          /\ Written(r) = {} /\ Opened(r) = {}
      BY <3>2 DEF Written, Opened, Broken
    <3>7. AtHand(r)'
      <4>1. Shown(r, Item(r))' = (Shown(r, t) \ {n}) \cup {Broken(n)}
        BY <3>3, <3>6 DEF Shown
      <4>2. QED
        BY <2>1, <3>0, <3>1, <3>2, <3>4, <3>5, <3>6, <4>1 DEF AtHand
    <3>8. QED
      BY <2>9, <3>0, <3>1, <3>2, <3>3, <3>7 DEF Publishing
  <2>14. CASE Write(r)
    <3>1. /\ file[r] # 0 /\ pc[r] \in Copying /\ items[r] # {} /\ Item(r) \in Table
          /\ file[r] \in 1..MaxLoads /\ AtHand(r)
      BY <1>0, <2>4, <2>5, <2>14 DEF Write, Placed, MindTypes, PubInv
    <3>2. Broken(file[r]) \in Shown(r, Item(r))
      BY <3>1 DEF AtHand, Opened
    <3>3. /\ Show(r, Item(r), (Shown(r, Item(r)) \ {Broken(file[r])}) \cup {file[r]})
          /\ file' = [file EXCEPT ![r] = 0] /\ UNCHANGED <<pc, items, todo>>
      BY <2>6, <2>14, <3>2 DEF Write
    <3>0. PICK t : t = Item(r)
      OBVIOUS
    <3>4. /\ Shown(r, t)' = (Shown(r, t) \ {Broken(file[r])}) \cup {file[r]}
          /\ \A u \in Table : u # t => Shown(r, u)' = Shown(r, u)
      BY <2>7, <3>0, <3>1, <3>3
    <3>6. Item(r)' = t /\ Staged(r)' = Staged(r) /\ file'[r] = 0
      BY <1>0, <2>1, <3>0, <3>3 DEF Item, Staged, MindTypes
    <3>5. Broken(file[r]) \notin Staged(r)
      <4>1. Staged(r) \subseteq 1..MaxLoads
        BY <2>5, <3>1 DEF Staged, FilesOfLoads
      <4>2. QED
        BY <3>1, <4>1 DEF Broken
    <3>7. AtHand(r)'
      <4>1. Shown(r, Item(r))' = (Shown(r, t) \ {Broken(file[r])}) \cup {file[r]}
        BY <3>4, <3>6 DEF Shown
      <4>2. QED
        BY <2>1, <3>0, <3>1, <3>3, <3>5, <3>6, <4>1 DEF AtHand, Written, Opened
    <3>8. QED
      BY <2>9, <3>0, <3>1, <3>3, <3>4, <3>7 DEF Publishing
  <2>15. CASE ItemDone(r)
    <3>0. PICK t : t = Item(r)
      OBVIOUS
    <3>1. /\ pc[r] \in Copying /\ file[r] = 0 /\ todo[r] = {} /\ items'[r] = items[r] \ {t}
          /\ pc'[r] = "publish" /\ UNCHANGED visible
      BY <1>0, <2>6, <2>15, <3>0 DEF ItemDone, Goto, Copying, RunTypes, MindTypes
    <3>2. t \in items[r] /\ t \in Table
      BY <2>5, <3>0, <3>1 DEF Placed
    <3>3. \A u : Shown(r, u)' = Shown(r, u)
      BY <2>2, <3>1 DEF Shown
    <3>4. items[r] \subseteq There(r) /\ \A u \in There(r) \ items[r] : Done(r, u)
      BY <2>4, <3>1 DEF PubInv, Publishing
    <3>5. Done(r, t)
      <4>1. AtHand(r)
        BY <2>4, <3>1 DEF PubInv
      <4>2. /\ tables[pipe[r]][t] \subseteq Shown(r, t)
            /\ disposition[r] = "replace" => Shown(r, t) = tables[pipe[r]][t]
        <5>1. Written(r) = {} /\ Opened(r) = {} /\ todo[r] = {}
          BY <3>1 DEF Written, Opened
        <5>2. Staged(r) = tables[pipe[r]][t]
          BY <3>0 DEF Staged
        <5>3. /\ Staged(r) \subseteq Shown(r, t) \cup Written(r) \cup todo[r]
              /\ disposition[r] = "replace" => Shown(r, t) \subseteq Staged(r) \cup Opened(r)
          BY <3>0, <4>1 DEF AtHand
        <5>4. /\ tables[pipe[r]][t] \subseteq Shown(r, t)
              /\ disposition[r] = "replace" => Shown(r, t) \subseteq tables[pipe[r]][t]
          BY <5>1, <5>2, <5>3
        <5>5. \A A, B : A \subseteq B /\ B \subseteq A => A = B
          OBVIOUS
        <5>6. QED
          BY <5>4, <5>5
      <4>3. QED
        BY <4>2 DEF Done
    <3>6. \A u \in There(r) \ items'[r] : Done(r, u)'
      BY <2>1, <3>1, <3>3, <3>4, <3>5 DEF Done
    <3>7. QED
      BY <2>1, <3>1, <3>4, <3>6 DEF PubInv, Copying
  <2>10. CASE Tidy(r)
    <3> DEFINE stale == {t \in Table : tables[pipe[r]][t] = {}}
    <3>1. pc[r] = "publish" /\ items[r] = {} /\ pc'[r] = "result"
      BY <1>0, <2>10 DEF Tidy, Goto, RunTypes
    <3>2. \A t \in There(r) : Done(r, t)
      BY <2>4, <3>1 DEF PubInv, Publishing
    <3>3. \A t \in Table : Done(r, t)'
      <4>1. CASE disposition[r] # "replace"
        <5>1. visible' = visible
          BY <2>10, <4>1 DEF Tidy
        <5>2. QED
          BY <2>1, <2>2, <3>2, <4>1, <5>1 DEF Done, Shown, There
      <4>2. CASE disposition[r] = "replace"
        <5>1. visible' = [visible EXCEPT ![Into(r)] =
                              [t \in Table |-> IF t \in stale THEN {} ELSE @[t]]]
          BY <1>0, <2>10, <4>2 DEF Tidy, MindTypes
        <5>2. \A t \in Table : Shown(r, t)' = IF t \in stale THEN {} ELSE Shown(r, t)
          BY <1>0, <2>2, <2>5, <5>1 DEF Shown, DataTypes
        <5>3. QED
          BY <2>1, <3>2, <4>2, <5>2 DEF Done, There
      <4>3. QED
        BY <4>1, <4>2
    <3>4. QED
      BY <3>1, <3>3 DEF PubInv, Publishing, Copying
  <2>11. QED
    BY <1>3, <2>8, <2>10, <2>12, <2>13, <2>14, <2>15 DEF Publish
<1>4. CASE Connect(r) \/ Check(r) \/ Result(r) \/ Dies(r)
  <2>1. CASE Over(r)
    BY <1>0, <2>1 DEF Over, Goto, RunTypes, PubInv, Publishing, Copying
  <2>2. CASE ~Over(r)
    <3>1. pc[r] \in {"connect", "check"} /\ pipe' = pipe
      BY <1>4, <2>2 DEF Connect, Check, Result, Dies, config
    <3>2. QED
      BY <3>1 DEF Placed, Exports
  <2>3. QED
    BY <2>1, <2>2
<1>5. QED
  BY <1>1, <1>2, <1>3, <1>4 DEF Step

\* A report goes on with every check held, failed, skipped or still due.
LEMMA StepReports ==
  ASSUME TypeOK, Placed, Reports, NEW r \in Run, Step(r), Active(r)', ~Exports(r)'
  PROVE  QualInv(r)'
<1>0. DataTypes /\ RunTypes /\ MindTypes
  BY Parts
<1>1. ASSUME NEW p \in Pipe, NEW d \in Dispositions, NEW ts \in SUBSET Table, Load(r, p, d, ts)
      PROVE  QualInv(r)'
  BY <1>0, <1>1 DEF Load, Goto, RunTypes, QualInv
<1>2. CASE Count(r)
  <2>1. pc'[r] = "connect"
    BY <1>0, <1>2 DEF Count, Goto, config, Exports, RunTypes
  <2>2. blind'[r] = ~(written[r] \subseteq counted'[r]) /\ written' = written
    BY <1>0, <1>2 DEF Count, config, RunTypes, MindTypes
  <2>3. QED
    BY <2>1, <2>2 DEF QualInv
<1>3. CASE Publish(r)
  <2>1. Exports(r) /\ pipe' = pipe
    BY <1>3, PublishEffects DEF PublishEffect, Publishes, config, Placed
  <2>2. QED
    BY <2>1 DEF Exports
<1>4. CASE Connect(r)
  <2>1. ~Over(r)
    BY <1>0 DEF Over, Goto, Active, RunTypes
  <2>2. QualInv(r) /\ pc[r] = "connect" /\ UNCHANGED <<config, counted, ghosts>>
    BY <1>4, <2>1 DEF Connect, Reports, Placed, Active
  <2>3. blind'[r] \/ written'[r] \subseteq counted'[r]
    BY <2>2 DEF QualInv, config, ghosts
  <2>4. Targets(r)' = Targets(r)
    BY <2>2 DEF Targets, config
  <2>5. CASE pc'[r] = "check" /\ due' = [due EXCEPT ![r] = checks[r] \X Targets(r)]
    <3>1. due'[r] = checks'[r] \X Targets(r)'
      BY <1>0, <2>2, <2>4, <2>5 DEF config, MindTypes
    <3>2. QED
      BY <2>3, <2>5, <3>1 DEF QualInv
  <2>6. CASE pc'[r] = "result" /\ ~passed'[r]
    BY <2>3, <2>6 DEF QualInv
  <2>7. QED
    BY <1>0, <1>4, <2>1, <2>5, <2>6 DEF Connect, Goto, RunTypes, MindTypes
<1>5. CASE Check(r)
  <2>1. QualInv(r) /\ pc[r] = "check" /\ UNCHANGED <<config, counted, blind>>
    BY <1>5 DEF Check, Reports, Placed, Active
  <2>2. blind'[r] \/ written'[r] \subseteq counted'[r]
    BY <2>1 DEF QualInv, config
  <2>3. /\ Targets(r)' = Targets(r) /\ checks' = checks
        /\ \A check : Skipped(r, check)' <=> Skipped(r, check)
    BY <2>1 DEF Targets, Skipped, config
  <2>4. \A check \in checks[r], t \in Targets(r) :
            ~passed[r] \/ <<check, t>> \in due[r] \/ Settled(r, check, t)
    BY <2>1 DEF QualInv
  <2>5. CASE due[r] = {} /\ pc'[r] = "result" /\ UNCHANGED <<passed, held>>
    <3>1. \A check, t : Settled(r, check, t)' <=> Settled(r, check, t)
      BY <2>3, <2>5 DEF Settled
    <3>2. QED
      BY <2>2, <2>3, <2>4, <2>5, <3>1 DEF QualInv
  <2>6. CASE due[r] # {} /\ pc' = pc
    <3> DEFINE next == CHOOSE d \in due[r] : TRUE
    <3>1. next \in Checks \X Table /\ next = <<next[1], next[2]>>
      BY <1>0, <2>6 DEF MindTypes
    <3> HIDE DEF next
    <3>2. due'[r] = due[r] \ {next}
      BY <1>0, <1>5, <2>6 DEF Check, MindTypes, next
    <3>3. /\ held[r] \subseteq held'[r]
          /\ passed'[r] => passed[r]
          /\ ~passed'[r] \/ Skipped(r, next[1]) \/ next \in held'[r]
      <4>1. CASE Skipped(r, next[1]) /\ UNCHANGED <<passed, held>>
        BY <4>1
      <4>2. CASE \E result : /\ passed' = [passed EXCEPT ![r] = @ /\ Safely(result)]
                             /\ held' = [held EXCEPT ![r] =
                                             IF result = "held" THEN @ \cup {next} ELSE @]
        <5>1. PICK result : /\ passed' = [passed EXCEPT ![r] = @ /\ Safely(result)]
                            /\ held' = [held EXCEPT ![r] =
                                            IF result = "held" THEN @ \cup {next} ELSE @]
          BY <4>2
        <5>2. passed'[r] <=> passed[r] /\ result = "held"
          BY <1>0, <5>1 DEF Safely, MindTypes
        <5>3. held'[r] = IF result = "held" THEN held[r] \cup {next} ELSE held[r]
          BY <1>0, <5>1 DEF MindTypes
        <5>4. QED
          BY <5>2, <5>3
      <4>3. QED
        BY <1>5, <2>6, <4>1, <4>2 DEF Check, next
    <3>4. ASSUME NEW check \in checks[r], NEW t \in Targets(r)
          PROVE  ~passed'[r] \/ <<check, t>> \in due'[r] \/ Settled(r, check, t)'
      <4>1. CASE <<check, t>> = next
        <5>1. next[1] = check
          BY <4>1
        <5>2. ~passed'[r] \/ Skipped(r, check) \/ <<check, t>> \in held'[r]
          BY <3>3, <4>1, <5>1
        <5>3. QED
          BY <2>3, <5>2 DEF Settled
      <4>2. CASE <<check, t>> # next
        <5>1. ~passed[r] \/ <<check, t>> \in due[r] \/ Skipped(r, check) \/ <<check, t>> \in held[r]
          BY <2>4 DEF Settled
        <5>2. /\ <<check, t>> \in due[r] => <<check, t>> \in due'[r]
              /\ <<check, t>> \in held[r] => <<check, t>> \in held'[r]
          BY <3>2, <3>3, <4>2
        <5>3. passed'[r] => passed[r]
          BY <3>3
        <5>4. QED
          BY <2>3, <5>1, <5>2, <5>3 DEF Settled
      <4>3. QED
        BY <4>1, <4>2
    <3>5. QED
      BY <2>1, <2>2, <2>3, <2>6, <3>4 DEF QualInv
  <2>7. QED
    BY <1>0, <1>5, <2>5, <2>6 DEF Check, Goto, RunTypes
<1>6. CASE Result(r) \/ Dies(r)
  BY <1>0, <1>6 DEF Result, Dies, Over, Goto, Active, RunTypes
<1>7. QED
  BY <1>1, <1>2, <1>3, <1>4, <1>5, <1>6 DEF Step

(***************************************************************************)
(* The steps of all                                                        *)
(***************************************************************************)
LEMMA OthersApart ==
  ASSUME TypeOK, Placed, Met, NEW s \in Run, [Next]_vars
  PROVE  Step(s) \/ Apart(s)
<1>1. ASSUME NEW r \in Run, Step(r) PROVE Step(s) \/ Apart(s)
  BY <1>1, StepApart
<1>2. ASSUME NEW p \in Pipe, NEW ts \in SUBSET Table, LoadFails(p, ts) PROVE Apart(s)
  BY <1>2, LoadFailsApart
<1>3. CASE UNCHANGED vars
  BY <1>3 DEF vars, data, config, copying, ghosts, Apart
<1>4. QED
  BY <1>1, <1>2, <1>3 DEF Next

LEMMA NextPlaced == TypeOK /\ Placed /\ Met /\ [Next]_vars => Placed'
<1> SUFFICES ASSUME TypeOK, Placed, Met, [Next]_vars, NEW s \in Run
             PROVE  /\ Active(s)' => pipe'[s] \in Pipe
                    /\ pc'[s] \in Publishing => Exports(s)'
                    /\ file'[s] # 0 => pc'[s] \in Copying
                    /\ pc'[s] \in Copying => items'[s] # {}
                    /\ pc'[s] \in {"connect", "check"} => ~Exports(s)'
  BY DEF Placed, Active, Exports
<1>1. CASE Step(s)
  BY <1>1, StepPlaced
<1>2. CASE Apart(s)
  BY <1>2 DEF Apart, Placed, Active, Exports
<1>3. QED
  BY <1>1, <1>2, OthersApart

\* A run that goes on keeps its pipeline, and knows whom it has met.
LEMMA GoesOn ==
  ASSUME TypeOK, Placed, NEW r \in Run, Active(r)',
         \/ Count(r) \/ Publish(r) \/ Connect(r) \/ Check(r) \/ Result(r) \/ Dies(r)
  PROVE  Active(r) /\ pipe'[r] = pipe[r] /\ met'[r] = met[r]
<1>1. RunTypes
  BY Parts
<1>2. ~Over(r)
  BY <1>1 DEF Over, Goto, Active, RunTypes
<1>3. CASE Publish(r)
  BY <1>3, PublishEffects DEF PublishEffect, Publishes, config, Publishing, Copying, Active
<1>4. CASE Count(r) \/ Connect(r) \/ Check(r) \/ Result(r) \/ Dies(r)
  BY <1>2, <1>4 DEF Count, Connect, Check, Result, Dies, config, ghosts, Active
<1>5. QED
  BY <1>3, <1>4

LEMMA NextMet == TypeOK /\ Placed /\ Met /\ [Next]_vars => Met'
<1> SUFFICES ASSUME TypeOK, Placed, Met, [Next]_vars, NEW r \in Run, NEW s \in Run, r # s,
                    Active(r)', Active(s)', Meets(pipe'[r], pipe'[s])
             PROVE  met'[r]
  BY DEF Met, Meets, Active
<1>0. RunTypes /\ MindTypes
  BY Parts
<1> DEFINE Kept(x) == Active(x) /\ pipe'[x] = pipe[x] /\ (met[x] => met'[x])
<1>1. ASSUME NEW x \in {r, s}, Apart(x) PROVE Kept(x)
  BY <1>1 DEF Apart, Active
<1>2. CASE Kept(r) /\ Kept(s)
  BY <1>2 DEF Met
<1>3. ASSUME NEW x \in {r, s}, Step(x), ~Kept(x) PROVE met'[r]
  <2>1. PICK p \in Pipe, d \in Dispositions, ts \in SUBSET Table : Load(x, p, d, ts)
    BY <1>3, GoesOn DEF Step
  <2>2. pipe'[x] = p
    BY <1>0, <2>1 DEF Load, RunTypes
  <2>3. \A y \in {r, s} : y # x => Active(y) /\ pipe'[y] = pipe[y]
    BY <1>0, <2>1 DEF Load, Goto, Active, RunTypes
  <2>4. CASE x = r
    <3>1. s \in {y \in Run \ {r} : Active(y) /\ Meets(p, pipe[y])}
      BY <2>2, <2>3, <2>4
    <3>2. QED
      BY <2>1, <2>4, <3>1 DEF Load
  <2>5. CASE x = s
    <3>1. r \in {y \in Run \ {s} : Active(y) /\ Meets(p, pipe[y])}
      BY <2>2, <2>3, <2>5 DEF Meets
    <3>2. QED
      BY <2>1, <2>5, <3>1 DEF Load
  <2>6. QED
    BY <2>4, <2>5
<1>4. QED
  BY <1>1, <1>2, <1>3, OthersApart

LEMMA NextPublications ==
  TypeOK /\ Placed /\ Met /\ Publications /\ Reports /\ [Next]_vars => Publications'
<1> SUFFICES ASSUME TypeOK, Placed, Met, Publications, Reports, [Next]_vars, NEW s \in Run,
                    Exports(s)', ~torn'[s], ~met'[s]
             PROVE  PubInv(s)'
  BY DEF Publications
<1>1. CASE Step(s)
  BY <1>1, StepPublishes
<1>2. CASE Apart(s)
  BY <1>2, ApartKeeps
<1>3. QED
  BY <1>1, <1>2, OthersApart

LEMMA NextReports ==
  TypeOK /\ Placed /\ Met /\ Publications /\ Reports /\ [Next]_vars => Reports'
<1> SUFFICES ASSUME TypeOK, Placed, Met, Publications, Reports, [Next]_vars, NEW s \in Run,
                    Active(s)', ~Exports(s)'
             PROVE  QualInv(s)'
  BY DEF Reports
<1>1. CASE Step(s)
  BY <1>1, StepReports
<1>2. CASE Apart(s)
  BY <1>2, ApartKeeps
<1>3. QED
  BY <1>1, <1>2, OthersApart

(***************************************************************************)
(* The theorems                                                            *)
(***************************************************************************)
\* Inv is an invariant: deliver_load, publish_filesystem_export and
\* run_quality_checks keep it, whatever fails and whoever else runs.
THEOREM Inductive == Spec => []Inv
<1>1. Init => Inv
  BY InitInv
<1>2. Inv /\ [Next]_vars => Inv'
  BY NextTypes, NextPlaced, NextMet, NextPublications, NextReports DEF Inv
<1>3. QED
  BY <1>1, <1>2, PTL DEF Spec

\* Every variable keeps its type, for any number of runs and pipelines.
THEOREM TypeCorrect == Spec => []TypeOK
<1>1. Inv => TypeOK
  BY DEF Inv
<1>2. QED
  BY <1>1, Inductive, PTL

\* publish_filesystem_export makes the folder what is staged, whatever was
\* left in it, unless it meets an error or another run.
THEOREM PublicationsAsStaged == Spec => []Published
<1>1. Inv => Published
  BY DEF Inv, Publications, PubInv, Done, Published
<1>2. QED
  BY <1>1, Inductive, PTL

\* Files leave a folder only while a replace run publishes there, or one at a
\* time while an append or a merge is about to write that staged file again.
THEOREM OnlyReplace == Spec => OnlyReplaceRemoves
<1> DEFINE Holds == \A f \in Folder, t \in Table : \A n \in Lost(f, t) :
               \E r \in Run : Replaces(r, f) \/ Rewrites(r, f, t, n)
<1>1. Inv /\ [Next]_vars => Holds
  <2> SUFFICES ASSUME Inv, [Next]_vars, NEW f \in Folder, NEW t \in Table, NEW n \in Lost(f, t)
               PROVE  \E r \in Run : Replaces(r, f) \/ Rewrites(r, f, t, n)
    OBVIOUS
  <2>0. DataTypes /\ RunTypes /\ MindTypes /\ TypeOK /\ Placed
    BY Parts DEF Inv
  <2>1. n \in visible[f][t] /\ n > 0 /\ n \notin visible'[f][t] /\ visible' # visible
    BY DEF Lost
  <2>2. PICK r \in Run : Publish(r)
    BY <2>1 DEF Next, LoadFails, Step, Load, Count, Connect, Check, Result, Dies, vars, data
  <2>3. PublishEffect(r)
    BY <2>0, <2>2, PublishEffects
  <2>4. f = Into(r)
    BY <2>1, <2>3 DEF PublishEffect
  <2>5. CASE Remove(r) \/ Tidy(r)
    BY <2>1, <2>4, <2>5 DEF Remove, Removes, Tidy, Replaces
  <2>6. CASE StartCopy(r) \/ ItemDone(r)
    BY <2>1, <2>6 DEF StartCopy, ItemDone
  <2>7. ASSUME NEW u, NEW files, Show(r, u, files)
        PROVE  u = t /\ n \notin files
    BY <2>0, <2>1, <2>4, <2>7 DEF Show, DataTypes, FilesToSee
  <2>8. CASE Open(r)
    <3>1. PICK m \in todo[r] :
              /\ m \in Staged(r) /\ file' = [file EXCEPT ![r] = m]
              /\ Show(r, Item(r), (Shown(r, Item(r)) \ {m}) \cup {Broken(m)})
      BY <2>1, <2>8 DEF Open
    <3>2. Item(r) = t /\ n \notin (Shown(r, Item(r)) \ {m}) \cup {Broken(m)}
      BY <2>7, <3>1
    <3>3. n = m
      BY <2>1, <2>4, <3>2 DEF Shown
    <3>4. file[r] = 0 /\ file'[r] = n
      BY <2>0, <2>8, <3>1, <3>3 DEF Open, MindTypes
    <3>5. QED
      BY <2>4, <3>1, <3>2, <3>3, <3>4 DEF Rewrites
  <2>9. CASE Write(r)
    <3>1. PICK files : /\ Show(r, Item(r), files)
                       /\ Shown(r, Item(r)) \ {Broken(file[r])} \subseteq files
      BY <2>1, <2>9 DEF Write
    <3>2. n = Broken(file[r])
      BY <2>1, <2>4, <2>7, <3>1 DEF Shown
    <3>3. QED
      BY <2>0, <2>1, <2>9, <3>2 DEF Broken, MindTypes
  <2>10. QED
    BY <2>2, <2>5, <2>6, <2>8, <2>9 DEF Publish
<1>2. Inv /\ [Next]_vars => [Holds]_vars
  BY <1>1
<1>3. QED
  BY <1>2, Inductive, PTL DEF Spec, OnlyReplaceRemoves

\* An exit code of 0 says that every configured check held of every table the
\* load wrote: run_quality_checks has asked them all, an error counts as a
\* failure, and chumoli run ends with 0 only if none has failed.
THEOREM ExitCodeHonest == Spec => QualityHonest
<1> DEFINE Honest == \A r \in Run :
        pc[r] = "result" /\ pc'[r] = "free" /\ ExitCode(r) = 0 /\ ~Exports(r) /\ ~blind[r] =>
            \A check \in checks[r], t \in IF table[r] = 0 THEN written[r] ELSE {table[r]} :
                Skipped(r, check) \/ <<check, t>> \in held[r]
<1>1. Inv => Honest
  <2> SUFFICES ASSUME Inv, NEW r \in Run, pc[r] = "result", ExitCode(r) = 0,
                      ~Exports(r), ~blind[r], NEW check \in checks[r],
                      NEW t \in IF table[r] = 0 THEN written[r] ELSE {table[r]}
               PROVE  Skipped(r, check) \/ <<check, t>> \in held[r]
    OBVIOUS
  <2>1. passed[r]
    BY DEF ExitCode
  <2>2. QualInv(r)
    BY DEF Inv, Reports, Active
  <2>3. t \in Targets(r)
    BY <2>2 DEF QualInv, Targets
  <2>4. QED
    BY <2>1, <2>2, <2>3 DEF QualInv, Settled
<1>2. Inv /\ [Next]_vars => [Honest]_vars
  BY <1>1
<1>3. QED
  BY <1>2, Inductive, PTL DEF Spec, QualityHonest
=============================================================================
