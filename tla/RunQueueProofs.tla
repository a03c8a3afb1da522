--------------------------- MODULE RunQueueProofs ---------------------------
(***************************************************************************)
(* The safety of the run queue for every set of pipelines and every limit, *)
(* and that each of its steps is a step of JobPool.                        *)
(***************************************************************************)
EXTENDS RunQueue, FiniteSetTheorems, SequenceTheorems, TLAPS

(***************************************************************************)
(* The inductive invariant: the queue's invariants are inductive only      *)
(* together.  The limit needs the popped name to be new to runningNames,   *)
(* which OneOwner and QueueMirror give; NoLostWakeup needs the same to     *)
(* know that taking an item uses up a slot.                                *)
(***************************************************************************)
IInv == /\ TypeOK
        /\ QueueMirror
        /\ OneOwner
        /\ ConcurrencyLimit
        /\ NoLostWakeup

-----------------------------------------------------------------------------
(* Facts about the operators of the model.                                 *)

\* Appending a new element to a sequence without repetition.
LEMMA AppendElements ==
    ASSUME NEW S, NEW s \in Seq(S), NEW e \in S, e \notin Elements(s), NoRepeat(s)
    PROVE  /\ Elements(Append(s, e)) = Elements(s) \cup {e}
           /\ NoRepeat(Append(s, e))
<1> DEFINE t == Append(s, e)
<1>1. /\ t \in Seq(S)
      /\ Len(s) \in Nat
      /\ Len(t) = Len(s) + 1
      /\ DOMAIN s = 1 .. Len(s)
      /\ DOMAIN t = 1 .. Len(t)
      /\ \A i \in 1 .. Len(s) : t[i] = s[i]
      /\ t[Len(s) + 1] = e
  BY AppendProperties, LenProperties
<1> HIDE DEF t
<1>2. Elements(t) = Elements(s) \cup {e}
  BY <1>1 DEF Elements
<1>3. NoRepeat(t)
  BY <1>1 DEF Elements, NoRepeat
<1> QED
  BY <1>2, <1>3 DEF t

\* Removing the head of a sequence without repetition.
LEMMA TailElements ==
    ASSUME NEW S, NEW s \in Seq(S), s # <<>>, NoRepeat(s)
    PROVE  /\ Head(s) \in Elements(s)
           /\ Elements(Tail(s)) = Elements(s) \ {Head(s)}
           /\ NoRepeat(Tail(s))
<1> DEFINE t == Tail(s)
<1>1. /\ t \in Seq(S)
      /\ Len(s) \in Nat \ {0}
      /\ Len(t) = Len(s) - 1
      /\ DOMAIN s = 1 .. Len(s)
      /\ DOMAIN t = 1 .. Len(t)
      /\ \A i \in 1 .. Len(t) : t[i] = s[i + 1]
  BY HeadTailProperties, LenProperties, EmptySeq
<1>2. Head(s) = s[1]
  BY <1>1
<1> HIDE DEF t
<1>3. Head(s) \in Elements(s)
  BY <1>1, <1>2 DEF Elements
<1>4. ASSUME NEW x \in Elements(s), x # Head(s)
      PROVE  x \in Elements(t)
  <2>1. PICK i \in 1 .. Len(s) : x = s[i]
    BY <1>1, <1>4 DEF Elements
  <2>2. i # 1
    BY <1>2, <1>4, <2>1
  <2>3. i - 1 \in 1 .. Len(t) /\ t[i - 1] = x
    BY <1>1, <2>1, <2>2
  <2> QED
    BY <1>1, <2>3 DEF Elements
<1>5. ASSUME NEW x \in Elements(t)
      PROVE  x \in Elements(s) /\ x # Head(s)
  <2>1. PICK i \in 1 .. Len(t) : x = s[i + 1]
    BY <1>1, <1>5 DEF Elements
  <2> QED
    BY <1>1, <1>2, <2>1 DEF Elements, NoRepeat
<1>6. NoRepeat(t)
  BY <1>1, SMTT(30) DEF NoRepeat
<1> QED
  BY <1>3, <1>4, <1>5, <1>6 DEF t

\* A set of pipeline names that gains or loses one name.
LEMMA NameCardinality ==
    ASSUME NEW S \in SUBSET Name, NEW n \in Name
    PROVE  /\ Cardinality(S) \in Nat
           /\ n \notin S => Cardinality(S \cup {n}) = Cardinality(S) + 1
           /\ n \in S => Cardinality(S \ {n}) = Cardinality(S) - 1
<1>1. IsFiniteSet(S)
  BY FS_Subset, NameAssumption
<1> QED
  BY <1>1, FS_CardinalityType, FS_AddElement, FS_RemoveElement

-----------------------------------------------------------------------------
(* Init and every action preserve the invariant.                           *)

LEMMA InitIInv == Init => IInv
<1> SUFFICES ASSUME Init PROVE IInv
  OBVIOUS
<1>1. TypeOK
  BY EmptySeq DEF Init, TypeOK
<1>2. QueueMirror
  BY DEF Init, QueueMirror, Elements, NoRepeat
<1>3. OneOwner
  BY DEF Init, OneOwner
<1>4. ConcurrencyLimit
  BY FS_EmptySet, MaxAssumption DEF Init, ConcurrencyLimit
<1>5. NoLostWakeup
  BY EmptySeq DEF Init, NoLostWakeup
<1> QED
  BY <1>1, <1>2, <1>3, <1>4, <1>5 DEF IInv

LEMMA EnqueueIInv ==
    ASSUME IInv, NEW n \in Name, Enqueue(n)
    PROVE  IInv'
<1> USE DEF IInv
<1>1. n \notin Elements(q) /\ n \notin runningNames /\ q \in Seq(Name)
  BY DEF Enqueue, Unknown, QueueMirror, TypeOK
<1>2. /\ q' = Append(q, n)
      /\ q' \in Seq(Name)
      /\ Len(q') = Len(q) + 1
      /\ Len(q) \in Nat
  BY <1>1, AppendProperties, LenProperties DEF Enqueue, InsertLast
<1>3. TypeOK'
  BY <1>2 DEF Enqueue, TypeOK
<1>4. QueueMirror'
  BY <1>1, <1>2, AppendElements DEF Enqueue, QueueMirror
<1>5. OneOwner'
  BY <1>1 DEF Enqueue, OneOwner
<1>6. ConcurrencyLimit'
  BY DEF Enqueue, ConcurrencyLimit
<1>7. NoLostWakeup'
  <2>1. pumping \in Nat /\ pumping' = pumping + 1 /\ runningNames' = runningNames
    BY DEF Enqueue, TypeOK
  <2>2. Max \in Nat /\ Cardinality(runningNames) \in Nat
    BY MaxAssumption, NameCardinality DEF TypeOK
  <2> QED
    BY <1>2, <2>1, <2>2 DEF NoLostWakeup
<1> QED
  BY <1>3, <1>4, <1>5, <1>6, <1>7

LEMMA PumpReturnIInv ==
    ASSUME IInv, PumpReturn
    PROVE  IInv'
<1> USE DEF IInv
<1>1. TypeOK' /\ QueueMirror' /\ OneOwner' /\ ConcurrencyLimit'
  BY DEF PumpReturn, TypeOK, QueueMirror, OneOwner, ConcurrencyLimit
<1>2. NoLostWakeup'
  <2>1. pumping' \in Nat /\ q' = q /\ runningNames' = runningNames
    BY DEF PumpReturn, TypeOK
  <2>2. CASE q = <<>>
    BY <2>1, <2>2, EmptySeq DEF NoLostWakeup
  <2>3. CASE ~SlotFree
    <3>1. Max \in Nat /\ Cardinality(runningNames) \in Nat
      BY MaxAssumption, NameCardinality, FS_Subset, NameAssumption, FS_CardinalityType DEF TypeOK
    <3> QED
      BY <2>1, <2>3, <3>1 DEF NoLostWakeup, SlotFree
  <2> QED
    BY <2>2, <2>3 DEF PumpReturn
<1> QED
  BY <1>1, <1>2

LEMMA PumpTakeIInv ==
    ASSUME IInv, PumpTake
    PROVE  IInv'
<1> USE DEF IInv
<1> DEFINE h == Head(q)
<1>1. /\ q \in Seq(Name) /\ q # <<>>
      /\ q' = Tail(q) /\ q' \in Seq(Name)
      /\ h \in Name
      /\ Len(q) \in Nat /\ Len(q') = Len(q) - 1
  BY HeadTailProperties, LenProperties DEF PumpTake, TypeOK
<1>2. h \in queuedNames /\ h \notin runningNames
  BY <1>1, TailElements DEF QueueMirror, OneOwner
<1>3. /\ Cardinality(runningNames) \in Nat
      /\ Cardinality(runningNames') = Cardinality(runningNames) + 1
  BY <1>1, <1>2, NameCardinality DEF PumpTake, TypeOK
<1>4. TypeOK'
  BY <1>1 DEF PumpTake, TypeOK
<1>5. QueueMirror'
  BY <1>1, TailElements DEF PumpTake, QueueMirror
<1>6. OneOwner'
  BY <1>2 DEF PumpTake, OneOwner
<1>7. ConcurrencyLimit'
  BY <1>3, MaxAssumption DEF PumpTake, SlotFree, ConcurrencyLimit
<1>8. NoLostWakeup'
  <2>1. pumping \in Nat /\ pumping' = pumping - 1 /\ Max \in Nat
    BY MaxAssumption DEF PumpTake, TypeOK
  <2> QED
    BY <1>1, <1>3, <2>1 DEF NoLostWakeup
<1> QED
  BY <1>4, <1>5, <1>6, <1>7, <1>8

LEMMA StartWorkerIInv ==
    ASSUME IInv, NEW n \in Name, StartWorker(n)
    PROVE  IInv'
<1> USE DEF IInv
<1>1. TypeOK' /\ QueueMirror' /\ OneOwner' /\ ConcurrencyLimit'
  BY DEF StartWorker, TypeOK, QueueMirror, OneOwner, ConcurrencyLimit
<1>2. Len(q) \in Nat /\ Cardinality(runningNames) \in Nat /\ Max \in Nat
  BY LenProperties, NameCardinality, MaxAssumption DEF TypeOK
<1>3. NoLostWakeup'
  BY <1>2 DEF StartWorker, TypeOK, NoLostWakeup
<1> QED
  BY <1>1, <1>3

LEMMA StartFailsIInv ==
    ASSUME IInv, NEW n \in Name, StartFails(n)
    PROVE  IInv'
  BY DEF IInv, StartFails, TypeOK, QueueMirror, OneOwner, ConcurrencyLimit, NoLostWakeup

LEMMA WorkerFinishIInv ==
    ASSUME IInv, NEW n \in Name, WorkerFinish(n)
    PROVE  IInv'
<1> USE DEF IInv
<1>1. n \in runningNames
  BY DEF WorkerFinish, OneOwner
<1>2. /\ Cardinality(runningNames) \in Nat
      /\ Cardinality(runningNames') = Cardinality(runningNames) - 1
      /\ Max \in Nat
      /\ Len(q) \in Nat
  BY <1>1, NameCardinality, MaxAssumption, LenProperties DEF WorkerFinish, TypeOK
<1>3. TypeOK' /\ QueueMirror'
  BY DEF WorkerFinish, TypeOK, QueueMirror
<1>4. OneOwner'
  BY DEF WorkerFinish, OneOwner
<1>5. ConcurrencyLimit'
  BY <1>2 DEF ConcurrencyLimit
<1>6. NoLostWakeup'
  BY <1>2 DEF WorkerFinish, TypeOK, NoLostWakeup
<1> QED
  BY <1>3, <1>4, <1>5, <1>6

LEMMA NextIInv == IInv /\ [Next]_vars => IInv'
<1> SUFFICES ASSUME IInv, [Next]_vars PROVE IInv'
  OBVIOUS
<1>1. CASE PumpReturn
  BY <1>1, PumpReturnIInv
<1>2. CASE PumpTake
  BY <1>2, PumpTakeIInv
<1>3. ASSUME NEW n \in Name, Enqueue(n) PROVE IInv'
  BY <1>3, EnqueueIInv
<1>4. ASSUME NEW n \in Name, StartWorker(n) PROVE IInv'
  BY <1>4, StartWorkerIInv
<1>5. ASSUME NEW n \in Name, StartFails(n) PROVE IInv'
  BY <1>5, StartFailsIInv
<1>6. ASSUME NEW n \in Name, WorkerFinish(n) PROVE IInv'
  BY <1>6, WorkerFinishIInv
<1>7. CASE UNCHANGED vars
  BY <1>7 DEF vars, IInv, TypeOK, QueueMirror, OneOwner, ConcurrencyLimit, NoLostWakeup
<1> QED
  BY <1>1, <1>2, <1>3, <1>4, <1>5, <1>6, <1>7 DEF Next

\* Every reachable state of the run queue satisfies the inductive invariant.
THEOREM Inductive == SafeSpec => []IInv
<1> QED
  BY InitIInv, NextIInv, PTL DEF SafeSpec

-----------------------------------------------------------------------------
(* What the reader wants to know.                                          *)

\* The queue's data keep their types: names stay names, sequences stay finite.
THEOREM TypeCorrect == SafeSpec => []TypeOK
<1>1. IInv => TypeOK
  BY DEF IInv
<1> QED
  BY <1>1, Inductive, PTL

\* At most Max pipelines hold a slot, for every Max and every interleaving.
THEOREM LimitHolds == SafeSpec => []ConcurrencyLimit
<1>1. IInv => ConcurrencyLimit
  BY DEF IInv
<1> QED
  BY <1>1, Inductive, PTL

\* One pipeline is in the queue or running at most once, with one owner.
THEOREM SingleOwner == SafeSpec => []OnePlace
<1>1. IInv => OnePlace
  BY DEF IInv, OnePlace
<1> QED
  BY <1>1, Inductive, PTL

\* No dispatchable item is ever without a thread about to take it.
THEOREM WakeupsKept == SafeSpec => []NoLostWakeup
<1>1. IInv => NoLostWakeup
  BY DEF IInv
<1> QED
  BY <1>1, Inductive, PTL

\* Every step of the threaded queue is a step of JobPool or leaves the pool as
\* it is: arrival order, the limit and the absence of duplicates are inherited.
THEOREM StepsOfJobPool == SafeSpec => ImplementsJobPool
<1>1. Init => Pool!Init
  BY DEF Init, Pool!Init
<1>2. IInv /\ [Next]_vars => [Pool!Next]_(Pool!vars)
  <2> SUFFICES ASSUME IInv, [Next]_vars PROVE [Pool!Next]_(Pool!vars)
    OBVIOUS
  <2> USE DEF IInv
  <2>1. CASE PumpReturn
    BY <2>1 DEF PumpReturn, Pool!vars
  <2>2. CASE PumpTake
    <3>1. Pool!Dispatch
      <4>1. Pool!Cardinality(runningNames) = Cardinality(runningNames)
        BY DEF Pool!Cardinality, Cardinality
      <4> QED
        BY <2>2, <4>1 DEF PumpTake, SlotFree, Pool!Dispatch
    <3> QED
      BY <3>1 DEF Pool!Next
  <2>3. ASSUME NEW n \in Name, Enqueue(n) PROVE [Pool!Next]_(Pool!vars)
    <3>1. n \notin runningNames \cup Pool!Waiting
      BY <2>3 DEF Enqueue, Unknown, QueueMirror, Elements, Pool!Waiting
    <3>2. Pool!Submit(n)
      BY <2>3, <3>1 DEF Enqueue, InsertLast, Pool!Submit
    <3> QED
      BY <3>2 DEF Pool!Next
  <2>4. ASSUME NEW n \in Name, StartWorker(n) PROVE [Pool!Next]_(Pool!vars)
    BY <2>4 DEF StartWorker, Pool!vars
  <2>5. ASSUME NEW n \in Name, StartFails(n) PROVE [Pool!Next]_(Pool!vars)
    <3>1. Pool!Lose(n)
      BY <2>5 DEF StartFails, OneOwner, Pool!Lose
    <3> QED
      BY <3>1 DEF Pool!Next
  <2>6. ASSUME NEW n \in Name, WorkerFinish(n) PROVE [Pool!Next]_(Pool!vars)
    <3>1. Pool!Complete(n)
      BY <2>6 DEF WorkerFinish, OneOwner, Pool!Complete
    <3> QED
      BY <3>1 DEF Pool!Next
  <2>7. CASE UNCHANGED vars
    BY <2>7 DEF vars, Pool!vars
  <2> QED
    BY <2>1, <2>2, <2>3, <2>4, <2>5, <2>6, <2>7 DEF Next
<1> QED
  BY <1>1, <1>2, Inductive, PTL DEF SafeSpec, ImplementsJobPool, Pool!SafeSpec
=============================================================================
