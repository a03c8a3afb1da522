------------------------------- MODULE JobPool -------------------------------
(***************************************************************************)
(* What the run queue promises to its callers, with no threads, no lock    *)
(* and no mirror sets: jobs wait in arrival order, at most Max of them are *)
(* active, the same name is never in the pool twice, and a job that can be *)
(* dispatched is.  RunQueue implements this specification; RunService uses *)
(* its actions as the queue it runs on.                                    *)
(***************************************************************************)
EXTENDS Naturals, Sequences, FiniteSets

CONSTANTS Name,   \* pipeline names
          Max     \* concurrency limit of the pool

VARIABLES pending,  \* accepted jobs, oldest first
          active,   \* jobs that hold a slot
          stuck     \* active jobs that lost their thread and keep their slot

vars == <<pending, active, stuck>>

Waiting == {pending[i] : i \in DOMAIN pending}

Init == /\ pending = <<>>
        /\ active = {}
        /\ stuck = {}

Submit(n) == /\ n \notin active \cup Waiting
             /\ pending' = Append(pending, n)
             /\ UNCHANGED <<active, stuck>>

Dispatch == /\ pending # <<>>
            /\ Cardinality(active) < Max
            /\ active' = active \cup {Head(pending)}
            /\ pending' = Tail(pending)
            /\ UNCHANGED stuck

Complete(n) == /\ n \in active \ stuck
               /\ active' = active \ {n}
               /\ UNCHANGED <<pending, stuck>>

Lose(n) == /\ n \in active \ stuck
           /\ stuck' = stuck \cup {n}
           /\ UNCHANGED <<pending, active>>

Next == \/ Dispatch
        \/ \E n \in Name : Submit(n) \/ Complete(n) \/ Lose(n)

\* A job that can be dispatched is dispatched; an active job ends.
Fairness == /\ WF_vars(Dispatch)
            /\ \A n \in Name : WF_vars(Complete(n))

SafeSpec == Init /\ [][Next]_vars

Spec == SafeSpec /\ Fairness
=============================================================================
