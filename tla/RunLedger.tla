------------------------------ MODULE RunLedger ------------------------------
(***************************************************************************)
(* What the run service promises of a call, with no guard, no queue, no    *)
(* exception handlers and no job table: a pipeline has one load at a time, *)
(* a call loads at most once, its verdict stands before anything is        *)
(* written about it, what is written is true and written once, an answer   *)
(* comes after the entry, and a call that a crash cut off stays as it was. *)
(* RunService implements this specification.                               *)
(***************************************************************************)
EXTENDS Naturals, Sequences

CONSTANTS Call,       \* runs asked for, each used once
          Pipeline,   \* what they load
          NoPipeline  \* the pipeline of a call not made yet

VARIABLES stage,     \* how far a call is
          pipeline,  \* what it is to load
          verdict,   \* how its load ended
          entries,   \* what the history has of it
          lost,      \* calls of which a write to the history was lost
          told       \* what its poller has been told

vars == <<stage, pipeline, verdict, entries, lost, told>>

Init == /\ stage = [c \in Call |-> "new"]
        /\ pipeline = [c \in Call |-> NoPipeline]
        /\ verdict = [c \in Call |-> "none"]
        /\ entries = [c \in Call |-> <<>>]
        /\ lost = {}
        /\ told = [c \in Call |-> "none"]

Advance(c, from, to) == /\ stage[c] = from
                        /\ stage' = [stage EXCEPT ![c] = to]

Open(c, n) == /\ Advance(c, "new", "open")
              /\ pipeline' = [pipeline EXCEPT ![c] = n]
              /\ UNCHANGED <<verdict, entries, lost, told>>

\* No load: the pipeline is gone, or is loading, or cannot be read, which counts
\* as a load that failed.
Refuse(c) == /\ Advance(c, "open", "ended")
             /\ verdict' = verdict \/ verdict' = [verdict EXCEPT ![c] = "bad"]
             /\ UNCHANGED <<pipeline, entries, lost, told>>

Start(c) == /\ Advance(c, "open", "loading")
            /\ \A d \in Call : stage[d] = "loading" => pipeline[d] # pipeline[c]
            /\ UNCHANGED <<pipeline, verdict, entries, lost, told>>

\* "unseen" is a failure that the entry point answers without an entry.
End(c) == /\ stage[c] = "loading"
          /\ verdict[c] = "none"
          /\ \E v \in {"ok", "bad", "unseen"} : verdict' = [verdict EXCEPT ![c] = v]
          /\ UNCHANGED <<stage, pipeline, entries, lost, told>>

\* The pipeline is free for the next load.
Leave(c) == /\ Advance(c, "loading", "ended")
            /\ verdict[c] # "none"
            /\ UNCHANGED <<pipeline, verdict, entries, lost, told>>

\* A failure is written when the load was none, or when the write of its
\* success was lost.
True(c, e) == IF e = "ok" THEN verdict[c] = "ok" ELSE verdict[c] # "ok" \/ c \in lost

Write(c) == /\ stage[c] = "ended"
            /\ told[c] = "none"
            /\ entries[c] = <<>>
            /\ \E e \in {"ok", "fail"} : /\ True(c, e)
                                         /\ entries' = [entries EXCEPT ![c] = <<e>>]
            /\ UNCHANGED <<stage, pipeline, verdict, lost, told>>

LoseWrite(c) == /\ stage[c] = "ended"
                /\ told[c] = "none"
                /\ entries[c] = <<>>
                /\ lost' = lost \cup {c}
                /\ UNCHANGED <<stage, pipeline, verdict, entries, told>>

Accounted(c) == entries[c] # <<>> \/ c \in lost

\* The poller hears of a result, once the history has it.
Answer(c) == /\ stage[c] = "ended"
             /\ verdict[c] \in {"ok", "bad"}
             /\ Accounted(c)
             /\ told' = [told EXCEPT ![c] = "done"]
             /\ UNCHANGED <<stage, pipeline, verdict, entries, lost>>

\* The call is over: nothing of a load that ended is left untold, and "error" is
\* for a call that has no result, or whose result could not be written.
Close(c) == /\ Advance(c, "ended", "closed")
            /\ verdict[c] \in {"ok", "bad"} => Accounted(c)
            /\ \/ UNCHANGED told
               \/ /\ told[c] = "none"
                  /\ verdict[c] = "ok" => c \in lost
                  /\ told' = [told EXCEPT ![c] = "error"]
            /\ UNCHANGED <<pipeline, verdict, entries, lost>>

\* Calls that are not over never will be; pollers have nobody to ask.
Crash == /\ stage' = [c \in Call |-> IF stage[c] \in {"new", "closed"}
                                     THEN stage[c] ELSE "gone"]
         /\ told' = [c \in Call |-> "none"]
         /\ UNCHANGED <<pipeline, verdict, entries, lost>>

Next == \/ \E c \in Call : \/ \E n \in Pipeline : Open(c, n)
                           \/ Refuse(c) \/ Start(c) \/ End(c) \/ Leave(c)
                           \/ Write(c) \/ LoseWrite(c) \/ Answer(c) \/ Close(c)
        \/ Crash

Spec == Init /\ [][Next]_vars
=============================================================================
