-------------------------------- MODULE Vault --------------------------------
(***************************************************************************)
(* What the control store promises of secrets, with no key, no encryption  *)
(* and no store objects: secrets are plain values in one place, an edit    *)
(* loads, keeps what was left blank, and saves later; and every answer is  *)
(* true to what is there.  The promise ends when the key file is disturbed *)
(* (`broken`).  Secrets implements this specification.                     *)
(***************************************************************************)
CONSTANTS Call,
          Value,            \* what secrets and connections may be
          Blank,            \* none
          SecretRequired,   \* an edit without a secret is refused
          NeedsConnection   \* one without a connection, too

VARIABLES there, secret, dest,  \* the pipeline, its secret, its connection
          saved, token,         \* a saved connection, a secret setting
          editing,              \* calls between load and save
          draft,                \* what each of them is about to save
          taking,               \* those that still copy the saved connection
          told,                 \* the answer of the last step
          broken

pipeline == <<there, secret, dest>>
others == <<saved, token>>
edits == <<editing, draft, taking>>
vars == <<pipeline, others, edits, told, broken>>

NoDraft == [secret |-> Blank, dest |-> Blank]

Init == /\ there = FALSE /\ secret = Blank /\ dest = Blank
        /\ saved = Blank /\ token = Blank
        /\ editing = {} /\ draft = [c \in Call |-> NoDraft] /\ taking = {}
        /\ told = "none" /\ broken = FALSE

\* Steps that only the key file or the call itself sees.
Silent == told' = "none" /\ UNCHANGED <<pipeline, others, edits>>

\* A field left blank keeps what is there.
Merged(v) == IF v = Blank /\ there THEN secret ELSE v

Plan(c) ==
    /\ c \notin editing
    /\ \E v, d \in Value \cup {Blank} :
           /\ draft' = [draft EXCEPT ![c] = [secret |-> Merged(v), dest |-> d]]
           /\ SecretRequired => Merged(v) # Blank
           /\ \/ taking' = taking \cup {c}
              \/ (NeedsConnection => d # Blank) /\ UNCHANGED taking
    /\ editing' = editing \cup {c}
    /\ told' = "none"
    /\ UNCHANGED <<pipeline, others>>

\* A request is refused only for a field that it needs and nobody gave.
Refuse == /\ NeedsConnection \/ (SecretRequired /\ Merged(Blank) = Blank)
          /\ told' = "refused"
          /\ UNCHANGED <<pipeline, others, edits>>

Take(c) == /\ c \in taking
           /\ saved # Blank
           /\ draft' = [draft EXCEPT ![c].dest = saved]
           /\ taking' = taking \ {c}
           /\ told' = "none"
           /\ UNCHANGED <<pipeline, others, editing>>

Close(c) == /\ editing' = editing \ {c}
            /\ draft' = [draft EXCEPT ![c] = NoDraft]
            /\ taking' = taking \ {c}

\* ... or for a saved connection that there is not.
RefuseTaking(c) == /\ c \in taking /\ saved = Blank
                   /\ Close(c) /\ told' = "refused"
                   /\ UNCHANGED <<pipeline, others>>

Save(c) == /\ c \in editing \ taking
           /\ there' = TRUE /\ secret' = draft[c].secret /\ dest' = draft[c].dest
           /\ Close(c) /\ told' = "ok"
           /\ UNCHANGED others

Abandon(c) == Close(c) /\ told' = "none" /\ UNCHANGED <<pipeline, others>>

Load == /\ told' = IF there THEN "ok" ELSE "refused"
        /\ UNCHANGED <<pipeline, others, edits>>

Drop == /\ there' = FALSE /\ secret' = Blank /\ dest' = Blank
        /\ told' = "ok"
        /\ UNCHANGED <<others, edits>>

Keep == /\ saved' \in Value
        /\ told' = "ok"
        /\ UNCHANGED <<pipeline, token, edits>>

Discard == /\ saved' = Blank
           /\ told' = IF saved = Blank THEN "refused" ELSE "ok"
           /\ UNCHANGED <<pipeline, token, edits>>

SetToken == /\ token' \in Value
            /\ told' = "ok"
            /\ UNCHANGED <<pipeline, saved, edits>>

GetToken == told' = "ok" /\ UNCHANGED <<pipeline, others, edits>>

Work == \/ \E c \in Call : Plan(c) \/ Take(c) \/ RefuseTaking(c) \/ Save(c) \/ Abandon(c)
        \/ Silent \/ Refuse \/ Load \/ Drop \/ Keep \/ Discard \/ SetToken \/ GetToken

\* Once broken, always; and then nothing is promised.
Next == IF broken' THEN TRUE ELSE ~broken /\ Work

Spec == Init /\ [][Next]_vars
=============================================================================
