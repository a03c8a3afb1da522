-------------------------------- MODULE Secrets --------------------------------
(***************************************************************************)
(* master.key and the secrets of the control database, under concurrent    *)
(* calls.  A call is a request of the API, a scheduled run, or a command   *)
(* of the CLI, which is a process of its own.  It builds its own store     *)
(* objects (_store()), some calls several, and each opens the key file     *)
(* anew; every SQL statement is a transaction of its own.                  *)
(*                                                                         *)
(* One pipeline, one saved destination and one secret setting stand for    *)
(* their tables: rows do not meet.  A secret is a value, a token is a      *)
(* value under a key; Fernet, which is external, opens a token with the    *)
(* key that made it and with no other.                                     *)
(***************************************************************************)
EXTENDS Integers

CONSTANTS Call,
          Value,            \* what secrets and connections may be
          Blank,            \* the empty string, or none
          SecretRequired,   \* the manifest's field is required
          NeedsConnection,  \* of the destination
          MaxKeys,          \* model bound: keys made
          MaxWrites         \* model bound: writes of the pipeline's row

ASSUME BlankAssumption == Blank \notin Value
ASSUME FlagsAssumption == SecretRequired \in BOOLEAN /\ NeedsConnection \in BOOLEAN
ASSUME BoundsAssumption == MaxKeys \in Nat /\ MaxWrites \in Nat

VARIABLES keyfile, made,        \* master.key, and the keys made so far
          stored, secret, dest, \* the pipeline's row
          saved, token,         \* the saved destination, the telegram token
          pc, next,             \* of a call; where it goes with its store open
          form,                 \* what the request carries
          mine,                 \* the key of the call's store
          value, conn,          \* secret and connection about to be saved
          answer,               \* of the call that the last step ended
          \* only for the properties:
          writes, seen,         \* writes of the row; those the call had seen
          disturbed             \* a first use of the key met another, or a crash;
                                \* or the key file was lost

keys == <<keyfile, made, disturbed>>
row == <<stored, secret, dest, writes>>
others == <<saved, token>>
mind == <<form, value, conn, seen>>
vars == <<keys, row, others, mind, pc, next, mine, answer>>

Absent == 0
Empty == -1
Values == Value \cup {Blank}
Token == [key : 0..MaxKeys, value : Values]
NoToken == [key |-> 0, value |-> Blank]
NoForm == [secret |-> Blank, dest |-> Blank, usesSaved |-> FALSE]
\* One that names a saved destination needs no other.
Form == [secret : Values, dest : Values, usesSaved : {FALSE}]
        \cup [secret : Values, dest : {Blank}, usesSaved : {TRUE}]

Answers == {"none", "ok", "refused", "error", "ciphertext"}

Jobs == {"find", "load", "drop", "keep", "discard", "settoken", "gettoken"}
Opening == {"look", "read", "make", "write"}
PCs == {"idle", "fetch", "put"} \cup Jobs \cup Opening

Silent == answer' = "none"
Goto(c, label) == pc' = [pc EXCEPT ![c] = label]
FirstUse(c) == pc[c] \in {"make", "write"}

Init == /\ keyfile = Absent /\ made = 0 /\ disturbed = FALSE
        /\ stored = FALSE /\ secret = NoToken /\ dest = NoToken /\ writes = 0
        /\ saved = NoToken /\ token = NoToken
        /\ pc = [c \in Call |-> "idle"] /\ next = [c \in Call |-> "idle"]
        /\ form = [c \in Call |-> NoForm] /\ mine = [c \in Call |-> 0]
        /\ value = [c \in Call |-> Blank] /\ conn = [c \in Call |-> Blank]
        /\ answer = "none"
        /\ seen = [c \in Call |-> 0]

(***************************************************************************)
(* A call                                                                  *)
(***************************************************************************)
\* The request; only the one that saves the pipeline carries a form.
Begin(c) ==
    /\ pc[c] = "idle"
    /\ \E job \in Jobs :
           /\ next' = [next EXCEPT ![c] = job]
           /\ Goto(c, "look")
           /\ \E f \in IF job = "find" THEN Form ELSE {NoForm} :
                  form' = [form EXCEPT ![c] = f]
    /\ Silent
    /\ UNCHANGED <<keys, row, others, value, conn, seen, mine>>

\* The call is over; what it had in memory is gone.
Ends(c, reply) ==
    /\ Goto(c, "idle")
    /\ next' = [next EXCEPT ![c] = "idle"]
    /\ form' = [form EXCEPT ![c] = NoForm] /\ mine' = [mine EXCEPT ![c] = 0]
    /\ value' = [value EXCEPT ![c] = Blank] /\ conn' = [conn EXCEPT ![c] = Blank]
    /\ seen' = [seen EXCEPT ![c] = 0]
    /\ answer' = reply

Reopen(c, label) == Goto(c, "look") /\ next' = [next EXCEPT ![c] = label]

\* Its process dies.
Dies(c) == /\ pc[c] # "idle"
           /\ Ends(c, "none")
           /\ disturbed' = (disturbed \/ FirstUse(c))
           /\ UNCHANGED <<keyfile, made, row, others>>

(***************************************************************************)
(* ControlStore(): CredentialCipher._load_or_create_key                    *)
(***************************************************************************)
\* exists(); without a file a key is made.
Look(c) ==
    /\ pc[c] = "look"
    /\ \/ /\ keyfile # Absent
          /\ Goto(c, "read") /\ UNCHANGED <<made, mine>>
       \/ /\ keyfile = Absent /\ made < MaxKeys
          /\ made' = made + 1 /\ mine' = [mine EXCEPT ![c] = made + 1]
          /\ Goto(c, "make")
    /\ disturbed' = (disturbed \/ \E d \in Call : FirstUse(d))
    /\ UNCHANGED <<keyfile, row, others, mind, next>> /\ Silent

\* read_bytes(); Fernet refuses an empty key, and nothing catches that.
Read(c) ==
    /\ pc[c] = "read"
    /\ \/ /\ keyfile > 0
          /\ mine' = [mine EXCEPT ![c] = keyfile] /\ Goto(c, next[c])
          /\ UNCHANGED <<mind, next>> /\ Silent
       \/ keyfile <= 0 /\ Ends(c, "error")
    /\ UNCHANGED <<keys, row, others>>

\* write_bytes() opens the file, which empties it, and then writes.
Make(c) ==
    /\ pc[c] = "make"
    /\ keyfile' = Empty /\ Goto(c, "write")
    /\ UNCHANGED <<made, disturbed, row, others, mind, next, mine>> /\ Silent

\* Variant: the key is used and not kept.
WriteNothing(c) ==
    /\ pc[c] = "write"
    /\ Goto(c, next[c])
    /\ UNCHANGED <<keys, row, others, mind, next, mine>> /\ Silent

Write(c) ==
    /\ pc[c] = "write"
    /\ keyfile' = mine[c] /\ Goto(c, next[c])
    /\ UNCHANGED <<made, disturbed, row, others, mind, next, mine>> /\ Silent

\* The database is restored, or moved to another machine, without the key.
LoseKey == /\ keyfile > 0
           /\ keyfile' = Absent /\ disturbed' = TRUE
           /\ UNCHANGED <<made, row, others, mind, pc, next, mine>> /\ Silent

(***************************************************************************)
(* ControlStore                                                            *)
(***************************************************************************)
Encrypted(c, v) == [key |-> mine[c], value |-> v]
Opens(c, t) == t = NoToken \/ t.key = mine[c]
Loads(c) == Opens(c, secret) /\ Opens(c, dest)
Refused(c) == Ends(c, "refused") /\ UNCHANGED <<row, others>>

\* Variant: a blank secret is stored as it came.
MergedAsTyped(c) == form[c].secret

\* "Edit: empty secret means keep existing."
Merged(c) == IF form[c].secret = Blank /\ stored THEN secret.value ELSE form[c].secret
Valid(v) == SecretRequired => v # Blank
Connected(v) == NeedsConnection => v # Blank

\* create_pipeline: load the existing pipeline (with a key that does not open
\* it, an error), merge, validate, and go on with another store.
Find(c) ==
    /\ pc[c] = "find"
    /\ \/ stored /\ ~Loads(c) /\ Ends(c, "error")
       \/ ~Valid(Merged(c)) /\ Refused(c)
       \/ ~form[c].usesSaved /\ ~Connected(form[c].dest) /\ Refused(c)
       \/ /\ stored => Loads(c)
          /\ Valid(Merged(c)) /\ (form[c].usesSaved \/ Connected(form[c].dest))
          /\ value' = [value EXCEPT ![c] = Merged(c)]
          /\ conn' = [conn EXCEPT ![c] = form[c].dest]
          /\ seen' = [seen EXCEPT ![c] = writes]
          /\ Reopen(c, IF form[c].usesSaved THEN "fetch" ELSE "put")
          /\ UNCHANGED <<form, mine>> /\ Silent
    /\ UNCHANGED <<keys, row, others>>

\* Variant: the saved destination is checked, and its connection not copied.
FetchChecked(c) ==
    LET connection == IF saved.key = mine[c] THEN saved.value ELSE Blank IN
    /\ pc[c] = "fetch"
    /\ \/ (saved = NoToken \/ ~Connected(connection)) /\ Refused(c)
       \/ /\ saved # NoToken /\ Connected(connection)
          /\ Reopen(c, "put")
          /\ UNCHANGED <<mind, mine>> /\ Silent
    /\ UNCHANGED <<keys, row, others>>

\* get_saved_destination: one that does not open has no connection.
Fetch(c) ==
    LET connection == IF saved.key = mine[c] THEN saved.value ELSE Blank IN
    /\ pc[c] = "fetch"
    /\ \/ (saved = NoToken \/ ~Connected(connection)) /\ Refused(c)
       \/ /\ saved # NoToken /\ Connected(connection)
          /\ conn' = [conn EXCEPT ![c] = connection]
          /\ Reopen(c, "put")
          /\ UNCHANGED <<form, value, seen, mine>> /\ Silent
    /\ UNCHANGED <<keys, row, others>>

\* Variant: the connection stays in config_json.
PutPlain(c) ==
    /\ pc[c] = "put" /\ writes < MaxWrites
    /\ stored' = TRUE /\ secret' = Encrypted(c, value[c]) /\ dest' = conn[c]
    /\ writes' = writes + 1
    /\ Ends(c, "ok")
    /\ UNCHANGED <<keys, others>>

\* save: encrypt, then insert or update.
Put(c) ==
    /\ pc[c] = "put" /\ writes < MaxWrites
    /\ stored' = TRUE /\ secret' = Encrypted(c, value[c])
    /\ dest' = IF conn[c] = Blank THEN NoToken ELSE Encrypted(c, conn[c])
    /\ writes' = writes + 1
    /\ Ends(c, "ok")
    /\ UNCHANGED <<keys, others>>

\* load, for a run, the preview or the edit form.
Load(c) == /\ pc[c] = "load"
           /\ Ends(c, IF ~stored THEN "refused" ELSE IF Loads(c) THEN "ok" ELSE "error")
           /\ UNCHANGED <<keys, row, others>>

Drop(c) == /\ pc[c] = "drop" /\ writes < MaxWrites
           /\ stored' = FALSE /\ secret' = NoToken /\ dest' = NoToken
           /\ writes' = writes + 1
           /\ Ends(c, "ok")
           /\ UNCHANGED <<keys, others>>

\* save_destination and delete_saved_destination, for one with a connection.
Keep(c) == /\ pc[c] = "keep"
           /\ \E v \in Value : saved' = Encrypted(c, v)
           /\ Ends(c, "ok")
           /\ UNCHANGED <<keys, row, token>>

Discard(c) == /\ pc[c] = "discard"
              /\ saved' = NoToken
              /\ Ends(c, IF saved = NoToken THEN "refused" ELSE "ok")
              /\ UNCHANGED <<keys, row, token>>

SetToken(c) == /\ pc[c] = "settoken"
               /\ \E v \in Value : token' = Encrypted(c, v)
               /\ Ends(c, "ok")
               /\ UNCHANGED <<keys, row, saved>>

\* get_secret_setting: what does not open is returned as it is stored.
GetToken(c) == /\ pc[c] = "gettoken"
               /\ Ends(c, IF Opens(c, token) THEN "ok" ELSE "ciphertext")
               /\ UNCHANGED <<keys, row, others>>

Step(c) == \/ Begin(c) \/ Dies(c) \/ Look(c) \/ Read(c) \/ Make(c) \/ Write(c)
           \/ Find(c) \/ Fetch(c) \/ Put(c) \/ Load(c) \/ Drop(c)
           \/ Keep(c) \/ Discard(c) \/ SetToken(c) \/ GetToken(c)

Next == \/ \E c \in Call : Step(c)
        \/ LoseKey

Spec == Init /\ [][Next]_vars

(***************************************************************************)
(* Properties                                                              *)
(***************************************************************************)
Tokens == {secret, dest, saved, token}
TypeOK == /\ keyfile \in Empty..MaxKeys /\ made \in 0..MaxKeys /\ disturbed \in BOOLEAN
          /\ stored \in BOOLEAN /\ Tokens \subseteq Token /\ writes \in 0..MaxWrites
          /\ pc \in [Call -> PCs] /\ next \in [Call -> PCs]
          /\ form \in [Call -> Form] /\ mine \in [Call -> 0..MaxKeys]
          /\ value \in [Call -> Values] /\ conn \in [Call -> Values]
          /\ answer \in Answers
          /\ seen \in [Call -> 0..MaxWrites]

\* Whatever calls overlap, and whichever store of theirs wrote a secret, it can
\* be read by every store that is open now or later: no call fails for its key
\* or gets a ciphertext.  But for two first uses at the same time, a crash
\* within one, and a lost master.key: then what was written stays unreadable.
ReadsBack == ~disturbed => answer \notin {"error", "ciphertext"}

\* A save with a blank secret leaves the secret as it is ("empty secret means
\* keep existing", app.py:608), through load, decryption and encryption by two
\* stores, unless another save or a deletion came between its load and its save:
\* then the later write wins, with the secret it loaded.
BlankKeeps == [][\A c \in Call : pc[c] = "put" /\ writes' # writes /\ pc'[c] = "idle"
                     /\ form[c].secret = Blank /\ seen[c] = writes
                     => secret'.value = secret.value]_vars

(***************************************************************************)
(* The vault that the store is to its users                                *)
(***************************************************************************)
\* Between an edit's look at the pipeline and its save; still to fetch.
Carries(c) == pc[c] \in {"fetch", "put"} \/ (pc[c] \in Opening /\ next[c] \in {"fetch", "put"})
Fetches(c) == pc[c] = "fetch" \/ (pc[c] \in Opening /\ next[c] = "fetch")

Editing == {c \in Call : Carries(c)}
Taking == {c \in Call : Fetches(c)}
Draft == [c \in Call |-> [secret |-> value[c], dest |-> conn[c]]]

Plain == INSTANCE Vault
         WITH there <- stored, secret <- secret.value, dest <- dest.value,
              saved <- saved.value, token <- token.value,
              editing <- Editing, taking <- Taking, draft <- Draft,
              told <- answer, broken <- disturbed

\* Keys, tokens and store objects do not show: whichever stores of overlapping
\* calls wrote and read them, secrets are as values in one place, what an edit
\* leaves blank or copies from a saved destination is what is there, and nobody is
\* refused what is there.
ImplementsVault == Plain!Spec
===============================================================================
