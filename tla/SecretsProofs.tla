----------------------------- MODULE SecretsProofs -----------------------------
(***************************************************************************)
(* Proofs about Secrets.  As long as nothing disturbed the key file, one   *)
(* key is behind everything: the open stores and the stored tokens         *)
(* (OneKey).  What an edit carries from its load to its save is the stored *)
(* secret, as long as nobody wrote in between (Carried).                   *)
(***************************************************************************)
EXTENDS Secrets, TLAPS

USE BlankAssumption, FlagsAssumption, BoundsAssumption
    DEF BlankAssumption, FlagsAssumption, BoundsAssumption

\* What a call may go on with once its store is open.
Going == Jobs \cup {"fetch", "put"}

\* A form, and no form, are of the types.
LEMMA Types == /\ NoForm \in Form /\ NoToken \in Token /\ Blank \in Values
               /\ \A f \in Form : f.secret \in Values /\ f.dest \in Values
                                  /\ f.usesSaved \in BOOLEAN
               /\ Going \subseteq PCs /\ Opening \subseteq PCs
               /\ {"idle", "look", "read", "make", "write", "fetch", "put"} \subseteq PCs
               /\ {"none", "ok", "refused", "error", "ciphertext"} = Answers
<1>1. NoForm \in Form
  BY DEF NoForm, Form, Values
<1>2. NoToken \in Token
  BY DEF NoToken, Token, Values
<1>3. \A f \in Form : f.secret \in Values /\ f.dest \in Values /\ f.usesSaved \in BOOLEAN
  BY DEF Form, Values
<1>4. /\ Blank \in Values
      /\ {"none", "ok", "refused", "error", "ciphertext"} = Answers
  BY DEF Values, Answers
<1>5. /\ Going \subseteq PCs /\ Opening \subseteq PCs
      /\ {"idle", "look", "read", "make", "write", "fetch", "put"} \subseteq PCs
  BY DEF Going, Opening, PCs, Jobs
<1>6. QED
  BY <1>1, <1>2, <1>3, <1>4, <1>5

\* The end of a call keeps the types of what the calls have in memory.
CallTypes == /\ pc \in [Call -> PCs] /\ next \in [Call -> PCs]
             /\ form \in [Call -> Form] /\ mine \in [Call -> 0..MaxKeys]
             /\ value \in [Call -> Values] /\ conn \in [Call -> Values]
             /\ answer \in Answers
             /\ seen \in [Call -> 0..MaxWrites]
StoreTypes == /\ keyfile \in Empty..MaxKeys /\ made \in 0..MaxKeys /\ disturbed \in BOOLEAN
              /\ stored \in BOOLEAN /\ Tokens \subseteq Token /\ writes \in 0..MaxWrites

LEMMA Halves == TypeOK <=> StoreTypes /\ CallTypes
  BY DEF TypeOK, StoreTypes, CallTypes

LEMMA EndsTypes ==
  ASSUME CallTypes, NEW c \in Call, NEW reply \in Answers, Ends(c, reply)
  PROVE  CallTypes'
<1>1. /\ pc' \in [Call -> PCs] /\ next' \in [Call -> PCs] /\ answer' \in Answers
  BY Types DEF Ends, Goto, CallTypes
<1>2. form' \in [Call -> Form] /\ mine' \in [Call -> 0..MaxKeys]
  BY Types DEF Ends, CallTypes
<1>3. /\ value' \in [Call -> Values] /\ conn' \in [Call -> Values]
      /\ seen' \in [Call -> 0..MaxWrites]
  BY Types DEF Ends, CallTypes
<1>4. QED
  BY <1>1, <1>2, <1>3 DEF CallTypes

\* A token under a store's key is a token.
LEMMA EncryptedType ==
  ASSUME TypeOK, NEW c \in Call, NEW v \in Values
  PROVE  Encrypted(c, v) \in Token
  BY DEF TypeOK, Encrypted, Token

(***************************************************************************)
(* The invariant                                                           *)
(***************************************************************************)
\* A call that opens a store has somewhere to go with it.
Bound == \A c \in Call : pc[c] \in Opening => next[c] \in Going

\* One key: a first use is alone, nobody has a store or reads the file before
\* it ends, and what is open or encrypted is so under the key in the file.
OneKey ==
    /\ \A c, d \in Call : FirstUse(c) /\ FirstUse(d) => c = d
    /\ \A c \in Call : /\ pc[c] = "make" => keyfile = Absent
                       /\ pc[c] = "write" => keyfile = Empty
                       /\ FirstUse(c) => mine[c] > 0
                       /\ pc[c] = "read" => keyfile > 0
                       /\ pc[c] \in Going => keyfile > 0 /\ mine[c] = keyfile
    /\ keyfile = Empty => \E c \in Call : pc[c] = "write"
    /\ \A t \in Tokens : t = NoToken \/ (keyfile > 0 /\ t.key = keyfile)

Undisturbed == ~disturbed => OneKey

Carried ==
    /\ ~stored => secret = NoToken
    /\ \A c \in Call : /\ seen[c] <= writes
                       /\ Carries(c) /\ form[c].secret = Blank /\ seen[c] = writes
                              => value[c] = secret.value

Inv == TypeOK /\ Bound /\ Undisturbed /\ ReadsBack /\ Carried

\* The start: no key, no secrets, no calls.
LEMMA InitInv == Init => Inv
<1> SUFFICES ASSUME Init PROVE Inv
  OBVIOUS
<1>1. CallTypes
  BY Types DEF Init, CallTypes
<1>2. StoreTypes
  <2>1. keyfile \in Empty..MaxKeys /\ made \in 0..MaxKeys /\ writes \in 0..MaxWrites
    BY DEF Init, Absent, Empty
  <2>2. disturbed \in BOOLEAN /\ stored \in BOOLEAN /\ Tokens \subseteq Token
    BY Types DEF Init, Tokens
  <2>3. QED
    BY <2>1, <2>2 DEF StoreTypes
<1>3. Bound /\ ReadsBack
  BY DEF Init, Bound, Opening, ReadsBack
<1>4. Undisturbed
  BY DEF Init, Undisturbed, OneKey, FirstUse, Going, Jobs, Tokens, Absent, Empty
<1>5. Carried
  BY DEF Init, Carried, Carries, Opening, NoForm, NoToken
<1>6. QED
  BY <1>1, <1>2, <1>3, <1>4, <1>5, Halves DEF Inv

(***************************************************************************)
(* Types                                                                   *)
(***************************************************************************)
LEMMA NextTypes == TypeOK /\ Bound /\ [Next]_vars => TypeOK'
<1> SUFFICES ASSUME TypeOK, Bound, [Next]_vars PROVE StoreTypes' /\ CallTypes'
  BY DEF TypeOK, StoreTypes, CallTypes, Tokens
<1> USE Types
<1>0. StoreTypes /\ CallTypes
  BY Halves
<1>1. ASSUME NEW c \in Call, Step(c) PROVE StoreTypes' /\ CallTypes'
  <2>1. CASE Begin(c)
    <3>1. StoreTypes'
      BY <1>0, <2>1 DEF Begin, keys, row, others, StoreTypes, Tokens
    <3>2. /\ pc' \in [Call -> PCs] /\ next' \in [Call -> PCs] /\ form' \in [Call -> Form]
      BY <1>0, <2>1 DEF Begin, Goto, CallTypes, Going
    <3>3. QED
      BY <1>0, <2>1, <3>1, <3>2 DEF Begin, Silent, CallTypes
  <2>2. CASE Dies(c)
    <3>1. StoreTypes'
      BY <1>0, <2>2 DEF Dies, row, others, StoreTypes, Tokens
    <3>2. QED
      BY <1>0, <2>2, <3>1, EndsTypes DEF Dies
  <2>3. CASE Look(c)
    <3>1. disturbed' \in BOOLEAN /\ made' \in 0..MaxKeys /\ mine' \in [Call -> 0..MaxKeys]
      BY <1>0, <2>3 DEF Look, StoreTypes, CallTypes
    <3>2. pc' \in [Call -> PCs]
      BY <1>0, <2>3 DEF Look, Goto, CallTypes
    <3>3. StoreTypes'
      BY <1>0, <2>3, <3>1 DEF Look, row, others, StoreTypes, Tokens
    <3>4. QED
      BY <1>0, <2>3, <3>1, <3>2, <3>3 DEF Look, mind, Silent, CallTypes
  <2>4. CASE Read(c)
    <3>1. StoreTypes'
      BY <1>0, <2>4 DEF Read, keys, row, others, StoreTypes, Tokens
    <3>2. CASE Ends(c, "error")
      BY <1>0, <3>1, <3>2, EndsTypes
    <3>3. CASE /\ keyfile > 0 /\ mine' = [mine EXCEPT ![c] = keyfile]
               /\ Goto(c, next[c]) /\ UNCHANGED <<mind, next>> /\ Silent
      <4>1. keyfile \in 0..MaxKeys
        BY <1>0, <3>3 DEF StoreTypes, Empty
      <4>2. QED
        BY <1>0, <3>1, <3>3, <4>1 DEF Goto, mind, Silent, CallTypes
    <3>4. QED
      BY <2>4, <3>2, <3>3 DEF Read
  <2>5. CASE Make(c)
    <3>1. StoreTypes'
      BY <1>0, <2>5 DEF Make, row, others, StoreTypes, Tokens, Empty
    <3>2. QED
      BY <1>0, <2>5, <3>1 DEF Make, Goto, mind, Silent, CallTypes
  <2>6. CASE Write(c)
    <3>1. keyfile' \in Empty..MaxKeys
      BY <1>0, <2>6 DEF Write, CallTypes, Empty
    <3>2. StoreTypes'
      BY <1>0, <2>6, <3>1 DEF Write, row, others, StoreTypes, Tokens
    <3>3. QED
      BY <1>0, <2>6, <3>2 DEF Write, Goto, mind, Silent, CallTypes
  <2>7. CASE Find(c)
    <3>1. StoreTypes'
      BY <1>0, <2>7 DEF Find, keys, row, others, StoreTypes, Tokens
    <3>2. CASE Ends(c, "error")
      BY <1>0, <3>1, <3>2, EndsTypes
    <3>3. CASE Refused(c)
      BY <1>0, <3>1, <3>3, EndsTypes DEF Refused
    <3>4. CASE /\ value' = [value EXCEPT ![c] = Merged(c)]
               /\ conn' = [conn EXCEPT ![c] = form[c].dest]
               /\ seen' = [seen EXCEPT ![c] = writes]
               /\ Reopen(c, IF form[c].usesSaved THEN "fetch" ELSE "put")
               /\ UNCHANGED <<form, mine>> /\ Silent
      <4>1. form[c] \in Form /\ form[c].secret \in Values /\ form[c].dest \in Values
        BY <1>0 DEF CallTypes
      <4>2. secret.value \in Values
        BY <1>0 DEF StoreTypes, Tokens, Token
      <4>3. Merged(c) \in Values
        BY <4>1, <4>2 DEF Merged
      <4>4. value' \in [Call -> Values] /\ conn' \in [Call -> Values]
        BY <1>0, <3>4, <4>1, <4>3 DEF CallTypes
      <4>5. seen' \in [Call -> 0..MaxWrites]
        BY <1>0, <3>4 DEF CallTypes, StoreTypes
      <4>6. pc' \in [Call -> PCs] /\ next' \in [Call -> PCs]
        BY <1>0, <3>4 DEF Reopen, Goto, CallTypes
      <4>7. QED
        BY <1>0, <3>1, <3>4, <4>4, <4>5, <4>6 DEF Silent, CallTypes
    <3>5. QED
      BY <2>7, <3>2, <3>3, <3>4 DEF Find
  <2>8. CASE Fetch(c)
    <3>1. StoreTypes'
      BY <1>0, <2>8 DEF Fetch, keys, row, others, StoreTypes, Tokens
    <3>2. CASE Refused(c)
      BY <1>0, <3>1, <3>2, EndsTypes DEF Refused
    <3>3. CASE \E v \in Values : /\ conn' = [conn EXCEPT ![c] = v]
                                 /\ Reopen(c, "put")
                                 /\ UNCHANGED <<form, value, seen, mine>> /\ Silent
      <4>1. conn' \in [Call -> Values] /\ pc' \in [Call -> PCs] /\ next' \in [Call -> PCs]
        BY <1>0, <3>3 DEF Reopen, Goto, CallTypes
      <4>2. QED
        BY <1>0, <3>1, <3>3, <4>1 DEF Silent, CallTypes
    <3>4. saved.value \in Values
      BY <1>0 DEF StoreTypes, Tokens, Token
    <3>5. QED
      BY <2>8, <3>2, <3>3, <3>4 DEF Fetch
  <2>9. CASE Put(c)
    <3>1. /\ Encrypted(c, value[c]) \in Token /\ Encrypted(c, conn[c]) \in Token
      BY <1>0, EncryptedType DEF CallTypes
    <3>2. writes' \in 0..MaxWrites
      BY <1>0, <2>9 DEF Put, StoreTypes
    <3>3. StoreTypes'
      BY <1>0, <2>9, <3>1, <3>2 DEF Put, keys, others, StoreTypes, Tokens
    <3>4. QED
      BY <1>0, <2>9, <3>3, EndsTypes DEF Put
  <2>10. CASE Load(c) \/ GetToken(c)
    <3>1. StoreTypes'
      BY <1>0, <2>10 DEF Load, GetToken, keys, row, others, StoreTypes, Tokens
    <3>2. QED
      BY <1>0, <2>10, <3>1, EndsTypes DEF Load, GetToken
  <2>11. CASE Drop(c)
    <3>1. writes' \in 0..MaxWrites
      BY <1>0, <2>11 DEF Drop, StoreTypes
    <3>2. StoreTypes'
      BY <1>0, <2>11, <3>1 DEF Drop, keys, others, StoreTypes, Tokens
    <3>3. QED
      BY <1>0, <2>11, <3>2, EndsTypes DEF Drop
  <2>12. CASE Keep(c) \/ SetToken(c)
    <3>1. \A v \in Value : Encrypted(c, v) \in Token
      BY EncryptedType DEF Values
    <3>2. StoreTypes'
      BY <1>0, <2>12, <3>1 DEF Keep, SetToken, keys, row, StoreTypes, Tokens
    <3>3. QED
      BY <1>0, <2>12, <3>2, EndsTypes DEF Keep, SetToken
  <2>13. CASE Discard(c)
    <3>1. StoreTypes'
      BY <1>0, <2>13 DEF Discard, keys, row, StoreTypes, Tokens
    <3>2. QED
      BY <1>0, <2>13, <3>1, EndsTypes DEF Discard
  <2>14. QED
    BY <1>1, <2>1, <2>2, <2>3, <2>4, <2>5, <2>6, <2>7, <2>8, <2>9, <2>10, <2>11, <2>12, <2>13
    DEF Step
<1>2. CASE LoseKey
  <2>1. StoreTypes'
    BY <1>0, <1>2 DEF LoseKey, row, others, StoreTypes, Tokens, Absent, Empty
  <2>2. QED
    BY <1>0, <1>2, <2>1 DEF LoseKey, mind, Silent, CallTypes
<1>3. CASE UNCHANGED vars
  BY <1>0, <1>3 DEF vars, keys, row, others, mind, StoreTypes, CallTypes, Tokens
<1>4. QED
  BY <1>1, <1>2, <1>3 DEF Next

\* Where a call goes once its store is open.
LEMMA NextBound == TypeOK /\ Bound /\ [Next]_vars => Bound'
<1> SUFFICES ASSUME TypeOK, Bound, [Next]_vars PROVE Bound'
  OBVIOUS
<1>0. pc \in [Call -> PCs] /\ next \in [Call -> PCs]
  BY DEF TypeOK
<1>1. ASSUME NEW c \in Call, Step(c) PROVE Bound'
  <2>1. \A d \in Call \ {c} : pc'[d] = pc[d] /\ next'[d] = next[d]
    BY <1>0, <1>1 DEF Step, Begin, Ends, Goto, Reopen, Dies, Look, Read, Make, Write, Find,
       Fetch, Put, Load, Drop, Keep, Discard, SetToken, GetToken, Refused, mind
  <2>2. pc'[c] \in Opening => next'[c] \in Going
    <3>1. CASE Begin(c)
      BY <1>0, <3>1 DEF Begin, Goto, Going
    <3>2. CASE Look(c) \/ Make(c)
      BY <1>0, <3>2 DEF Look, Make, Goto, Bound, Opening
    <3>3. CASE Read(c) \/ Write(c)
      <4>1. next[c] \in Going
        BY <3>3 DEF Bound, Opening, Read, Write
      <4>2. QED
        BY <1>0, <3>3, <4>1 DEF Read, Write, Goto, Ends, Going, Opening, Jobs
    <3>4. CASE Find(c) \/ Fetch(c)
      BY <1>0, <3>4 DEF Find, Fetch, Goto, Reopen, Refused, Ends, Opening, Going
    <3>5. CASE \/ Dies(c) \/ Put(c) \/ Load(c) \/ Drop(c) \/ Keep(c) \/ Discard(c)
               \/ SetToken(c) \/ GetToken(c)
      BY <1>0, <3>5 DEF Dies, Put, Load, Drop, Keep, Discard, SetToken, GetToken, Ends, Goto,
         Opening
    <3>6. QED
      BY <1>1, <3>1, <3>2, <3>3, <3>4, <3>5 DEF Step
  <2>3. QED
    BY <2>1, <2>2 DEF Bound
<1>2. CASE LoseKey \/ UNCHANGED vars
  BY <1>2 DEF LoseKey, vars, Bound
<1>3. QED
  BY <1>1, <1>2 DEF Next

(***************************************************************************)
(* One key                                                                 *)
(***************************************************************************)
\* The steps that leave the key file and nobody's store but a fresh one alone.
LEMMA KeyKept ==
  ASSUME TypeOK, OneKey, NEW c \in Call, pc[c] \in Going \/ pc[c] = "idle" \/ pc[c] = "look",
         keyfile' = keyfile,
         \A d \in Call \ {c} : pc'[d] = pc[d] /\ mine'[d] = mine[d],
         pc'[c] \in {"idle", "look"},
         \A t \in Tokens' : t \in Tokens \/ t = NoToken \/ (keyfile > 0 /\ t.key = keyfile)
  PROVE  OneKey'
<1>1. \A d \in Call : /\ FirstUse(d)' => d # c /\ FirstUse(d)
                      /\ pc'[d] \in {"make", "write", "read"} => d # c
                      /\ pc'[d] \in Going => d # c
  BY DEF FirstUse, Going, Jobs
<1>2. keyfile = Empty => \E d \in Call : pc'[d] = "write"
  BY DEF OneKey, Going, Jobs
<1>3. QED
  BY <1>1, <1>2 DEF OneKey

\* A call that ends, or opens another store, and writes what its key opens.
LEMMA NextOneKey ==
  ASSUME TypeOK, Bound, OneKey, ~disturbed', [Next]_vars, ~disturbed
  PROVE  OneKey'
<1>0. pc \in [Call -> PCs] /\ next \in [Call -> PCs] /\ mine \in [Call -> 0..MaxKeys]
      /\ keyfile \in Empty..MaxKeys /\ made \in 0..MaxKeys
  BY DEF TypeOK
<1>1. ASSUME NEW c \in Call, Step(c) PROVE OneKey'
  <2>0. \A d \in Call \ {c} : pc'[d] = pc[d] /\ mine'[d] = mine[d]
    BY <1>0, <1>1 DEF Step, Begin, Ends, Goto, Reopen, Dies, Look, Read, Make, Write, Find,
       Fetch, Put, Load, Drop, Keep, Discard, SetToken, GetToken, Refused, mind
  <2>1. CASE Begin(c)
    BY <1>0, <2>0, <2>1, KeyKept DEF Begin, Goto, keys, row, others, Tokens
  <2>2. CASE Dies(c)
    <3>1. ~FirstUse(c)
      BY <2>2 DEF Dies
    <3>2. /\ pc'[c] = "idle" /\ keyfile' = keyfile /\ Tokens' = Tokens
      BY <1>0, <2>2 DEF Dies, Ends, Goto, row, others, Tokens
    <3>3. keyfile = Empty => \E d \in Call : pc'[d] = "write"
      BY <2>0, <3>1 DEF OneKey, FirstUse
    <3>4. QED
      BY <2>0, <3>1, <3>2, <3>3 DEF OneKey, FirstUse, Going, Jobs
  <2>3. CASE Look(c)
    <3>1. \A d \in Call : ~FirstUse(d)
      BY <1>0, <2>3 DEF Look, FirstUse
    <3>2. keyfile # Empty
      BY <3>1 DEF OneKey, FirstUse
    <3>3. keyfile' = keyfile /\ Tokens' = Tokens
      BY <2>3 DEF Look, row, others, Tokens
    <3>4. CASE keyfile # Absent /\ Goto(c, "read") /\ UNCHANGED <<made, mine>>
      <4>1. keyfile > 0 /\ pc'[c] = "read" /\ mine' = mine
        BY <1>0, <3>2, <3>4 DEF Goto, Absent, Empty
      <4>2. QED
        BY <2>0, <3>1, <3>2, <3>3, <4>1 DEF OneKey, FirstUse, Going, Jobs
    <3>5. CASE keyfile = Absent /\ mine' = [mine EXCEPT ![c] = made + 1] /\ Goto(c, "make")
      <4>1. pc'[c] = "make" /\ mine'[c] > 0
        BY <1>0, <3>5 DEF Goto
      <4>2. QED
        BY <2>0, <3>1, <3>2, <3>3, <3>5, <4>1 DEF OneKey, FirstUse, Going, Jobs, Absent
    <3>6. QED
      BY <2>3, <3>4, <3>5 DEF Look
  <2>4. CASE Read(c)
    <3>1. keyfile > 0 /\ pc[c] = "read"
      BY <2>4 DEF OneKey, Read
    <3>2. /\ pc'[c] = next[c] /\ mine'[c] = keyfile
      BY <1>0, <2>4, <3>1 DEF Read, Goto
    <3>3. next[c] \in Going
      BY <3>1 DEF Bound, Opening
    <3>4. keyfile' = keyfile /\ Tokens' = Tokens
      BY <2>4 DEF Read, keys, row, others, Tokens
    <3>5. QED
      BY <2>0, <3>1, <3>2, <3>3, <3>4 DEF OneKey, FirstUse, Going, Jobs, Empty
  <2>5. CASE Make(c)
    <3>1. pc[c] = "make" /\ keyfile = Absent /\ mine[c] > 0
      BY <2>5 DEF Make, OneKey, FirstUse
    <3>2. \A d \in Call \ {c} : ~FirstUse(d) /\ pc[d] # "read" /\ pc[d] \notin Going
      BY <3>1 DEF OneKey, FirstUse, Absent
    <3>3. pc'[c] = "write" /\ mine' = mine /\ keyfile' = Empty /\ Tokens' = Tokens
      BY <1>0, <2>5 DEF Make, Goto, row, others, Tokens
    <3>4. \A t \in Tokens : t = NoToken
      BY <3>1 DEF OneKey, Absent
    <3>5. QED
      BY <2>0, <3>1, <3>2, <3>3, <3>4 DEF OneKey, FirstUse, Going, Jobs
  <2>6. CASE Write(c)
    <3>1. pc[c] = "write" /\ keyfile = Empty /\ mine[c] > 0
      BY <2>6 DEF Write, OneKey, FirstUse
    <3>2. \A d \in Call \ {c} : ~FirstUse(d) /\ pc[d] # "read" /\ pc[d] \notin Going
      BY <3>1 DEF OneKey, FirstUse, Empty
    <3>3. next[c] \in Going
      BY <3>1 DEF Bound, Opening
    <3>4. pc'[c] = next[c] /\ mine' = mine /\ keyfile' = mine[c] /\ Tokens' = Tokens
      BY <1>0, <2>6 DEF Write, Goto, row, others, Tokens
    <3>5. \A t \in Tokens : t = NoToken
      BY <3>1 DEF OneKey, Empty
    <3>6. QED
      BY <2>0, <3>1, <3>2, <3>3, <3>4, <3>5 DEF OneKey, FirstUse, Going, Jobs, Empty
  <2>7. CASE \/ Find(c) \/ Fetch(c) \/ Put(c) \/ Load(c) \/ Drop(c) \/ Keep(c) \/ Discard(c)
             \/ SetToken(c) \/ GetToken(c)
    <3>1. pc[c] \in Going /\ keyfile > 0 /\ mine[c] = keyfile
      <4>1. pc[c] \in Going
        BY <2>7 DEF Find, Fetch, Put, Load, Drop, Keep, Discard, SetToken, GetToken, Going, Jobs
      <4>2. QED
        BY <4>1 DEF OneKey
    <3>2. keyfile' = keyfile
      BY <2>7 DEF Find, Fetch, Put, Load, Drop, Keep, Discard, SetToken, GetToken, keys
    <3>3. pc'[c] \in {"idle", "look"}
      BY <1>0, <2>7 DEF Find, Fetch, Put, Load, Drop, Keep, Discard, SetToken, GetToken, Ends,
         Goto, Reopen, Refused
    <3>4. \A v : Encrypted(c, v).key = keyfile
      BY <3>1 DEF Encrypted
    <3>5. \A t \in Tokens' : t \in Tokens \/ t = NoToken \/ (keyfile > 0 /\ t.key = keyfile)
      <4>1. CASE Find(c) \/ Fetch(c) \/ Load(c) \/ GetToken(c)
        BY <4>1 DEF Find, Fetch, Load, GetToken, row, others, Tokens
      <4>2. CASE Put(c)
        BY <3>1, <3>4, <4>2 DEF Put, others, Tokens
      <4>3. CASE Drop(c) \/ Discard(c)
        BY <4>3 DEF Drop, Discard, row, others, Tokens
      <4>4. CASE Keep(c) \/ SetToken(c)
        BY <3>1, <3>4, <4>4 DEF Keep, SetToken, row, Tokens
      <4>5. QED
        BY <2>7, <4>1, <4>2, <4>3, <4>4
    <3>6. QED
      BY <2>0, <3>1, <3>2, <3>3, <3>5, KeyKept
  <2>8. QED
    BY <1>1, <2>1, <2>2, <2>3, <2>4, <2>5, <2>6, <2>7 DEF Step
<1>2. CASE LoseKey
  BY <1>2 DEF LoseKey
<1>3. CASE UNCHANGED vars
  BY <1>3 DEF vars, keys, row, others, OneKey, FirstUse, Tokens
<1>4. QED
  BY <1>1, <1>2, <1>3 DEF Next

\* Once disturbed, always.
LEMMA DisturbedStays == TypeOK /\ [Next]_vars /\ disturbed => disturbed'
<1> SUFFICES ASSUME TypeOK, [Next]_vars, disturbed PROVE disturbed'
  OBVIOUS
<1>1. ASSUME NEW c \in Call, Step(c) PROVE disturbed'
  BY <1>1 DEF Step, Begin, Dies, Look, Read, Make, Write, Find, Fetch, Put, Load, Drop, Keep,
     Discard, SetToken, GetToken, keys
<1>2. CASE LoseKey \/ UNCHANGED vars
  BY <1>2 DEF LoseKey, vars, keys
<1>3. QED
  BY <1>1, <1>2 DEF Next

LEMMA NextUndisturbed == TypeOK /\ Bound /\ Undisturbed /\ [Next]_vars => Undisturbed'
<1> SUFFICES ASSUME TypeOK, Bound, Undisturbed, [Next]_vars, ~disturbed' PROVE OneKey'
  BY DEF Undisturbed
<1>1. ~disturbed
  BY DisturbedStays
<1>2. QED
  BY <1>1, NextOneKey DEF Undisturbed

\* With one key, everything opens.
LEMMA NextReadsBack == TypeOK /\ Undisturbed /\ ReadsBack /\ [Next]_vars => ReadsBack'
<1> SUFFICES ASSUME TypeOK, Undisturbed, ReadsBack, [Next]_vars, ~disturbed'
             PROVE  answer' \notin {"error", "ciphertext"}
  BY DEF ReadsBack
<1>1. OneKey
  BY DisturbedStays DEF Undisturbed
<1>2. answer \notin {"error", "ciphertext"}
  BY DisturbedStays DEF ReadsBack
<1>3. ASSUME NEW c \in Call, Step(c) PROVE answer' \notin {"error", "ciphertext"}
  <2>1. CASE Read(c)
    <3>1. keyfile > 0 /\ keyfile \in Int
      BY <1>1, <2>1 DEF OneKey, Read, TypeOK, Empty
    <3>2. QED
      BY <2>1, <3>1 DEF Read, Silent
  <2>2. CASE Find(c) \/ Load(c) \/ GetToken(c)
    <3>1. mine[c] = keyfile
      BY <1>1, <2>2 DEF OneKey, Find, Load, GetToken, Going, Jobs
    <3>2. Loads(c) /\ Opens(c, token)
      BY <1>1, <3>1 DEF OneKey, Loads, Opens, Tokens
    <3>3. QED
      BY <2>2, <3>2 DEF Find, Load, GetToken, Refused, Ends, Silent
  <2>3. CASE \/ Begin(c) \/ Dies(c) \/ Look(c) \/ Make(c) \/ Write(c) \/ Fetch(c) \/ Put(c)
             \/ Drop(c) \/ Keep(c) \/ Discard(c) \/ SetToken(c)
    BY <2>3 DEF Begin, Dies, Look, Make, Write, Fetch, Put, Drop, Keep, Discard, SetToken,
       Refused, Ends, Silent
  <2>4. QED
    BY <1>3, <2>1, <2>2, <2>3 DEF Step
<1>4. CASE LoseKey \/ UNCHANGED vars
  BY <1>2, <1>4 DEF LoseKey, Silent, vars
<1>5. QED
  BY <1>3, <1>4 DEF Next

(***************************************************************************)
(* Blank secrets                                                           *)
(***************************************************************************)
\* Steps that leave row and memory alone and begin no edit.
LEMMA CarriedKept ==
  ASSUME Carried, UNCHANGED <<stored, secret, writes, form, value, seen>>,
         \A d \in Call : Carries(d)' => Carries(d)
  PROVE  Carried'
  BY DEF Carried

LEMMA NextCarried == TypeOK /\ Carried /\ [Next]_vars => Carried'
<1> SUFFICES ASSUME TypeOK, Carried, [Next]_vars PROVE Carried'
  OBVIOUS
<1>0. /\ pc \in [Call -> PCs] /\ next \in [Call -> PCs] /\ form \in [Call -> Form]
      /\ value \in [Call -> Values] /\ seen \in [Call -> 0..MaxWrites] /\ writes \in Nat
  BY DEF TypeOK
<1>1. ASSUME NEW c \in Call, Step(c) PROVE Carried'
  <2>0. \A d \in Call \ {c} : /\ pc'[d] = pc[d] /\ next'[d] = next[d] /\ form'[d] = form[d]
                              /\ value'[d] = value[d] /\ seen'[d] = seen[d]
    BY <1>0, <1>1 DEF Step, Begin, Ends, Goto, Reopen, Dies, Look, Read, Make, Write, Find,
       Fetch, Put, Load, Drop, Keep, Discard, SetToken, GetToken, Refused, mind
  <2>1. CASE Begin(c)
    <3>1. UNCHANGED <<stored, secret, writes, seen, value>> /\ pc'[c] = "look" /\ next'[c] \in Jobs
      BY <1>0, <2>1 DEF Begin, Goto, row
    <3>2. ~Carries(c)'
      BY <3>1 DEF Carries, Jobs
    <3>3. QED
      BY <2>0, <3>1, <3>2 DEF Carried, Carries
  <2>2. CASE Look(c) \/ Read(c) \/ Make(c) \/ Write(c)
    <3>1. UNCHANGED <<stored, secret, writes>>
      BY <2>2 DEF Look, Read, Make, Write, row
    <3>2. CASE Ends(c, "error")
      BY <1>0, <2>0, <3>1, <3>2 DEF Ends, Goto, Carried, Carries, Opening
    <3>3. CASE /\ UNCHANGED <<form, value, seen, next>> /\ pc[c] \in Opening
               /\ pc'[c] \in Opening \cup {next[c]}
      <4>1. Carries(c)' => Carries(c)
        BY <3>3 DEF Carries, Opening
      <4>2. \A d \in Call : Carries(d)' => Carries(d)
        BY <2>0, <4>1 DEF Carries
      <4>3. QED
        BY <3>1, <3>3, <4>2, CarriedKept
    <3>4. QED
      BY <1>0, <2>2, <3>2, <3>3 DEF Look, Read, Make, Write, Goto, mind, Opening
  <2>3. CASE Find(c)
    <3>1. UNCHANGED <<stored, secret, writes>>
      BY <2>3 DEF Find, row
    <3>2. CASE Ends(c, "error") \/ Refused(c)
      BY <1>0, <2>0, <3>1, <3>2 DEF Refused, Ends, Goto, Carried, Carries, Opening
    <3>3. CASE /\ value' = [value EXCEPT ![c] = Merged(c)]
               /\ seen' = [seen EXCEPT ![c] = writes] /\ UNCHANGED form
      <4>1. value'[c] = Merged(c) /\ seen'[c] = writes /\ form'[c] = form[c]
        BY <1>0, <3>3
      <4>2. form[c].secret = Blank => Merged(c) = secret.value
        BY DEF Merged, Carried, NoToken
      <4>3. QED
        BY <1>0, <2>0, <3>1, <4>1, <4>2 DEF Carried, Carries
    <3>4. QED
      BY <2>3, <3>2, <3>3 DEF Find
  <2>4. CASE Fetch(c)
    <3>1. UNCHANGED <<stored, secret, writes>> /\ Carries(c)
      BY <2>4 DEF Fetch, row, Carries
    <3>2. CASE Refused(c)
      BY <1>0, <2>0, <3>1, <3>2 DEF Refused, Ends, Goto, Carried, Carries, Opening
    <3>3. CASE UNCHANGED <<form, value, seen, mine>>
      <4>1. \A d \in Call : Carries(d)' => Carries(d)
        BY <2>0, <3>1 DEF Carries
      <4>2. QED
        BY <3>1, <3>3, <4>1, CarriedKept
    <3>4. QED
      BY <2>4, <3>2, <3>3 DEF Fetch
  <2>5. CASE Put(c) \/ Drop(c)
    <3>1. writes' = writes + 1 /\ pc'[c] = "idle" /\ seen'[c] = 0
      BY <1>0, <2>5 DEF Put, Drop, Ends, Goto
    <3>2. ~stored' => secret' = NoToken
      BY <2>5 DEF Put, Drop
    <3>3. \A d \in Call : seen'[d] <= writes' /\ seen'[d] # writes'
      BY <1>0, <2>0, <3>1 DEF Carried
    <3>4. QED
      BY <1>0, <3>1, <3>2, <3>3 DEF Carried
  <2>6. CASE \/ Dies(c) \/ Load(c) \/ Keep(c) \/ Discard(c) \/ SetToken(c) \/ GetToken(c)
    <3>1. UNCHANGED <<stored, secret, writes>> /\ pc'[c] = "idle" /\ seen'[c] = 0
      BY <1>0, <2>6 DEF Dies, Load, Keep, Discard, SetToken, GetToken, Ends, Goto, row
    <3>2. QED
      BY <1>0, <2>0, <3>1 DEF Carried, Carries, Opening
  <2>7. QED
    BY <1>1, <2>1, <2>2, <2>3, <2>4, <2>5, <2>6 DEF Step
<1>2. CASE LoseKey \/ UNCHANGED vars
  BY <1>2 DEF LoseKey, vars, row, mind, Carried, Carries
<1>3. QED
  BY <1>1, <1>2 DEF Next

\* A write of the row by the call that ends with it is its save, and carries.
BlankStep == \A c \in Call : pc[c] = "put" /\ writes' # writes /\ pc'[c] = "idle"
                 /\ form[c].secret = Blank /\ seen[c] = writes
                 => secret'.value = secret.value

LEMMA StepKeepsBlank == TypeOK /\ Carried /\ [Next]_vars => BlankStep
<1> SUFFICES ASSUME TypeOK, Carried, [Next]_vars,
                    NEW c \in Call, pc[c] = "put", writes' # writes, pc'[c] = "idle",
                    form[c].secret = Blank, seen[c] = writes
             PROVE  secret'.value = secret.value
  BY DEF BlankStep
<1>0. pc \in [Call -> PCs]
  BY DEF TypeOK
<1>1. PICK d \in Call : Put(d) \/ Drop(d)
  BY DEF Next, Step, Begin, Dies, Look, Read, Make, Write, Find, Fetch, Load, Keep, Discard,
     SetToken, GetToken, LoseKey, vars, row
<1>2. d = c
  BY <1>0, <1>1 DEF Put, Drop, Ends, Goto
<1>3. secret' = Encrypted(c, value[c])
  BY <1>1, <1>2 DEF Put, Drop
<1>4. value[c] = secret.value
  BY DEF Carried, Carries
<1>5. QED
  BY <1>3, <1>4 DEF Encrypted

(***************************************************************************)
(* The vault: every step does to the plain values what Vault says, as long *)
(* as nothing disturbed the key.                                           *)
(***************************************************************************)
\* A call that is not between load and save has nothing in memory, and what is
\* saved has a connection.
Resting == /\ \A c \in Call : ~Carries(c) => value[c] = Blank /\ conn[c] = Blank
           /\ saved = NoToken \/ saved.value \in Value

\* Only c moved.
Alone(c) == \A d \in Call \ {c} : /\ pc'[d] = pc[d] /\ next'[d] = next[d]
                                  /\ value'[d] = value[d] /\ conn'[d] = conn[d]

LEMMA StepAlone ==
  ASSUME TypeOK, NEW c \in Call, Step(c)
  PROVE  Alone(c)
  BY DEF TypeOK, Alone, Step, Begin, Ends, Goto, Reopen, Dies, Look, Read, Make, Write, Find,
     Fetch, Put, Load, Drop, Keep, Discard, SetToken, GetToken, Refused, mind

\* A step at which an edit is neither begun nor ended nor changed.
LEMMA EditsKept ==
  ASSUME value' = value, conn' = conn,
         \A d \in Call : (Carries(d)' <=> Carries(d)) /\ (Fetches(d)' <=> Fetches(d))
  PROVE  UNCHANGED Plain!edits
<1>1. Editing' = Editing /\ Taking' = Taking
  BY DEF Editing, Taking
<1>2. Draft' = Draft
  BY DEF Draft
<1>3. QED
  BY <1>1, <1>2 DEF Plain!edits

\* The end of a call ends its edit ...
LEMMA EndsCloses ==
  ASSUME TypeOK, NEW c \in Call, NEW reply, Ends(c, reply), Alone(c)
  PROVE  Plain!Close(c) /\ answer' = reply
<1>1. pc'[c] = "idle" /\ value'[c] = Blank /\ conn'[c] = Blank /\ answer' = reply
  BY DEF TypeOK, Ends, Goto
<1>2. ~Carries(c)' /\ ~Fetches(c)'
  BY <1>1 DEF Carries, Fetches, Opening
<1>3. \A d \in Call \ {c} : (Carries(d)' <=> Carries(d)) /\ (Fetches(d)' <=> Fetches(d))
  BY DEF Alone, Carries, Fetches
<1>4. Editing' = Editing \ {c} /\ Taking' = Taking \ {c}
  BY <1>2, <1>3 DEF Editing, Taking
<1>5. Draft' = [Draft EXCEPT ![c] = Plain!NoDraft]
  BY <1>1 DEF Alone, Draft, Plain!NoDraft
<1>6. QED
  BY <1>1, <1>4, <1>5 DEF Plain!Close

\* ... and where there is none, changes nothing.
LEMMA EndsQuietly ==
  ASSUME TypeOK, Resting, NEW c \in Call, NEW reply, Ends(c, reply), Alone(c), ~Carries(c)
  PROVE  UNCHANGED Plain!edits /\ answer' = reply
<1>1. /\ Editing' = Editing \ {c} /\ Taking' = Taking \ {c}
      /\ Draft' = [Draft EXCEPT ![c] = Plain!NoDraft] /\ answer' = reply
  BY EndsCloses DEF Plain!Close
<1>2. c \notin Editing /\ c \notin Taking
  BY DEF Editing, Taking, Carries, Fetches
<1>3. Draft[c] = Plain!NoDraft
  BY DEF Resting, Draft, Plain!NoDraft
<1>4. Draft' = Draft
  BY <1>1, <1>3 DEF Draft
<1>5. QED
  BY <1>1, <1>2, <1>4 DEF Plain!edits

\* A step of a call that opens a store, within an edit or not.
LEMMA OpeningKept ==
  ASSUME NEW c \in Call, Alone(c), pc[c] \in Opening,
         pc'[c] \in Opening \/ (pc'[c] = next[c] /\ next[c] \in Going),
         next' = next, value' = value, conn' = conn
  PROVE  UNCHANGED Plain!edits
<1>1. (Carries(c)' <=> Carries(c)) /\ (Fetches(c)' <=> Fetches(c))
  BY DEF Carries, Fetches, Opening, Going, Jobs
<1>2. \A d \in Call \ {c} : (Carries(d)' <=> Carries(d)) /\ (Fetches(d)' <=> Fetches(d))
  BY DEF Alone, Carries, Fetches
<1>3. QED
  BY <1>1, <1>2, EditsKept

LEMMA NextResting == TypeOK /\ Bound /\ Resting /\ [Next]_vars => Resting'
<1> SUFFICES ASSUME TypeOK, Bound, Resting, [Next]_vars PROVE Resting'
  OBVIOUS
<1>0. /\ pc \in [Call -> PCs] /\ next \in [Call -> PCs]
      /\ value \in [Call -> Values] /\ conn \in [Call -> Values]
  BY DEF TypeOK
<1>1. ASSUME NEW c \in Call, Step(c) PROVE Resting'
  <2>1. Alone(c)
    BY <1>1, StepAlone
  <2>2. ~Carries(c)' => value'[c] = Blank /\ conn'[c] = Blank
    <3>1. ASSUME NEW reply, Ends(c, reply) PROVE value'[c] = Blank /\ conn'[c] = Blank
      BY <1>0, <3>1 DEF Ends
    <3>2. CASE Begin(c)
      BY <1>0, <3>2 DEF Begin, Resting, Carries, Opening
    <3>3. CASE Look(c) \/ Make(c) \/ Write(c)
      <4>1. value' = value /\ conn' = conn /\ next' = next
        BY <3>3 DEF Look, Make, Write, mind
      <4>2. Carries(c) => Carries(c)'
        BY <1>0, <3>3, <4>1 DEF Look, Make, Write, Goto, Carries, Opening
      <4>3. QED
        BY <4>1, <4>2 DEF Resting
    <3>4. CASE Read(c) /\ keyfile > 0 /\ Goto(c, next[c]) /\ UNCHANGED <<mind, next>>
      <4>1. value' = value /\ conn' = conn /\ next' = next
        BY <3>4 DEF mind
      <4>2. Carries(c) => Carries(c)'
        BY <1>0, <3>4, <4>1 DEF Read, Goto, Carries, Opening
      <4>3. QED
        BY <4>1, <4>2 DEF Resting
    <3>5. CASE (Find(c) \/ Fetch(c)) /\ ~Refused(c) /\ ~Ends(c, "error")
      BY <1>0, <3>5 DEF Find, Fetch, Reopen, Goto, Carries, Opening
    <3>6. CASE (Read(c) \/ Find(c) \/ Fetch(c)) /\ (Refused(c) \/ Ends(c, "error"))
      BY <3>1, <3>6 DEF Refused
    <3>7. CASE \/ Dies(c) \/ Put(c) \/ Load(c) \/ Drop(c) \/ Keep(c) \/ Discard(c)
               \/ SetToken(c) \/ GetToken(c)
      BY <3>1, <3>7 DEF Dies, Put, Load, Drop, Keep, Discard, SetToken, GetToken
    <3>8. QED
      BY <1>1, <3>2, <3>3, <3>4, <3>5, <3>6, <3>7 DEF Step, Read
  <2>3. \A d \in Call \ {c} : ~Carries(d)' => value'[d] = Blank /\ conn'[d] = Blank
    BY <2>1 DEF Alone, Resting, Carries
  <2>4. saved' = NoToken \/ saved'.value \in Value
    <3>1. CASE Keep(c)
      BY <3>1 DEF Keep, Encrypted
    <3>2. CASE ~Keep(c)
      <4>1. saved' \in {saved, NoToken}
        BY <1>1, <3>2 DEF Step, Begin, Dies, Look, Read, Make, Write, Find, Fetch, Put, Load,
           Drop, Discard, SetToken, GetToken, Refused, others
      <4>2. QED
        BY <4>1 DEF Resting
    <3>3. QED
      BY <3>1, <3>2
  <2>5. QED
    BY <2>2, <2>3, <2>4 DEF Resting
<1>2. CASE LoseKey \/ UNCHANGED vars
  BY <1>2 DEF LoseKey, vars, others, mind, Resting, Carries
<1>3. QED
  BY <1>1, <1>2 DEF Next

\* With one key, what a store has to open, it opens.
LEMMA AllOpens ==
  ASSUME TypeOK, OneKey, NEW c \in Call, pc[c] \in Going
  PROVE  /\ keyfile > 0 /\ mine[c] = keyfile
         /\ Loads(c) /\ Opens(c, token)
         /\ saved = NoToken \/ saved.key = mine[c]
  BY DEF OneKey, Loads, Opens, Tokens

LEMMA FindInVault ==
  ASSUME TypeOK, OneKey, Resting, NEW c \in Call, Find(c), Alone(c)
  PROVE  Plain!Work
<1>1. /\ pc[c] = "find" /\ ~Carries(c) /\ ~Fetches(c) /\ Loads(c)
      /\ UNCHANGED Plain!pipeline /\ UNCHANGED Plain!others
  BY AllOpens DEF Find, Going, Jobs, Carries, Fetches, Opening, row, others, Plain!pipeline,
     Plain!others
<1>2. form[c] \in Form /\ form[c].secret \in Values /\ form[c].dest \in Values
  BY Types DEF TypeOK
<1>3. Plain!Merged(form[c].secret) = Merged(c)
  BY DEF Plain!Merged, Merged
<1>4. CASE Refused(c) /\ (~Valid(Merged(c)) \/ ~Connected(form[c].dest))
  <2>1. UNCHANGED Plain!edits /\ answer' = "refused"
    BY <1>1, <1>4, EndsQuietly DEF Refused
  <2>2. NeedsConnection \/ (SecretRequired /\ Plain!Merged(Blank) = Blank)
    BY <1>3, <1>4 DEF Valid, Connected, Plain!Merged
  <2>3. QED
    BY <1>1, <2>1, <2>2 DEF Plain!Refuse, Plain!Work
<1>5. CASE /\ Valid(Merged(c)) /\ (form[c].usesSaved \/ Connected(form[c].dest))
           /\ value' = [value EXCEPT ![c] = Merged(c)]
           /\ conn' = [conn EXCEPT ![c] = form[c].dest]
           /\ Reopen(c, IF form[c].usesSaved THEN "fetch" ELSE "put") /\ Silent
  <2>1. /\ pc'[c] = "look" /\ next'[c] = IF form[c].usesSaved THEN "fetch" ELSE "put"
        /\ value'[c] = Merged(c) /\ conn'[c] = form[c].dest
    BY <1>5 DEF TypeOK, Reopen, Goto
  <2>2. Carries(c)' /\ (Fetches(c)' <=> form[c].usesSaved)
    BY <1>2, <2>1 DEF Carries, Fetches, Opening, Form
  <2>3. \A d \in Call \ {c} : (Carries(d)' <=> Carries(d)) /\ (Fetches(d)' <=> Fetches(d))
    BY DEF Alone, Carries, Fetches
  <2>4. Editing' = Editing \cup {c}
    BY <2>2, <2>3 DEF Editing
  <2>5. Taking' = IF form[c].usesSaved THEN Taking \cup {c} ELSE Taking
    BY <1>1, <2>2, <2>3 DEF Taking
  <2>6. Draft' = [Draft EXCEPT ![c] = [secret |-> Merged(c), dest |-> form[c].dest]]
    BY <2>1 DEF Alone, Draft
  <2>7. c \notin Editing
    BY <1>1 DEF Editing
  <2>8. Plain!Plan(c)
    BY <1>1, <1>2, <1>3, <1>5, <2>4, <2>5, <2>6, <2>7
    DEF Plain!Plan, Values, Valid, Connected, Silent
  <2>9. QED
    BY <2>8 DEF Plain!Work
<1>6. QED
  BY <1>1, <1>4, <1>5 DEF Find

LEMMA FetchInVault ==
  ASSUME TypeOK, OneKey, Resting, NEW c \in Call, Fetch(c), Alone(c)
  PROVE  Plain!Work
<1>1. /\ pc[c] = "fetch" /\ Carries(c) /\ Fetches(c)
      /\ saved = NoToken \/ saved.key = mine[c]
      /\ UNCHANGED Plain!pipeline /\ UNCHANGED Plain!others
  BY AllOpens DEF Fetch, Going, Carries, Fetches, row, others, Plain!pipeline, Plain!others
<1>2. c \in Taking /\ c \in Editing
  BY <1>1 DEF Taking, Editing
<1>3. CASE Refused(c) /\ (saved = NoToken \/ ~Connected(saved.value))
  <2>1. Plain!Close(c) /\ answer' = "refused"
    BY <1>3, EndsCloses DEF Refused
  \* A saved destination has a connection, so that there is none.
  <2>2. saved.value = Blank
    BY <1>3 DEF Resting, NoToken, Connected
  <2>3. QED
    BY <1>1, <1>2, <2>1, <2>2 DEF Plain!RefuseTaking, Plain!Work
<1>4. CASE /\ saved # NoToken /\ conn' = [conn EXCEPT ![c] = saved.value]
           /\ Reopen(c, "put") /\ value' = value /\ Silent
  <2>1. pc'[c] = "look" /\ next'[c] = "put" /\ conn'[c] = saved.value
    BY <1>4 DEF TypeOK, Reopen, Goto
  <2>2. Carries(c)' /\ ~Fetches(c)'
    BY <2>1 DEF Carries, Fetches, Opening
  <2>3. \A d \in Call \ {c} : (Carries(d)' <=> Carries(d)) /\ (Fetches(d)' <=> Fetches(d))
    BY DEF Alone, Carries, Fetches
  <2>4. Editing' = Editing
    BY <1>1, <2>2, <2>3 DEF Editing
  <2>5. Taking' = Taking \ {c}
    BY <2>2, <2>3 DEF Taking
  <2>6. Draft' = [Draft EXCEPT ![c].dest = saved.value]
    BY <1>4, <2>1 DEF Alone, Draft
  <2>7. saved.value # Blank
    BY <1>4 DEF Resting
  <2>8. QED
    BY <1>1, <1>2, <1>4, <2>4, <2>5, <2>6, <2>7 DEF Plain!Take, Plain!Work, Silent
<1>5. saved = NoToken \/ (IF saved.key = mine[c] THEN saved.value ELSE Blank) = saved.value
  BY <1>1
<1>6. QED
  BY <1>3, <1>4, <1>5 DEF Fetch

LEMMA PutInVault ==
  ASSUME TypeOK, NEW c \in Call, Put(c), Alone(c)
  PROVE  Plain!Work
<1>1. pc[c] = "put" /\ c \in Editing \ Taking
  BY DEF Put, Editing, Taking, Carries, Fetches, Opening
<1>2. Plain!Close(c) /\ answer' = "ok"
  BY EndsCloses DEF Put
<1>3. Draft[c].secret = value[c] /\ Draft[c].dest = conn[c]
  BY DEF Draft
<1>4. stored' = TRUE /\ secret'.value = value[c] /\ dest'.value = conn[c]
  BY DEF Put, Encrypted, NoToken
<1>5. UNCHANGED Plain!others
  BY DEF Put, others, Plain!others
<1>6. QED
  BY <1>1, <1>2, <1>3, <1>4, <1>5 DEF Plain!Save, Plain!Work

\* A call that opens its store, or begins: nobody sees it.
LEMMA OpeningInVault ==
  ASSUME TypeOK, Bound, OneKey, NEW c \in Call, Alone(c),
         Begin(c) \/ Look(c) \/ Read(c) \/ Make(c) \/ Write(c)
  PROVE  Plain!Work
<1>0. pc \in [Call -> PCs] /\ next \in [Call -> PCs]
  BY DEF TypeOK
<1>1. Silent /\ value' = value /\ conn' = conn /\ UNCHANGED <<row, others>>
  <2>1. Read(c) => keyfile > 0
    BY DEF Read, OneKey
  <2>2. keyfile \in Int
    BY DEF TypeOK, Empty
  <2>3. QED
    BY <2>1, <2>2 DEF Begin, Look, Read, Make, Write, mind
<1>2. UNCHANGED Plain!edits
  <2>1. CASE Begin(c)
    <3>1. pc[c] = "idle" /\ pc'[c] = "look" /\ next'[c] \in Jobs
      BY <1>0, <2>1 DEF Begin, Goto
    <3>2. ~Carries(c) /\ ~Carries(c)' /\ ~Fetches(c) /\ ~Fetches(c)'
      BY <3>1 DEF Carries, Fetches, Opening, Jobs
    <3>3. \A d \in Call \ {c} : (Carries(d)' <=> Carries(d)) /\ (Fetches(d)' <=> Fetches(d))
      BY DEF Alone, Carries, Fetches
    <3>4. QED
      BY <1>1, <3>2, <3>3, EditsKept
  <2>2. CASE Look(c) \/ Make(c)
    <3>1. pc[c] \in Opening /\ pc'[c] \in Opening /\ next' = next
      BY <1>0, <2>2 DEF Look, Make, Goto, Opening
    <3>2. QED
      BY <1>1, <3>1, OpeningKept
  <2>3. CASE Read(c) \/ Write(c)
    <3>1. pc[c] \in Opening /\ next[c] \in Going
      BY <2>3 DEF Read, Write, Bound, Opening
    <3>2. pc'[c] = next[c] /\ next' = next
      <4>1. Read(c) => keyfile > 0 /\ keyfile \in Int
        BY DEF Read, OneKey, TypeOK, Empty
      <4>2. QED
        BY <1>0, <2>3, <4>1 DEF Read, Write, Goto
    <3>3. QED
      BY <1>1, <3>1, <3>2, OpeningKept
  <2>4. QED
    BY <2>1, <2>2, <2>3
<1>3. QED
  BY <1>1, <1>2 DEF Silent, row, others, Plain!Silent, Plain!pipeline, Plain!others, Plain!Work

\* The calls of one statement.
LEMMA StatementInVault ==
  ASSUME TypeOK, OneKey, Resting, NEW c \in Call, Alone(c),
         Load(c) \/ Drop(c) \/ Keep(c) \/ Discard(c) \/ SetToken(c) \/ GetToken(c)
  PROVE  Plain!Work
<1>1. pc[c] \in Jobs /\ ~Carries(c)
  BY DEF Load, Drop, Keep, Discard, SetToken, GetToken, Jobs, Carries, Opening
<1>2. Loads(c) /\ Opens(c, token)
  BY <1>1, AllOpens DEF Going
<1>3. ASSUME NEW reply, Ends(c, reply)
      PROVE  UNCHANGED Plain!edits /\ answer' = reply
  BY <1>1, <1>3, EndsQuietly
<1>4. CASE Load(c)
  <2>1. UNCHANGED Plain!pipeline /\ UNCHANGED Plain!others
    BY <1>4 DEF Load, row, others, Plain!pipeline, Plain!others
  <2>2. Ends(c, IF stored THEN "ok" ELSE "refused")
    BY <1>2, <1>4 DEF Load
  <2>3. QED
    BY <1>3, <2>1, <2>2 DEF Plain!Load, Plain!Work
<1>5. CASE Drop(c)
  BY <1>3, <1>5 DEF Drop, NoToken, others, Plain!others, Plain!Drop, Plain!Work
<1>6. CASE Keep(c)
  <2>1. saved'.value \in Value /\ UNCHANGED Plain!pipeline /\ token' = token /\ Ends(c, "ok")
    BY <1>6 DEF Keep, Encrypted, row, Plain!pipeline
  <2>2. QED
    BY <1>3, <2>1 DEF Plain!Keep, Plain!Work
<1>7. CASE Discard(c)
  <2>1. saved = NoToken <=> saved.value = Blank
    BY DEF Resting, NoToken
  <2>2. /\ saved'.value = Blank /\ UNCHANGED Plain!pipeline /\ token' = token
        /\ Ends(c, IF saved.value = Blank THEN "refused" ELSE "ok")
    BY <1>7, <2>1 DEF Discard, NoToken, row, Plain!pipeline
  <2>3. QED
    BY <1>3, <2>2 DEF Plain!Discard, Plain!Work
<1>8. CASE SetToken(c)
  <2>1. token'.value \in Value /\ UNCHANGED Plain!pipeline /\ saved' = saved /\ Ends(c, "ok")
    BY <1>8 DEF SetToken, Encrypted, row, Plain!pipeline
  <2>2. QED
    BY <1>3, <2>1 DEF Plain!SetToken, Plain!Work
<1>9. CASE GetToken(c)
  <2>1. UNCHANGED Plain!pipeline /\ UNCHANGED Plain!others /\ Ends(c, "ok")
    BY <1>2, <1>9 DEF GetToken, row, others, Plain!pipeline, Plain!others
  <2>2. QED
    BY <1>3, <2>1 DEF Plain!GetToken, Plain!Work
<1>10. QED
  BY <1>4, <1>5, <1>6, <1>7, <1>8, <1>9

LEMMA InitInVault == Init => Plain!Init
<1> SUFFICES ASSUME Init PROVE Plain!Init
  OBVIOUS
<1>1. Editing = {} /\ Taking = {}
  BY DEF Init, Editing, Taking, Carries, Fetches, Opening
<1>2. Draft = [c \in Call |-> Plain!NoDraft]
  BY DEF Init, Draft, Plain!NoDraft
<1>3. QED
  BY <1>1, <1>2 DEF Init, NoToken, Plain!Init

LEMMA NextInVault ==
  TypeOK /\ Bound /\ Undisturbed /\ Resting /\ [Next]_vars => [Plain!Next]_(Plain!vars)
<1> SUFFICES ASSUME TypeOK, Bound, Undisturbed, Resting, [Next]_vars
             PROVE  [Plain!Next]_(Plain!vars)
  OBVIOUS
<1>1. CASE disturbed'
  BY <1>1 DEF Plain!Next
<1>2. CASE ~disturbed'
  <2>1. ~disturbed /\ OneKey
    BY <1>2, DisturbedStays DEF Undisturbed
  <2>2. ASSUME NEW c \in Call, Step(c) PROVE Plain!Work
    <3>1. Alone(c)
      BY <2>2, StepAlone
    <3>2. CASE Dies(c)
      <4>1. Plain!Close(c) /\ answer' = "none"
        BY <3>1, <3>2, EndsCloses DEF Dies
      <4>2. UNCHANGED Plain!pipeline /\ UNCHANGED Plain!others
        BY <3>2 DEF Dies, row, others, Plain!pipeline, Plain!others
      <4>3. QED
        BY <4>1, <4>2 DEF Plain!Abandon, Plain!Work
    <3>3. QED
      BY <2>1, <2>2, <3>1, <3>2, FindInVault, FetchInVault, PutInVault, OpeningInVault,
         StatementInVault DEF Step
  <2>3. CASE LoseKey
    BY <1>2, <2>3 DEF LoseKey
  <2>4. CASE UNCHANGED vars
    <3>1. UNCHANGED <<stored, secret, dest, saved, token, pc, next, value, conn, answer, disturbed>>
      BY <2>4 DEF vars, keys, row, others, mind
    <3>2. UNCHANGED Plain!edits
      BY <3>1, EditsKept DEF Carries, Fetches
    <3>3. QED
      BY <3>1, <3>2 DEF Plain!vars, Plain!pipeline, Plain!others
  <2>5. QED
    BY <1>2, <2>1, <2>2, <2>3, <2>4 DEF Next, Plain!Next
<1>3. QED
  BY <1>1, <1>2

(***************************************************************************)
(* Theorems                                                                *)
(***************************************************************************)
\* The inductive invariant: types, where calls go, the one key, what they carry.
THEOREM Inductive == Spec => []Inv
<1>1. Inv /\ [Next]_vars => Inv'
  BY NextTypes, NextBound, NextUndisturbed, NextReadsBack, NextCarried DEF Inv
<1>2. QED
  BY InitInv, <1>1, PTL DEF Spec

\* Type correctness for any number of calls, secrets, keys and writes.
THEOREM TypeCorrect == Spec => []TypeOK
<1>1. Inv => TypeOK
  BY DEF Inv
<1>2. QED
  BY Inductive, <1>1, PTL

\* Undisturbed, no store ever meets a secret that it cannot open (crypto.py,
\* control_store.py:load), however many calls and processes there are.
THEOREM SecretsReadBack == Spec => []ReadsBack
<1>1. Inv => ReadsBack
  BY DEF Inv
<1>2. QED
  BY Inductive, <1>1, PTL

\* A blank secret keeps what is stored (app.py:608), but for a write in between.
THEOREM BlankIsKept == Spec => BlankKeeps
<1>1. Inv /\ [Next]_vars => BlankStep
  BY StepKeepsBlank DEF Inv
<1>2. BlankStep => (\A c \in Call : pc[c] = "put" /\ writes' # writes /\ pc'[c] = "idle"
                     /\ form[c].secret = Blank /\ seen[c] = writes
                     => secret'.value = secret.value)
  BY DEF BlankStep
<1>3. QED
  BY Inductive, <1>1, <1>2, PTL DEF Spec, BlankKeeps

\* The store implements the vault: as long as the key file is not disturbed, what
\* users and runs see are plain values, with edits that load first and save later,
\* for any number of calls, processes, keys and values.
THEOREM VaultKept == Spec => ImplementsVault
<1>1. Init => Resting
  BY DEF Init, Resting, Carries
<1>2. QED
  BY Inductive, <1>1, NextResting, InitInVault, NextInVault, PTL
  DEF Spec, Inv, ImplementsVault, Plain!Spec
=============================================================================
