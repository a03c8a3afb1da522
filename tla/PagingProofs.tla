------------------------------ MODULE PagingProofs ------------------------------
(***************************************************************************)
(* Proofs about Paging.  While a run reads, what is due is in what it got, *)
(* among what an offset passed over, or still to come (Swept), and what    *)
(* was there before the run is due once its chunk is asked for (Covered);  *)
(* so the window, which reaches back to the last run (Asked), closes the   *)
(* gap between two runs.  Bitrix24's cursor needs more: its list is in the *)
(* order of the dates, so that what the cursor leaves behind stands in     *)
(* front of the offset, and was read or passed over (Passed).              *)
(*                                                                         *)
(* The lemmas on the list come first: how its past and its unread part     *)
(* change when a row leaves (Drops), moves to the end (Moves) or joins     *)
(* (Joining).                                                              *)
(***************************************************************************)
EXTENDS Paging, FiniteSetTheorems, TLAPS

\* One row more, and one less.
WithRow(v, s, i, e) ==
    /\ Len(v) = Len(s) + 1
    /\ \A j \in 1..Len(s) + 1 : v[j] = IF j < i THEN s[j] ELSE IF j = i THEN e ELSE s[j - 1]

LEMMA InsertFacts ==
  ASSUME NEW S, NEW s \in Seq(S), NEW e \in S, NEW i \in 1..Len(s) + 1
  PROVE  InsertAt(s, i, e) \in Seq(S) /\ WithRow(InsertAt(s, i, e), s, i, e)
<1>1. /\ SubSeq(s, 1, i - 1) \in Seq(S) /\ Len(SubSeq(s, 1, i - 1)) = i - 1
      /\ \A j \in 1..i - 1 : SubSeq(s, 1, i - 1)[j] = s[j]
  OBVIOUS
<1>2. /\ SubSeq(s, i, Len(s)) \in Seq(S) /\ Len(SubSeq(s, i, Len(s))) = Len(s) - i + 1
      /\ \A j \in 1..Len(s) - i + 1 : SubSeq(s, i, Len(s))[j] = s[j + i - 1]
  OBVIOUS
<1>3. PICK a, b : a = SubSeq(s, 1, i - 1) /\ b = SubSeq(s, i, Len(s))
  OBVIOUS
<1>4. InsertAt(s, i, e) = a \o <<e>> \o b
  BY <1>3 DEF InsertAt
<1>5. a \in Seq(S) /\ Len(a) = i - 1 /\ b \in Seq(S) /\ Len(b) = Len(s) - i + 1
  BY <1>1, <1>2, <1>3
<1>6. /\ a \o <<e>> \in Seq(S) /\ Len(a \o <<e>>) = i
      /\ \A j \in 1..i : (a \o <<e>>)[j] = IF j < i THEN a[j] ELSE e
  BY <1>5
<1>7. PICK c : c = a \o <<e>>
  OBVIOUS
<1>8. /\ c \o b \in Seq(S) /\ Len(c \o b) = Len(s) + 1
      /\ \A j \in 1..Len(s) + 1 : (c \o b)[j] = IF j <= i THEN c[j] ELSE b[j - i]
  <2>1. c \in Seq(S) /\ Len(c) = i /\ b \in Seq(S) /\ Len(b) = Len(s) - i + 1
    BY <1>5, <1>6, <1>7
  <2>2. QED
    BY <2>1
<1>9. ASSUME NEW j \in 1..Len(s) + 1
      PROVE  (c \o b)[j] = IF j < i THEN s[j] ELSE IF j = i THEN e ELSE s[j - 1]
  <2>0. i \in Int /\ j \in Int /\ (j <= i \/ j > i)
    OBVIOUS
  <2>1. CASE j <= i
    <3>1. j \in 1..i /\ (j < i => j \in 1..i - 1) /\ (j < i \/ j = i)
      BY <2>0, <2>1
    <3>2. c[j] = IF j < i THEN a[j] ELSE e
      BY <1>6, <1>7, <3>1
    <3>3. j < i => a[j] = s[j]
      BY <1>1, <1>3, <3>1
    <3>4. (c \o b)[j] = c[j]
      BY <1>8, <2>1
    <3>5. QED
      BY <2>0, <3>1, <3>2, <3>3, <3>4
  <2>2. CASE j > i
    <3>1. j - i \in 1..Len(s) - i + 1 /\ (j - i) + i - 1 = j - 1
      BY <2>2
    <3>2. b[j - i] = s[j - 1]
      BY <1>2, <1>3, <3>1
    <3>3. QED
      BY <1>8, <2>0, <2>2, <3>2
  <2>3. QED
    BY <2>0, <2>1, <2>2
<1>10. WithRow(c \o b, s, i, e)
  BY <1>8, <1>9 DEF WithRow
<1>11. QED
  BY <1>4, <1>7, <1>8, <1>10

LEMMA RemoveFacts ==
  ASSUME NEW S, NEW s \in Seq(S), NEW i \in 1..Len(s)
  PROVE  /\ RemoveAt(s, i) \in Seq(S)
         /\ Len(RemoveAt(s, i)) = Len(s) - 1
         /\ \A j \in 1..Len(s) - 1 : RemoveAt(s, i)[j] = IF j < i THEN s[j] ELSE s[j + 1]
<1>1. /\ SubSeq(s, 1, i - 1) \in Seq(S) /\ Len(SubSeq(s, 1, i - 1)) = i - 1
      /\ \A j \in 1..i - 1 : SubSeq(s, 1, i - 1)[j] = s[j]
  OBVIOUS
<1>2. /\ SubSeq(s, i + 1, Len(s)) \in Seq(S) /\ Len(SubSeq(s, i + 1, Len(s))) = Len(s) - i
      /\ \A j \in 1..Len(s) - i : SubSeq(s, i + 1, Len(s))[j] = s[j + i]
  OBVIOUS
<1>3. PICK a, b : a = SubSeq(s, 1, i - 1) /\ b = SubSeq(s, i + 1, Len(s))
  OBVIOUS
<1>4. RemoveAt(s, i) = a \o b
  BY <1>3 DEF RemoveAt
<1>5. a \in Seq(S) /\ Len(a) = i - 1 /\ b \in Seq(S) /\ Len(b) = Len(s) - i
  BY <1>1, <1>2, <1>3
<1>6. /\ a \o b \in Seq(S) /\ Len(a \o b) = Len(s) - 1
      /\ \A j \in 1..Len(s) - 1 : (a \o b)[j] = IF j < i THEN a[j] ELSE b[j - i + 1]
  BY <1>5
<1>7. ASSUME NEW j \in 1..Len(s) - 1
      PROVE  (a \o b)[j] = IF j < i THEN s[j] ELSE s[j + 1]
  <2>0. i \in Int /\ j \in Int /\ (j < i \/ j >= i)
    OBVIOUS
  <2>1. CASE j < i
    <3>1. j \in 1..i - 1
      BY <2>0, <2>1
    <3>2. a[j] = s[j]
      BY <1>1, <1>3, <3>1
    <3>3. QED
      BY <1>6, <2>0, <2>1, <3>2
  <2>2. CASE j >= i
    <3>1. j - i + 1 \in 1..Len(s) - i /\ (j - i + 1) + i = j + 1
      BY <2>2
    <3>2. b[j - i + 1] = s[j + 1]
      BY <1>2, <1>3, <3>1
    <3>3. QED
      BY <1>6, <2>0, <2>2, <3>2
  <2>3. QED
    BY <2>0, <2>1, <2>2
<1>8. QED
  BY <1>4, <1>6, <1>7

\* An answer lists what matches, each once.
LEMMA AllOnce ==
  ASSUME NEW S, IsFiniteSet(S), NEW list \in SetToSeqs(S)
  PROVE  /\ list \in Seq(S) /\ ToSet(list) = S
         /\ \A i, j \in DOMAIN list : list[i] = list[j] => i = j
<1>1. Cardinality(S) \in Nat
  BY FS_CardinalityType
<1>2. /\ list \in [1..Cardinality(S) -> S]
      /\ \A i, j \in 1..Cardinality(S) : i # j => list[i] # list[j]
  BY DEF SetToSeqs
<1>3. list \in Injection(1..Cardinality(S), S)
  BY <1>2 DEF Injection, IsInjective
<1>4. IsFiniteSet(1..Cardinality(S)) /\ Cardinality(1..Cardinality(S)) = Cardinality(S)
  BY <1>1, FS_Interval
<1>5. list \in Surjection(1..Cardinality(S), S)
  BY <1>3, <1>4, FS_Injection
<1>6. ToSet(list) = S
  BY <1>2, <1>5 DEF Surjection, ToSet
<1>7. list \in Seq(S)
  BY <1>1, <1>2
<1>8. QED
  BY <1>2, <1>6, <1>7

\* Of some days there is a last one.
LEMMA LastExists ==
  ASSUME NEW n \in Nat, NEW S, S \subseteq 0..n, S # {}
  PROVE  \E x \in S : \A y \in S : y <= x
<1> DEFINE R == StrictSubsetOrdering(Nat)
           Segments == {x..n : x \in S}
<1>1. IsWellFoundedOn(R, FiniteSubsetsOf(Nat))
  BY FS_StrictSubsetOrderingWellFounded
<1>2. Segments \subseteq FiniteSubsetsOf(Nat)
  <2>1. \A x \in S : IsFiniteSet(x..n) /\ x..n \subseteq Nat
    BY FS_Interval
  <2>2. QED
    BY <2>1 DEF FiniteSubsetsOf
<1>3. Segments # {}
  OBVIOUS
<1> HIDE DEF R, Segments
<1>4. \E A \in Segments : \A B \in Segments : <<B, A>> \notin R
  BY <1>1, <1>2, <1>3, WFMin
<1>5. PICK x \in S : \A y \in S : <<y..n, x..n>> \notin R
  BY <1>4 DEF Segments
<1>6. ASSUME NEW y \in S, y > x PROVE FALSE
  <2>1. y..n \subseteq x..n /\ x \in x..n /\ x \notin y..n /\ y..n \subseteq Nat /\ x..n \subseteq Nat
    BY <1>6
  <2>2. <<y..n, x..n>> \in R
    BY <2>1 DEF R, StrictSubsetOrdering
  <2>3. QED
    BY <1>5, <2>2
<1>7. QED
  BY <1>6

LEMMA LatestFacts ==
  ASSUME NEW n \in Nat, NEW a \in 0..n, NEW S, S \subseteq 0..n
  PROVE  /\ Latest(a, S) \in S \cup {a} /\ Latest(a, S) \in 0..n
         /\ a <= Latest(a, S) /\ \A d \in S : d <= Latest(a, S)
<1>0. S \cup {a} \subseteq 0..n /\ S \cup {a} # {}
  OBVIOUS
<1>1. \E x \in S \cup {a} : \A y \in S \cup {a} : y <= x
  BY <1>0, LastExists
<1>2. /\ Latest(a, S) \in S \cup {a}
      /\ \A e \in S \cup {a} : e <= Latest(a, S)
  BY <1>1 DEF Latest
<1>3. QED
  BY <1>0, <1>2

(***************************************************************************)
(* The service's list                                                      *)
(***************************************************************************)
Once == /\ \A i, j \in DOMAIN rows : rows[i] = rows[j] => i = j
        /\ pc # "reading" => rows = <<>>
Sorted == kind = "bitrix24" => \A i, j \in DOMAIN rows : i < j => stamp[rows[i]] <= stamp[rows[j]]

\* Rows that were asked for, and those to come.
Past == {rows[i] : i \in {j \in DOMAIN rows : j <= pos}}
Unread == {rows[i] : i \in {j \in DOMAIN rows : j > pos}}

LEMMA RowsWithout ==
  ASSUME rows \in Seq(live), Once, NEW r, Listed(r)
  PROVE  /\ Place(r) \in 1..Len(rows) /\ rows[Place(r)] = r
         /\ Without(r) \in Seq(live \ {r}) /\ Len(Without(r)) = Len(rows) - 1
         /\ \A j \in 1..Len(rows) - 1 :
                Without(r)[j] = IF j < Place(r) THEN rows[j] ELSE rows[j + 1]
<1>1. Place(r) \in 1..Len(rows) /\ rows[Place(r)] = r
  BY DEF Listed, ToSet, Place
<1>2. /\ Without(r) \in Seq(live) /\ Len(Without(r)) = Len(rows) - 1
      /\ \A j \in 1..Len(rows) - 1 :
             Without(r)[j] = IF j < Place(r) THEN rows[j] ELSE rows[j + 1]
  BY <1>1, RemoveFacts DEF Without
<1>3. ASSUME NEW j \in 1..Len(rows) - 1 PROVE Without(r)[j] \in live \ {r}
  <2>1. PICK k \in 1..Len(rows) : k # Place(r) /\ Without(r)[j] = rows[k]
    <3>1. CASE j < Place(r)
      BY <1>1, <1>2, <3>1
    <3>2. CASE j >= Place(r)
      <4>1. j + 1 \in 1..Len(rows) /\ j + 1 # Place(r)
        BY <1>1, <3>2
      <4>2. Without(r)[j] = rows[j + 1]
        BY <1>1, <1>2, <3>2
      <4>3. QED
        BY <4>1, <4>2
    <3>3. QED
      BY <1>1, <3>1, <3>2
  <2>2. QED
    BY <1>1, <2>1 DEF Once
<1>4. Without(r) \in Seq(live \ {r})
  BY <1>2, <1>3
<1>5. QED
  BY <1>1, <1>2, <1>4

\* Row r leaves the list.
LEMMA Drops ==
  ASSUME rows \in Seq(live), Once, Sorted, pos \in Nat, NEW r, Listed(r), Leave(r, Without(r))
  PROVE  /\ rows' \in Seq(live \ {r}) /\ pos' \in Nat
         /\ \A i, j \in DOMAIN rows' : rows'[i] = rows'[j] => i = j
         /\ kind = "bitrix24" =>
                \A i, j \in DOMAIN rows' : i < j => stamp[rows'[i]] <= stamp[rows'[j]]
         /\ skipped \ {r} \subseteq skipped' /\ skipped' \subseteq (skipped \ {r}) \cup ToSet(rows')
         /\ Unread \ {r} \subseteq Unread' \cup skipped' /\ Unread' \subseteq Unread
         /\ Past' \subseteq (Past \ {r}) \cup skipped'
         /\ ToSet(rows) \ {r} \subseteq ToSet(rows')
<1>1. PICK p : p = Place(r)
  OBVIOUS
<1>2. PICK w : w = Without(r)
  OBVIOUS
<1>3. /\ p \in 1..Len(rows) /\ rows[p] = r /\ w \in Seq(live \ {r}) /\ Len(w) = Len(rows) - 1
      /\ \A j \in 1..Len(rows) - 1 : w[j] = IF j < p THEN rows[j] ELSE rows[j + 1]
  BY <1>1, <1>2, RowsWithout
<1>4. PICK n : n = Len(rows)
  OBVIOUS
<1>5. /\ n \in Nat /\ DOMAIN rows = 1..n /\ DOMAIN w = 1..n - 1 /\ p \in 1..n
      /\ \A j \in 1..n - 1 : w[j] = IF j < p THEN rows[j] ELSE rows[j + 1]
  BY <1>3, <1>4
<1>6. /\ rows' = w
      /\ pos' = IF Follows /\ p <= pos THEN pos - 1 ELSE pos
      /\ skipped' = (skipped \ {r}) \cup
             (IF Follows \/ ~(p <= pos) THEN {}
              ELSE {w[i] : i \in {j \in DOMAIN w : j = pos \/ (j < pos /\ w[j] = r)}})
  BY <1>1, <1>2 DEF Leave, InFront
<1>7. \A j \in 1..n - 1 : w[j] = rows[IF j < p THEN j ELSE j + 1]
  BY <1>5
<1>8. \A i, j \in DOMAIN w : w[i] = w[j] => i = j
  <2>1. ASSUME NEW i \in 1..n - 1, NEW j \in 1..n - 1, w[i] = w[j] PROVE i = j
    <3>1. PICK a \in 1..n, b \in 1..n : /\ a = (IF i < p THEN i ELSE i + 1)
                                        /\ b = (IF j < p THEN j ELSE j + 1)
      BY <1>5
    <3>2. a = b
      BY <1>5, <1>7, <2>1, <3>1 DEF Once
    <3>3. QED
      BY <1>5, <3>1, <3>2
  <2>2. QED
    BY <1>5, <2>1
<1>9. kind = "bitrix24" => \A i, j \in DOMAIN w : i < j => stamp[w[i]] <= stamp[w[j]]
  <2>1. ASSUME kind = "bitrix24", NEW i \in 1..n - 1, NEW j \in 1..n - 1, i < j
        PROVE  stamp[w[i]] <= stamp[w[j]]
    <3>1. PICK a \in 1..n, b \in 1..n : /\ a = (IF i < p THEN i ELSE i + 1)
                                        /\ b = (IF j < p THEN j ELSE j + 1)
      BY <1>5
    <3>2. a < b
      BY <1>5, <2>1, <3>1
    <3>3. w[i] = rows[a] /\ w[j] = rows[b]
      BY <1>7, <3>1
    <3>4. QED
      BY <1>5, <2>1, <3>2, <3>3 DEF Sorted
  <2>2. QED
    BY <1>5, <2>1
<1>10. skipped \ {r} \subseteq skipped' /\ skipped' \subseteq (skipped \ {r}) \cup ToSet(w)
  BY <1>6 DEF ToSet
<1>11. ASSUME NEW x \in Unread, x # r PROVE x \in Unread' \cup skipped'
  <2>1. PICK k \in 1..n : k > pos /\ rows[k] = x
    BY <1>5, <1>11 DEF Unread
  <2>2. k # p
    BY <1>3, <1>11, <2>1
  <2>3. CASE k < p
    <3>1. k \in 1..n - 1 /\ w[k] = x /\ pos' = pos
      BY <1>5, <1>6, <2>1, <2>3
    <3>2. QED
      BY <1>5, <1>6, <2>1, <3>1 DEF Unread
  <2>4. CASE k > p
    <3>1. k - 1 \in 1..n - 1 /\ ~(k - 1 < p) /\ k - 1 + 1 = k
      BY <1>5, <2>1, <2>4
    <3>2. w[k - 1] = x
      BY <1>5, <2>1, <3>1
    <3>3. CASE k - 1 > pos'
      BY <1>5, <1>6, <3>1, <3>2, <3>3 DEF Unread
    <3>4. CASE ~(k - 1 > pos')
      <4>0. ~(Follows /\ p <= pos)
        <5>1. CASE Follows /\ p <= pos
          <6>1. pos' = pos - 1
            BY <1>6, <5>1
          <6>2. QED
            BY <2>1, <3>1, <3>4, <6>1
        <5>2. QED
          BY <5>1
      <4>1. pos' = pos
        BY <1>6, <4>0
      <4>2. k - 1 = pos /\ p <= pos
        BY <1>5, <2>1, <2>4, <3>4, <4>1
      <4>3. ~Follows
        BY <4>0, <4>2
      <4>4. QED
        BY <1>5, <1>6, <3>1, <3>2, <4>2, <4>3
    <3>5. QED
      BY <3>3, <3>4
  <2>5. QED
    BY <1>5, <2>2, <2>3, <2>4
<1>12. ASSUME NEW x \in Unread' PROVE x \in Unread
  <2>1. PICK k \in 1..n - 1 : k > pos' /\ w[k] = x
    BY <1>5, <1>6, <1>12 DEF Unread
  <2>2. PICK a \in 1..n : a = (IF k < p THEN k ELSE k + 1)
    BY <1>5
  <2>3. a > pos /\ rows[a] = x
    BY <1>5, <1>6, <1>7, <2>1, <2>2
  <2>4. QED
    BY <1>5, <2>3 DEF Unread
<1>13. ASSUME NEW x \in Past' PROVE x \in (Past \ {r}) \cup skipped'
  <2>1. PICK k \in 1..n - 1 : k <= pos' /\ w[k] = x
    BY <1>5, <1>6, <1>13 DEF Past
  <2>2. PICK a \in 1..n : a = (IF k < p THEN k ELSE k + 1)
    BY <1>5
  <2>3. x = rows[a] /\ a # p
    BY <1>5, <1>7, <2>1, <2>2
  <2>4. x # r
    BY <1>3, <1>5, <2>3 DEF Once
  <2>5. CASE a <= pos
    BY <1>5, <2>3, <2>4, <2>5 DEF Past
  <2>6. CASE ~(a <= pos)
    <3>1. ~Follows /\ p <= pos /\ k = pos
      BY <1>5, <1>6, <2>1, <2>2, <2>6
    <3>2. QED
      BY <1>5, <1>6, <2>1, <3>1
  <2>7. QED
    BY <2>5, <2>6
<1>14. pos' \in Nat
  BY <1>5, <1>6
<1>15. ASSUME NEW x \in ToSet(rows), x # r PROVE x \in ToSet(rows')
  <2>1. PICK k \in 1..n : rows[k] = x
    BY <1>5, <1>15 DEF ToSet
  <2>2. k # p
    BY <1>3, <1>15, <2>1
  <2>3. PICK a \in 1..n - 1 : k = (IF a < p THEN a ELSE a + 1)
    <3>1. CASE k < p
      BY <1>5, <2>1, <3>1
    <3>2. CASE k > p
      <4>1. k - 1 \in 1..n - 1 /\ ~(k - 1 < p) /\ k = k - 1 + 1
        BY <1>5, <2>1, <3>2
      <4>2. QED
        BY <4>1
    <3>3. QED
      BY <1>5, <2>2, <3>1, <3>2
  <2>4. w[a] = x
    BY <1>7, <2>1, <2>3
  <2>5. QED
    BY <1>5, <1>6, <2>4 DEF ToSet
<1>16. QED
  BY <1>3, <1>6, <1>8, <1>9, <1>10, <1>11, <1>12, <1>13, <1>14, <1>15

\* Row r of Bitrix24's list moves to its end.
LEMMA Moves ==
  ASSUME rows \in Seq(live), Once, Sorted, pos \in Nat, NEW r, Listed(r),
         kind = "bitrix24", Leave(r, Append(Without(r), r)), stamp' = [stamp EXCEPT ![r] = today],
         stamp \in [Record -> Nat], r \in Record, live \subseteq Record,
         \A s \in Record : stamp[s] <= today, today \in Nat
  PROVE  /\ rows' \in Seq(live) /\ pos' \in Nat
         /\ \A i, j \in DOMAIN rows' : rows'[i] = rows'[j] => i = j
         /\ \A i, j \in DOMAIN rows' : i < j => stamp'[rows'[i]] <= stamp'[rows'[j]]
         /\ skipped \ {r} \subseteq skipped' /\ skipped' \subseteq (skipped \ {r}) \cup live
         /\ Unread \ {r} \subseteq Unread' \cup skipped' /\ Unread' \subseteq Unread \cup {r}
         /\ Past' \subseteq (Past \ {r}) \cup skipped'
         /\ r \in Unread' \cup skipped'
         /\ ToSet(rows) \subseteq ToSet(rows')
<1>1. PICK p : p = Place(r)
  OBVIOUS
<1>2. PICK w : w = Without(r)
  OBVIOUS
<1>3. /\ p \in 1..Len(rows) /\ rows[p] = r /\ w \in Seq(live \ {r}) /\ Len(w) = Len(rows) - 1
      /\ \A j \in 1..Len(rows) - 1 : w[j] = IF j < p THEN rows[j] ELSE rows[j + 1]
  BY <1>1, <1>2, RowsWithout
<1>4. PICK n : n = Len(rows)
  OBVIOUS
<1>0. n \in Nat /\ p \in 1..n /\ pos \in Nat
  BY <1>3, <1>4
<1>5. PICK v : v = Append(w, r)
  OBVIOUS
<1>6. /\ n \in Nat /\ DOMAIN rows = 1..n /\ p \in 1..n
      /\ \A j \in 1..n - 1 : w[j] = rows[IF j < p THEN j ELSE j + 1]
  BY <1>3, <1>4, SMTT(30)
<1>7. /\ v \in Seq(live) /\ DOMAIN v = 1..n /\ v[n] = r /\ r \in live
      /\ \A j \in 1..n - 1 : v[j] = w[j] /\ v[j] \in live \ {r}
  <2>1. r \in live
    BY <1>3
  <2>2. w \in Seq(live) /\ \A j \in 1..n - 1 : w[j] \in live \ {r}
    BY <1>3, <1>4
  <2>3. QED
    BY <1>3, <1>4, <1>5, <2>1, <2>2
<1>8. /\ rows' = v /\ pos' = pos
      /\ skipped' = (skipped \ {r}) \cup
             (IF ~(p <= pos) THEN {}
              ELSE {v[i] : i \in {j \in 1..n : j = pos \/ (j < pos /\ v[j] = r)}})
  BY <1>1, <1>2, <1>5, <1>7 DEF Leave, InFront, Follows
<1>9. \A j \in 1..n - 1 : v[j] = rows[IF j < p THEN j ELSE j + 1]
  BY <1>6, <1>7
<1>10. ASSUME NEW i \in 1..n, NEW j \in 1..n, v[i] = v[j] PROVE i = j
  <2>1. i = n <=> j = n
    BY <1>6, <1>7, <1>10
  <2>2. CASE i \in 1..n - 1 /\ j \in 1..n - 1
    <3>1. PICK a \in 1..n, b \in 1..n : /\ a = (IF i < p THEN i ELSE i + 1)
                                        /\ b = (IF j < p THEN j ELSE j + 1)
      BY <1>6, <2>2
    <3>2. a = b
      BY <1>6, <1>9, <1>10, <2>2, <3>1 DEF Once
    <3>3. QED
      BY <1>6, <2>2, <3>1, <3>2
  <2>3. QED
    BY <1>6, <2>1, <2>2
<1>11. ASSUME NEW i \in 1..n, NEW j \in 1..n, i < j PROVE stamp'[v[i]] <= stamp'[v[j]]
  <2>1. i \in 1..n - 1 /\ v[i] \in live \ {r} /\ v[i] \in Record /\ v[j] \in Record
    BY <1>6, <1>7, <1>11
  <2>2. stamp'[v[i]] = stamp[v[i]]
    BY <2>1
  <2>3. CASE j = n
    <3>1. stamp'[v[j]] = today
      BY <1>7, <2>3
    <3>2. QED
      BY <2>1, <2>2, <3>1
  <2>4. CASE j # n
    <3>0. j \in 1..n - 1
      BY <1>0, <2>4
    <3>1. v[j] \in live \ {r}
      BY <1>7, <3>0
    <3>2. stamp'[v[j]] = stamp[v[j]]
      BY <2>1, <3>1
    <3>3. PICK a \in 1..n, b \in 1..n : /\ a = (IF i < p THEN i ELSE i + 1)
                                        /\ b = (IF j < p THEN j ELSE j + 1)
      BY <1>0, <2>1, <3>0
    <3>4. a < b
      BY <1>6, <1>11, <3>3
    <3>5. v[i] = rows[a] /\ v[j] = rows[b]
      BY <1>9, <2>1, <3>0, <3>3
    <3>6. QED
      BY <1>6, <2>2, <3>2, <3>4, <3>5 DEF Sorted
  <2>5. QED
    BY <2>3, <2>4
<1>12. skipped \ {r} \subseteq skipped' /\ skipped' \subseteq (skipped \ {r}) \cup live
  <2>1. \A j \in 1..n : v[j] \in live
    <3>1. \A j \in 1..n : j \in 1..n - 1 \/ j = n
      BY <1>0
    <3>2. QED
      BY <1>7, <3>1
  <2>2. {v[i] : i \in {j \in 1..n : j = pos \/ (j < pos /\ v[j] = r)}} \subseteq live
    BY <2>1
  <2>3. skipped' \subseteq (skipped \ {r}) \cup live
    <3>1. CASE p <= pos
      BY <1>8, <2>2, <3>1
    <3>2. CASE ~(p <= pos)
      BY <1>8, <3>2
    <3>3. QED
      BY <3>1, <3>2
  <2>4. skipped \ {r} \subseteq skipped'
    BY <1>8
  <2>5. QED
    BY <2>3, <2>4
<1>13. r \in Unread' \cup skipped'
  <2>1. CASE n > pos
    BY <1>6, <1>7, <1>8, <2>1 DEF Unread
  <2>2. CASE ~(n > pos)
    <3>1. p <= pos /\ n \in 1..n /\ (n = pos \/ n < pos)
      BY <1>6, <2>2
    <3>2. QED
      BY <1>7, <1>8, <3>1
  <2>3. QED
    BY <2>1, <2>2
<1>14. ASSUME NEW x \in Unread, x # r PROVE x \in Unread' \cup skipped'
  <2>1. PICK k \in 1..n : k > pos /\ rows[k] = x
    BY <1>6, <1>14 DEF Unread
  <2>2. k # p
    BY <1>3, <1>14, <2>1
  <2>3. CASE k < p
    <3>1. k \in 1..n - 1 /\ v[k] = x
      BY <1>6, <1>9, <2>1, <2>3
    <3>2. QED
      BY <1>6, <1>7, <1>8, <2>1, <3>1 DEF Unread
  <2>4. CASE k > p
    <3>1. k - 1 \in 1..n - 1 /\ ~(k - 1 < p) /\ k - 1 + 1 = k
      BY <1>6, <2>1, <2>4
    <3>2. v[k - 1] = x
      BY <1>9, <2>1, <3>1
    <3>3. CASE k - 1 > pos
      <4>1. k - 1 \in {j \in DOMAIN v : j > pos}
        BY <1>0, <1>7, <3>1, <3>3
      <4>2. QED
        BY <1>8, <3>2, <4>1 DEF Unread
    <3>4. CASE ~(k - 1 > pos)
      <4>1. k - 1 = pos /\ p <= pos
        BY <1>0, <2>1, <2>4, <3>4
      <4>2. QED
        BY <1>6, <1>8, <3>1, <3>2, <4>1
    <3>5. QED
      BY <3>3, <3>4
  <2>5. QED
    BY <1>6, <2>2, <2>3, <2>4
<1>15. ASSUME NEW x \in Unread' PROVE x \in Unread \cup {r}
  <2>1. PICK k \in 1..n : k > pos /\ v[k] = x
    BY <1>7, <1>8, <1>15 DEF Unread
  <2>2. CASE k = n
    BY <1>7, <2>1, <2>2
  <2>3. CASE k # n
    <3>1. k \in 1..n - 1
      BY <1>6, <2>3
    <3>2. PICK a \in 1..n : a = (IF k < p THEN k ELSE k + 1)
      BY <1>6, <3>1
    <3>3. a > pos /\ rows[a] = x
      BY <1>6, <1>9, <2>1, <3>1, <3>2
    <3>4. QED
      BY <1>6, <3>3 DEF Unread
  <2>4. QED
    BY <2>2, <2>3
<1>16. ASSUME NEW x \in Past' PROVE x \in (Past \ {r}) \cup skipped'
  <2>1. PICK k \in 1..n : k <= pos /\ v[k] = x
    BY <1>7, <1>8, <1>16 DEF Past
  <2>2. CASE x = r
    <3>1. k = n /\ p <= pos /\ (k = pos \/ k < pos)
      BY <1>6, <1>7, <2>1, <2>2
    <3>2. QED
      BY <1>8, <2>1, <2>2, <3>1
  <2>3. CASE x # r
    <3>1. k \in 1..n - 1
      BY <1>6, <1>7, <2>1, <2>3
    <3>2. PICK a \in 1..n : a = (IF k < p THEN k ELSE k + 1)
      BY <1>6, <3>1
    <3>3. x = rows[a]
      BY <1>9, <2>1, <3>1, <3>2
    <3>4. CASE a <= pos
      BY <1>6, <2>3, <3>3, <3>4 DEF Past
    <3>5. CASE ~(a <= pos)
      <4>1. k = pos /\ p <= pos
        BY <1>6, <2>1, <3>2, <3>5
      <4>2. QED
        BY <1>8, <2>1, <4>1
    <3>6. QED
      BY <3>4, <3>5
  <2>4. QED
    BY <2>2, <2>3
<1>17. ASSUME NEW x \in ToSet(rows), x # r PROVE x \in ToSet(rows')
  <2>1. PICK k \in 1..n : rows[k] = x
    BY <1>6, <1>17 DEF ToSet
  <2>2. k # p
    BY <1>3, <1>17, <2>1
  <2>3. PICK a \in 1..n - 1 : k = (IF a < p THEN a ELSE a + 1)
    <3>1. CASE k < p
      BY <1>6, <2>1, <3>1
    <3>2. CASE k > p
      <4>1. k - 1 \in 1..n - 1 /\ ~(k - 1 < p) /\ k = k - 1 + 1
        BY <1>6, <2>1, <3>2
      <4>2. QED
        BY <4>1
    <3>3. QED
      BY <1>6, <2>2, <3>1, <3>2
  <2>4. v[a] = x
    BY <1>9, <2>1, <2>3
  <2>5. a \in DOMAIN v
    BY <1>0, <1>7, <2>3
  <2>6. QED
    BY <1>8, <2>4, <2>5 DEF ToSet
<1>18. r \in ToSet(rows')
  BY <1>0, <1>7, <1>8 DEF ToSet
<1>19. QED
  BY <1>7, <1>8, <1>10, <1>11, <1>12, <1>13, <1>14, <1>15, <1>16, <1>17, <1>18

\* A record that is not listed joins the list.
LEMMA Joining ==
  ASSUME rows \in Seq(live), Once, Sorted, pos \in Nat, NEW r, ~Listed(r), Enter(r),
         r \in live', live \subseteq live', stamp' = [stamp EXCEPT ![r] = today],
         stamp \in [Record -> Nat], r \in Record, live \subseteq Record,
         \A s \in Record : stamp[s] <= today, today \in Nat
  PROVE  /\ rows' \in Seq(live') /\ pos' \in Nat
         /\ \A i, j \in DOMAIN rows' : rows'[i] = rows'[j] => i = j
         /\ kind = "bitrix24" =>
                \A i, j \in DOMAIN rows' : i < j => stamp'[rows'[i]] <= stamp'[rows'[j]]
         /\ skipped \ {r} \subseteq skipped' /\ skipped' \subseteq skipped \cup {r}
         /\ Unread \subseteq Unread'
         /\ kind = "bitrix24" => Unread' \subseteq Unread \cup {r}
         /\ kind = "bitrix24" => Past' \subseteq Past \cup skipped'
         /\ ToSet(rows) \cup {r} \subseteq ToSet(rows')
<1>1. PICK i \in Places :
          /\ rows' = InsertAt(rows, i, r)
          /\ pos' = IF Follows /\ InFront(i) THEN pos + 1 ELSE pos
          /\ skipped' = IF kind = "bitrix24" /\ InFront(i) THEN skipped \cup {r}
                                                          ELSE skipped \ {r}
  BY DEF Enter
<1>2. PICK v : v = InsertAt(rows, i, r)
  OBVIOUS
<1>3. PICK n : n = Len(rows)
  OBVIOUS
<1>4. n \in Nat /\ DOMAIN rows = 1..n /\ i \in 1..n + 1 /\ (kind = "bitrix24" => i = n + 1)
  BY <1>3 DEF Places
<1>5. /\ v \in Seq(live') /\ DOMAIN v = 1..n + 1
      /\ \A j \in 1..n + 1 : v[j] = IF j < i THEN rows[j] ELSE IF j = i THEN r ELSE rows[j - 1]
  <2>1. rows \in Seq(live')
    OBVIOUS
  <2>2. i \in 1..Len(rows) + 1
    BY <1>3, <1>4
  <2>3. /\ v \in Seq(live') /\ Len(v) = Len(rows) + 1
        /\ \A j \in 1..Len(rows) + 1 :
               v[j] = IF j < i THEN rows[j] ELSE IF j = i THEN r ELSE rows[j - 1]
    <3>1. PICK S : S = live'
      OBVIOUS
    <3>2. rows \in Seq(S) /\ r \in S
      BY <2>1, <3>1
    <3>3. v \in Seq(S) /\ WithRow(v, rows, i, r)
      BY <1>2, <2>2, <3>2, InsertFacts
    <3>4. QED
      BY <3>1, <3>3 DEF WithRow
  <2>4. DOMAIN v = 1..Len(v)
    BY <2>3
  <2>5. QED
    BY <1>3, <2>3, <2>4
<1>6. \A j \in 1..n : rows[j] \in live /\ rows[j] # r
  BY <1>3 DEF Listed, ToSet
<1>7. ASSUME NEW j \in 1..n + 1, j # i
      PROVE  \E k \in 1..n : k = (IF j < i THEN j ELSE j - 1) /\ v[j] = rows[k]
  <2>1. v[j] = IF j < i THEN rows[j] ELSE rows[j - 1]
    BY <1>5, <1>7
  <2>2. CASE j < i
    <3>1. j \in 1..n
      BY <1>4, <2>2
    <3>2. QED
      BY <2>1, <2>2, <3>1
  <2>3. CASE ~(j < i)
    <3>1. j - 1 \in 1..n
      BY <1>4, <1>7, <2>3
    <3>2. QED
      BY <2>1, <2>3, <3>1
  <2>4. QED
    BY <2>2, <2>3
<1>8. v[i] = r
  BY <1>4, <1>5
<1>9. ASSUME NEW a \in 1..n + 1, NEW b \in 1..n + 1, v[a] = v[b] PROVE a = b
  <2>1. a = i <=> b = i
    BY <1>6, <1>7, <1>8, <1>9
  <2>2. CASE a # i /\ b # i
    <3>1. PICK c \in 1..n, d \in 1..n : /\ c = (IF a < i THEN a ELSE a - 1) /\ v[a] = rows[c]
                                        /\ d = (IF b < i THEN b ELSE b - 1) /\ v[b] = rows[d]
      BY <1>7, <2>2
    <3>2. c = d
      BY <1>4, <1>9, <3>1 DEF Once
    <3>3. QED
      BY <1>4, <2>2, <3>1, <3>2
  <2>3. QED
    BY <2>1, <2>2
<1>10. ASSUME kind = "bitrix24", NEW a \in 1..n + 1, NEW b \in 1..n + 1, a < b
       PROVE  stamp'[v[a]] <= stamp'[v[b]]
  <2>1. i = n + 1 /\ a # i /\ a \in 1..n /\ v[a] = rows[a] /\ stamp'[v[a]] = stamp[rows[a]]
    BY <1>4, <1>5, <1>6, <1>10
  <2>2. CASE b = i
    <3>1. stamp'[v[b]] = today
      BY <1>8, <2>2
    <3>2. QED
      BY <1>6, <2>1, <3>1
  <2>3. CASE b # i
    <3>1. b \in 1..n /\ v[b] = rows[b] /\ stamp'[v[b]] = stamp[rows[b]]
      BY <1>4, <1>5, <1>6, <2>1, <2>3
    <3>2. QED
      BY <1>4, <1>10, <2>1, <3>1 DEF Sorted
  <2>4. QED
    BY <2>2, <2>3
<1>11. skipped \ {r} \subseteq skipped' /\ skipped' \subseteq skipped \cup {r}
  BY <1>1
<1>12. rows' = v /\ pos' \in Nat /\ pos' = IF Follows /\ i <= pos THEN pos + 1 ELSE pos
  BY <1>1, <1>2 DEF InFront
<1>13. ASSUME NEW x \in Unread PROVE x \in Unread'
  <2>1. PICK k \in 1..n : k > pos /\ rows[k] = x
    BY <1>4, <1>13 DEF Unread
  <2>2. CASE k < i
    <3>1. k \in 1..n + 1 /\ v[k] = x
      BY <1>4, <1>5, <2>1, <2>2
    <3>2. pos' = pos
      BY <1>4, <1>12, <2>1, <2>2
    <3>3. QED
      BY <1>5, <1>12, <2>1, <3>1, <3>2 DEF Unread
  <2>3. CASE ~(k < i)
    <3>1. k + 1 \in 1..n + 1 /\ ~(k + 1 < i) /\ k + 1 # i /\ k + 1 - 1 = k
      BY <1>4, <2>1, <2>3
    <3>2. v[k + 1] = x
      BY <1>5, <2>1, <3>1
    <3>3. k + 1 > pos'
      BY <1>12, <2>1
    <3>4. QED
      BY <1>5, <1>12, <3>1, <3>2, <3>3 DEF Unread
  <2>4. QED
    BY <2>2, <2>3
<1>14. ASSUME kind = "bitrix24", NEW x \in Unread' PROVE x \in Unread \cup {r}
  <2>1. PICK k \in 1..n + 1 : k > pos' /\ v[k] = x
    BY <1>5, <1>12, <1>14 DEF Unread
  <2>2. pos' = pos
    BY <1>12, <1>14 DEF Follows
  <2>3. CASE k = i
    BY <1>8, <2>1, <2>3
  <2>4. CASE k # i
    <3>1. k \in 1..n /\ v[k] = rows[k]
      BY <1>4, <1>5, <1>14, <2>4
    <3>2. QED
      BY <1>4, <2>1, <2>2, <3>1 DEF Unread
  <2>5. QED
    BY <2>3, <2>4
<1>15. ASSUME kind = "bitrix24", NEW x \in Past' PROVE x \in Past \cup skipped'
  <2>1. PICK k \in 1..n + 1 : k <= pos' /\ v[k] = x
    BY <1>5, <1>12, <1>15 DEF Past
  <2>2. pos' = pos
    BY <1>12, <1>15 DEF Follows
  <2>3. CASE k = i
    BY <1>1, <1>8, <1>15, <2>1, <2>2, <2>3 DEF InFront
  <2>4. CASE k # i
    <3>1. k \in 1..n /\ v[k] = rows[k]
      BY <1>4, <1>5, <1>15, <2>4
    <3>2. QED
      BY <1>4, <2>1, <2>2, <3>1 DEF Past
  <2>5. QED
    BY <2>3, <2>4
<1>16. ToSet(rows) \cup {r} \subseteq ToSet(rows')
  <2>1. ASSUME NEW x \in ToSet(rows) PROVE x \in ToSet(rows')
    <3>1. PICK k \in 1..n : rows[k] = x
      BY <1>4, <2>1 DEF ToSet
    <3>2. PICK a \in 1..n + 1 : a = (IF k < i THEN k ELSE k + 1)
      BY <1>4
    <3>3. v[a] = x
      <4>1. CASE k < i
        BY <1>5, <3>1, <3>2, <4>1
      <4>2. CASE ~(k < i)
        <5>1. a = k + 1 /\ ~(a < i) /\ a # i /\ a - 1 = k
          BY <1>4, <3>2, <4>2
        <5>2. QED
          BY <1>5, <3>1, <5>1
      <4>3. QED
        BY <4>1, <4>2
    <3>4. QED
      BY <1>5, <1>12, <3>3 DEF ToSet
  <2>2. QED
    BY <1>4, <1>5, <1>8, <1>12, <2>1 DEF ToSet
<1>17. QED
  BY <1>5, <1>9, <1>10, <1>11, <1>12, <1>13, <1>14, <1>15, <1>16

(***************************************************************************)
(* The invariant                                                           *)
(***************************************************************************)
USE RecordAssumption, KindAssumption, SizesAssumption, DaysAssumption, DocTypeAssumption,
    BoundsAssumption
    DEF RecordAssumption, KindAssumption, SizesAssumption, DaysAssumption, DocTypeAssumption,
        BoundsAssumption

Clock == /\ DayOne <= today /\ today <= LastDay
         /\ \A r \in Record : DayOne <= stamp[r] /\ stamp[r] <= today
         /\ DayOne <= lastRun /\ lastRun <= today
         /\ pc # "idle" => lastRun <= began /\ began <= today /\ since <= top
         /\ kind = "bitrix24" /\ cursor = 0 => lastRun = DayOne

\* The window reaches back from_days_ago, or to the cursor, and up to yesterday.
FromCursor == IF cursor > 0 THEN since = cursor
              ELSE 0 < since /\ since <= began + 1 - Days
Asked == pc # "idle" =>
             /\ kind # "bitrix24" => since <= began - Days /\ began - 1 <= until
             /\ kind = "bitrix24" => until = LastDay /\ FromCursor
             /\ kind = "facebook_ads" => since = 0
             /\ kind \notin {"payme_uz", "didox"} => chunk = 1
             /\ pc = "read" => LastChunk <= chunk

\* What was there before the run, in the window, is due once its chunk is asked
\* for, if it has not changed behind the page since.
ChunkOf(r) == CASE kind = "payme_uz" -> stamp[r]
                [] kind = "didox" -> DocType[r]
                [] OTHER -> 1
Covered == pc # "idle" =>
               \A r \in live : /\ stamp[r] < began /\ since <= stamp[r] /\ stamp[r] <= until
                               /\ ChunkOf(r) <= chunk
                               => r \in due \cup unseen

\* What is due has been read, was passed over or is still to come.
Swept == /\ pc = "reading" => due \subseteq got \cup skipped \cup Unread
         /\ SweepComplete

\* What Bitrix24's next cursor leaves behind has been read or was passed over.
Passed == kind = "bitrix24" =>
              /\ pc = "reading" => /\ \A r \in live : since <= stamp[r] => r \in ToSet(rows)
                                   /\ Past \subseteq got \cup skipped
                                   /\ \A r \in Unread : top <= stamp[r]
              /\ pc = "read" => \A r \in live : since <= stamp[r] /\ stamp[r] < top =>
                                                    r \in got \cup skipped

Inv == /\ TypeOK /\ Clock /\ Once /\ Sorted /\ Asked /\ Covered /\ Swept /\ Passed
       /\ NothingLeftBehind

\* The first day: nothing read, nothing loaded.
LEMMA InitInv == Init => Inv
<1> SUFFICES ASSUME Init PROVE Inv
  OBVIOUS
<1>0. DayOne \in Nat /\ DayOne > 0
  BY DEF DayOne
<1>1. TypeOK
  <2>1. kind \in Kinds /\ changes \in 0..MaxChanges
    BY DEF Init
  <2>2. today \in Nat /\ stamp \in [Record -> Nat] /\ lastRun \in Nat
    BY <1>0 DEF Init
  <2>3. rows \in Seq(live) /\ live \in SUBSET Record
    BY DEF Init
  <2>4. cursor \in 0..today /\ top \in 0..today /\ tries \in 1..MaxTries
    BY <1>0 DEF Init
  <2>5. QED
    BY <2>1, <2>2, <2>3, <2>4 DEF Init, TypeOK
<1>2. Clock /\ Once /\ Asked /\ Covered /\ Swept /\ Passed
  BY DEF Init, Clock, Once, Asked, Covered, Swept, SweepComplete, Passed, DayOne
<1>3. Sorted
  BY DEF Init, Sorted
<1>4. NothingLeftBehind
  BY DEF Init, NothingLeftBehind, Settled, DayOne
<1>5. QED
  BY <1>1, <1>2, <1>3, <1>4 DEF Inv

(***************************************************************************)
(* A change of the source                                                  *)
(***************************************************************************)
\* What a change of record r does to the list and to what is known of r.
RowsAfter(r) ==
    /\ rows' \in Seq(live') /\ pos' \in Nat
    /\ \A i, j \in DOMAIN rows' : rows'[i] = rows'[j] => i = j
    /\ kind = "bitrix24" =>
           \A i, j \in DOMAIN rows' : i < j => stamp'[rows'[i]] <= stamp'[rows'[j]]
    /\ skipped \ {r} \subseteq skipped' /\ skipped' \subseteq live'
    /\ Unread \ {r} \subseteq Unread' \cup skipped'
    /\ r \in due' => r \in Unread' \cup skipped'
    /\ kind = "bitrix24" => /\ Unread' \subseteq Unread \cup {r}
                            /\ Past' \subseteq (Past \ {r}) \cup skipped'
                            /\ ToSet(rows) \ {r} \subseteq ToSet(rows')
    /\ pc = "reading" /\ kind = "bitrix24" /\ r \in live' => r \in ToSet(rows')
    /\ pc # "reading" => rows' = <<>>

\* A change that its date does not tell.
Altered(r) == /\ kind # "bitrix24" /\ stamp'[r] = stamp[r]
              /\ stamp[r] < AskedUntil => r \in unseen'

RecordAfter(r) ==
    /\ live \ {r} \subseteq live' /\ live' \subseteq live \cup {r} /\ live' \subseteq Record
    /\ stamp' \in [Record -> Nat] /\ \A s \in Record : s # r => stamp'[s] = stamp[s]
    /\ r \in live' => stamp'[r] = today \/ Altered(r)
    /\ stamp'[r] \in {stamp[r], today}
    /\ got' \subseteq live' /\ got \ {r} \subseteq got'
    /\ due' \subseteq live' /\ due \ {r} \subseteq due' /\ due' \subseteq due
    /\ loaded' \subseteq live' /\ loaded \ {r} \subseteq loaded'
    /\ unseen' \subseteq live' /\ unseen \ {r} \subseteq unseen'
    /\ changes' \in 0..MaxChanges

LEMMA ListParts ==
  ASSUME rows \in Seq(live)
  PROVE  /\ \A r : r \in Past \cup Unread => Listed(r)
         /\ \A r : Listed(r) => r \in live
         /\ rows = <<>> => Past = {} /\ Unread = {}
BY DEF Past, Unread, Listed, ToSet

\* A record that neither was nor is listed.
LEMMA NotListed ==
  ASSUME TypeOK, Once, Sorted, NEW r \in Record, ~Listed(r), Stays(r), r \notin due',
         RecordAfter(r), ~(pc = "reading" /\ kind = "bitrix24" /\ r \in live')
  PROVE  RowsAfter(r)
<1>1. rows \in Seq(live) /\ pos \in Nat /\ rows' = rows /\ pos' = pos /\ skipped' = skipped \ {r}
  BY DEF TypeOK, Stays
<1>2. \A i \in DOMAIN rows : rows[i] \in live' /\ rows[i] \in Record /\ rows[i] # r
  <2>1. \A i \in DOMAIN rows : rows[i] \in live /\ rows[i] # r
    BY <1>1 DEF Listed, ToSet
  <2>2. live \subseteq Record /\ live \ {r} \subseteq live'
    BY DEF RecordAfter, TypeOK
  <2>3. QED
    BY <2>1, <2>2
<1>3. rows' \in Seq(live')
  BY <1>1, <1>2
<1>4. Unread' = Unread /\ Past' = Past /\ r \notin Past
  BY <1>1, ListParts DEF Unread, Past
<1>5. kind = "bitrix24" =>
          \A i, j \in DOMAIN rows' : i < j => stamp'[rows'[i]] <= stamp'[rows'[j]]
  <2>1. \A i \in DOMAIN rows : stamp'[rows[i]] = stamp[rows[i]]
    BY <1>2 DEF RecordAfter
  <2>2. kind = "bitrix24" => \A i, j \in DOMAIN rows : i < j => stamp[rows[i]] <= stamp[rows[j]]
    BY DEF Sorted
  <2>3. QED
    BY <1>1, <2>1, <2>2
<1>6. skipped' \subseteq live'
  BY <1>1 DEF TypeOK, RecordAfter
<1>7. QED
  BY <1>1, <1>3, <1>4, <1>5, <1>6 DEF RowsAfter, Once

\* A record that joins.
LEMMA Joined ==
  ASSUME TypeOK, Clock, Once, Sorted, NEW r \in Record, ~Listed(r), Enter(r), r \in live',
         r \notin due', live \subseteq live', stamp' = [stamp EXCEPT ![r] = today],
         RecordAfter(r), pc = "reading"
  PROVE  RowsAfter(r)
<1>1. /\ rows \in Seq(live) /\ pos \in Nat /\ stamp \in [Record -> Nat] /\ live \subseteq Record
      /\ today \in Nat /\ \A s \in Record : stamp[s] <= today
      /\ skipped \subseteq live
  BY DEF TypeOK, Clock
<1>2. /\ rows' \in Seq(live') /\ pos' \in Nat
      /\ \A i, j \in DOMAIN rows' : rows'[i] = rows'[j] => i = j
      /\ kind = "bitrix24" =>
             \A i, j \in DOMAIN rows' : i < j => stamp'[rows'[i]] <= stamp'[rows'[j]]
      /\ skipped \ {r} \subseteq skipped' /\ skipped' \subseteq skipped \cup {r}
      /\ Unread \subseteq Unread'
      /\ kind = "bitrix24" => Unread' \subseteq Unread \cup {r}
      /\ kind = "bitrix24" => Past' \subseteq Past \cup skipped'
      /\ ToSet(rows) \cup {r} \subseteq ToSet(rows')
  BY <1>1, Joining
<1>3. r \notin Past
  BY <1>1, ListParts
<1>4. QED
  BY <1>1, <1>2, <1>3 DEF RowsAfter

\* A listed record that changes where it is.
LEMMA InPlace ==
  ASSUME TypeOK, Once, Sorted, NEW r \in Record, Listed(r), Stays(r), live' = live,
         kind # "bitrix24", r \in due' => Ahead(r)
  PROVE  RowsAfter(r)
<1>1. /\ rows \in Seq(live) /\ pos \in Nat /\ skipped \subseteq live
      /\ rows' = rows /\ pos' = pos /\ skipped' = skipped \ {r}
  BY DEF TypeOK, Stays
<1>2. Unread' = Unread /\ pc = "reading"
  BY <1>1 DEF Unread, Once, Listed, ToSet
<1>3. Ahead(r) => r \in Unread
  <2>1. ASSUME Ahead(r) PROVE r \in Unread
    <3>1. Place(r) \in 1..Len(rows) /\ rows[Place(r)] = r
      BY <1>1, RowsWithout
    <3>2. Place(r) > pos
      BY <1>1, <2>1, <3>1 DEF Ahead, InFront
    <3>3. QED
      BY <1>1, <3>1, <3>2 DEF Unread
  <2>2. QED
    BY <2>1
<1>4. QED
  BY <1>1, <1>2, <1>3 DEF RowsAfter, Once

LEMMA RowChanges ==
  ASSUME TypeOK, Clock, Once, Sorted, Asked, NEW r \in Record,
         Create(r) \/ Touch(r) \/ Alter(r) \/ Delete(r)
  PROVE  Steady /\ RecordAfter(r) /\ RowsAfter(r)
<1>0. /\ rows \in Seq(live) /\ pos \in Nat /\ stamp \in [Record -> Nat] /\ live \subseteq Record
      /\ today \in Nat /\ \A s \in Record : stamp[s] <= today
      /\ got \subseteq live /\ due \subseteq live /\ loaded \subseteq live /\ unseen \subseteq live
      /\ skipped \subseteq live /\ changes \in 0..MaxChanges
  BY DEF TypeOK, Clock
<1>1. Steady /\ (Change => changes' \in 0..MaxChanges)
  BY <1>0 DEF Create, Touch, Alter, Delete, Change
<1>2. Listed(r) => r \in live
  BY <1>0, ListParts
<1>3. pc = "reading" /\ kind = "bitrix24" => since <= today /\ today <= until
  BY DEF TypeOK, Clock, Asked
<1>4. CASE Create(r)
  <2>1. RecordAfter(r)
    BY <1>0, <1>1, <1>4 DEF Create, RecordAfter
  <2>2. ~Listed(r) /\ r \notin due' /\ r \in live' /\ live \subseteq live'
    BY <1>0, <1>2, <1>4 DEF Create
  <2>3. CASE Joins(r)
    BY <1>4, <2>1, <2>2, <2>3, Joined DEF Create, Joins
  <2>4. CASE ~Joins(r)
    <3>1. ~(pc = "reading" /\ kind = "bitrix24")
      BY <1>3, <2>4 DEF Joins, Matches
    <3>2. QED
      BY <1>4, <2>1, <2>2, <2>4, <3>1, NotListed DEF Create
  <2>5. QED
    BY <1>1, <2>1, <2>3, <2>4
<1>5. CASE Touch(r)
  <2>1. RecordAfter(r)
    BY <1>0, <1>1, <1>5 DEF Touch, Forget, DueAhead, RecordAfter
  <2>2. live' = live /\ stamp' = [stamp EXCEPT ![r] = today] /\ r \in live
    BY <1>5 DEF Touch
  <2>3. CASE kind = "bitrix24" /\ Listed(r)
    <3>1. Leave(r, Append(Without(r), r)) /\ due' = due
      BY <1>5, <2>3 DEF Touch
    <3>2. /\ rows' \in Seq(live) /\ pos' \in Nat
          /\ \A i, j \in DOMAIN rows' : rows'[i] = rows'[j] => i = j
          /\ \A i, j \in DOMAIN rows' : i < j => stamp'[rows'[i]] <= stamp'[rows'[j]]
          /\ skipped \ {r} \subseteq skipped' /\ skipped' \subseteq (skipped \ {r}) \cup live
          /\ Unread \ {r} \subseteq Unread' \cup skipped' /\ Unread' \subseteq Unread \cup {r}
          /\ Past' \subseteq (Past \ {r}) \cup skipped'
          /\ r \in Unread' \cup skipped'
          /\ ToSet(rows) \subseteq ToSet(rows')
      BY <1>0, <2>2, <2>3, <3>1, Moves
    <3>3. pc = "reading"
      BY <2>3 DEF Once, Listed, ToSet
    <3>4. QED
      BY <1>0, <1>1, <2>1, <2>2, <2>3, <3>2, <3>3 DEF RowsAfter, Listed
  <2>4. CASE ~(kind = "bitrix24" /\ Listed(r))
    <3>1. /\ r \in due' => Ahead(r)
          /\ IF Joins(r) /\ ~Listed(r) THEN Enter(r) ELSE Stays(r)
      BY <1>5, <2>4 DEF Touch, DueAhead
    <3>2. CASE Joins(r) /\ ~Listed(r)
      BY <1>1, <2>1, <2>2, <3>1, <3>2, Joined DEF Joins, Ahead
    <3>3. CASE ~Joins(r) /\ ~Listed(r)
      <4>1. ~(pc = "reading" /\ kind = "bitrix24")
        BY <1>3, <3>3 DEF Joins, Matches
      <4>2. QED
        BY <1>1, <2>1, <3>1, <3>3, <4>1, NotListed DEF Ahead
    <3>4. CASE Listed(r)
      <4>1. Stays(r) /\ kind # "bitrix24"
        BY <2>4, <3>1, <3>4
      <4>2. QED
        BY <1>1, <2>1, <2>2, <3>1, <3>4, <4>1, InPlace
    <3>5. QED
      BY <3>2, <3>3, <3>4
  <2>5. QED
    BY <2>3, <2>4
<1>6. CASE Delete(r)
  <2>1. RecordAfter(r)
    BY <1>0, <1>1, <1>6 DEF Delete, Forget, RecordAfter
  <2>2. live' = live \ {r} /\ stamp' = stamp /\ r \notin due'
    BY <1>6 DEF Delete
  <2>3. CASE Listed(r)
    <3>1. Leave(r, Without(r))
      BY <1>6, <2>3 DEF Delete
    <3>2. /\ rows' \in Seq(live \ {r}) /\ pos' \in Nat
          /\ \A i, j \in DOMAIN rows' : rows'[i] = rows'[j] => i = j
          /\ kind = "bitrix24" =>
                 \A i, j \in DOMAIN rows' : i < j => stamp[rows'[i]] <= stamp[rows'[j]]
          /\ skipped \ {r} \subseteq skipped' /\ skipped' \subseteq (skipped \ {r}) \cup ToSet(rows')
          /\ Unread \ {r} \subseteq Unread' \cup skipped' /\ Unread' \subseteq Unread
          /\ Past' \subseteq (Past \ {r}) \cup skipped'
          /\ ToSet(rows) \ {r} \subseteq ToSet(rows')
      BY <1>0, <2>3, <3>1, Drops
    <3>3. pc = "reading"
      BY <2>3 DEF Once, Listed, ToSet
    <3>4. ToSet(rows') \subseteq live'
      BY <2>2, <3>2 DEF ToSet
    <3>5. QED
      BY <1>0, <1>1, <2>1, <2>2, <3>2, <3>3, <3>4 DEF RowsAfter
  <2>4. CASE ~Listed(r)
    <3>1. Stays(r)
      BY <1>6, <2>4 DEF Delete
    <3>2. QED
      BY <1>1, <2>1, <2>2, <2>4, <3>1, NotListed
  <2>5. QED
    BY <2>3, <2>4
<1>7. CASE Alter(r)
  <2>1. kind # "bitrix24"
    BY <1>7 DEF Alter, DatedByCreation
  <2>2. RecordAfter(r)
    BY <1>0, <1>1, <1>7, <2>1 DEF Alter, Forget, DueAhead, RecordAfter, Altered
  <2>3. live' = live /\ Stays(r) /\ (r \in due' => Ahead(r)) /\ r \in live
    BY <1>7 DEF Alter, DueAhead
  <2>4. CASE Listed(r)
    BY <1>1, <2>1, <2>2, <2>3, <2>4, InPlace
  <2>5. CASE ~Listed(r)
    BY <1>1, <2>1, <2>2, <2>3, <2>5, NotListed DEF Ahead
  <2>6. QED
    BY <1>1, <2>2, <2>4, <2>5
<1>8. QED
  BY <1>4, <1>5, <1>6, <1>7

\* A change keeps the invariant: the record that changed has today's date, or is
\* one that no later run is sure to ask for.
LEMMA ChangeKeeps ==
  ASSUME Inv, NEW r \in Record, Create(r) \/ Touch(r) \/ Alter(r) \/ Delete(r)
  PROVE  Inv'
<1>1. /\ Steady /\ RecordAfter(r) /\ RowsAfter(r)
      /\ TypeOK /\ Clock /\ Once /\ Sorted /\ Asked /\ Covered /\ Swept /\ Passed
      /\ NothingLeftBehind
  BY RowChanges DEF Inv
<1>2. UNCHANGED <<kind, today, began, since, until, lastRun, late, cursor, pc, chunk, tries, top>>
  BY <1>1 DEF Steady, window
<1>3. TypeOK'
  BY <1>1, <1>2 DEF TypeOK, RecordAfter, RowsAfter
<1>4. Clock'
  <2>1. \A s \in Record : stamp'[s] \in {stamp[s], today}
    BY <1>1 DEF RecordAfter
  <2>2. \A s \in Record : DayOne <= stamp[s] /\ stamp[s] <= today
    BY <1>1 DEF Clock
  <2>3. DayOne <= today /\ today <= LastDay /\ today \in Nat /\ DayOne \in Nat
    BY <1>1, DaysAssumption DEF Clock, TypeOK, DayOne
  <2>4. \A s \in Record : DayOne <= stamp'[s] /\ stamp'[s] <= today
    <3>1. SUFFICES ASSUME NEW s \in Record
                   PROVE  DayOne <= stamp'[s] /\ stamp'[s] <= today
      OBVIOUS
    <3>2. stamp'[s] = stamp[s] \/ stamp'[s] = today
      BY <2>1
    <3>3. QED
      BY <2>2, <2>3, <3>2
  <2>5. QED
    BY <1>1, <1>2, <2>4 DEF Clock, DayOne
<1>5. Once' /\ Sorted'
  BY <1>1, <1>2 DEF RowsAfter, Once, Sorted
<1>6. Asked'
  <2>1. LastChunk' = LastChunk
    BY <1>2 DEF LastChunk
  <2>2. QED
    BY <1>1, <1>2, <2>1 DEF Asked, FromCursor
<1>7. Covered'
  <2>1. SUFFICES ASSUME pc # "idle", NEW s \in live', stamp'[s] < began, since <= stamp'[s],
                        stamp'[s] <= until, ChunkOf(s)' <= chunk
                 PROVE  s \in due' \cup unseen'
    BY <1>2 DEF Covered
  <2>2. CASE s = r
    <3>1. stamp'[r] # today
      BY <1>1, <2>1, <2>2 DEF Clock, TypeOK
    <3>2. Altered(r)
      BY <1>1, <2>1, <2>2, <3>1 DEF RecordAfter
    <3>3. stamp[r] < AskedUntil
      BY <2>1, <2>2, <3>2 DEF Altered, AskedUntil
    <3>4. QED
      BY <2>2, <3>2, <3>3 DEF Altered
  <2>3. CASE s # r
    <3>1. s \in live /\ s \in Record /\ stamp'[s] = stamp[s]
      BY <1>1, <2>3 DEF RecordAfter
    <3>2. ChunkOf(s)' = ChunkOf(s)
      BY <1>2, <3>1 DEF ChunkOf
    <3>3. QED
      BY <1>1, <2>1, <2>3, <3>1, <3>2 DEF Covered, RecordAfter
  <2>4. QED
    BY <2>2, <2>3
<1>8. Swept'
  <2>1. ASSUME pc = "reading" PROVE due' \subseteq got' \cup skipped' \cup Unread'
    BY <1>1, <2>1 DEF Swept, RecordAfter, RowsAfter
  <2>2. ASSUME pc = "read" PROVE due' \subseteq got' \cup skipped'
    <3>1. Unread' = {}
      BY <1>1, <1>2, <2>2 DEF RowsAfter, Unread
    <3>2. QED
      BY <1>1, <2>2, <3>1 DEF Swept, SweepComplete, RecordAfter, RowsAfter
  <2>3. QED
    BY <1>2, <2>1, <2>2 DEF Swept, SweepComplete
<1>9. Passed'
  <2>1. SUFFICES ASSUME kind = "bitrix24"
                 PROVE  /\ pc = "reading" => /\ \A s \in live' : since <= stamp'[s] =>
                                                                     s \in ToSet(rows')
                                             /\ Past' \subseteq got' \cup skipped'
                                             /\ \A s \in Unread' : top <= stamp'[s]
                        /\ pc = "read" => \A s \in live' : since <= stamp'[s] /\ stamp'[s] < top =>
                                              s \in got' \cup skipped'
    BY <1>2 DEF Passed
  <2>2. \A s \in live' : s # r => s \in live /\ s \in Record /\ stamp'[s] = stamp[s]
    BY <1>1 DEF RecordAfter
  <2>3. ASSUME pc = "reading", NEW s \in live', since <= stamp'[s] PROVE s \in ToSet(rows')
    BY <1>1, <2>1, <2>2, <2>3 DEF Passed, RowsAfter
  <2>4. ASSUME pc = "reading" PROVE Past' \subseteq got' \cup skipped'
    BY <1>1, <2>1, <2>4 DEF Passed, RecordAfter, RowsAfter
  <2>5. ASSUME pc = "reading", NEW s \in Unread' PROVE top <= stamp'[s]
    <3>1. s \in live' /\ s \in Unread \cup {r}
      BY <1>1, <2>1 DEF RowsAfter, Unread
    <3>2. CASE s = r
      BY <1>1, <2>1, <3>1, <3>2 DEF RecordAfter, Altered, TypeOK
    <3>3. CASE s # r
      BY <1>1, <2>1, <2>2, <2>5, <3>1, <3>3 DEF Passed
    <3>4. QED
      BY <3>2, <3>3
  <2>6. ASSUME pc = "read", NEW s \in live', since <= stamp'[s], stamp'[s] < top
        PROVE  s \in got' \cup skipped'
    <3>1. s # r
      BY <1>1, <2>1, <2>6 DEF RecordAfter, Altered, TypeOK
    <3>2. QED
      BY <1>1, <2>1, <2>2, <2>6, <3>1 DEF Passed, RecordAfter, RowsAfter
  <2>7. QED
    BY <2>3, <2>4, <2>5, <2>6
<1>10. NothingLeftBehind'
  <2>1. SUFFICES ASSUME NEW s \in live', Settled(s)' PROVE s \in loaded' \cup unseen'
    BY DEF NothingLeftBehind
  <2>2. CASE s = r
    <3>1. stamp'[r] # today
      BY <1>1, <1>2, <2>1, <2>2 DEF Settled, Clock, TypeOK
    <3>2. Altered(r)
      BY <1>1, <2>1, <2>2, <3>1 DEF RecordAfter
    <3>3. stamp[r] < lastRun
      BY <1>2, <2>1, <2>2, <3>2 DEF Settled, Altered
    <3>4. stamp[r] \in Nat /\ lastRun \in Nat /\ began \in Nat /\ r \in Record
          /\ (pc # "idle" => lastRun <= began)
      BY <1>1 DEF TypeOK, Clock
    <3>5. stamp[r] < AskedUntil
      BY <3>3, <3>4 DEF AskedUntil
    <3>6. QED
      BY <2>2, <3>2, <3>5 DEF Altered
  <2>3. CASE s # r
    <3>1. s \in live /\ stamp'[s] = stamp[s]
      BY <1>1, <2>3 DEF RecordAfter
    <3>2. Settled(s)
      BY <1>2, <2>1, <3>1 DEF Settled
    <3>3. QED
      BY <1>1, <2>3, <3>1, <3>2 DEF NothingLeftBehind, RecordAfter
  <2>4. QED
    BY <2>2, <2>3
<1>11. QED
  BY <1>3, <1>4, <1>5, <1>6, <1>7, <1>8, <1>9, <1>10 DEF Inv

LEMMA TickKeeps == Inv /\ Tick => Inv'
<1> SUFFICES ASSUME Inv, Tick PROVE Inv'
  OBVIOUS
<1>1. /\ TypeOK /\ Clock /\ Once /\ Sorted /\ Asked /\ Covered /\ Swept /\ Passed
      /\ NothingLeftBehind
  BY DEF Inv
<1>2. /\ today < LastDay /\ today' = today + 1
      /\ UNCHANGED <<kind, live, stamp, changes, began, since, until, lastRun, late, loaded,
                     cursor, unseen, pc, chunk, rows, pos, tries, got, top, due, skipped>>
  BY DEF Tick, window, store
<1>3. TypeOK' /\ Clock'
  BY <1>1, <1>2 DEF TypeOK, Clock, DayOne
<1>4. Once' /\ Sorted' /\ Unread' = Unread /\ Past' = Past
  BY <1>1, <1>2 DEF Once, Sorted, Unread, Past
<1>5. Asked'
  BY <1>1, <1>2 DEF Asked, FromCursor, LastChunk
<1>6. Covered'
  BY <1>1, <1>2 DEF Covered, ChunkOf
<1>7. Swept' /\ Passed'
  BY <1>1, <1>2, <1>4 DEF Swept, SweepComplete, Passed
<1>8. NothingLeftBehind'
  BY <1>1, <1>2 DEF NothingLeftBehind, Settled
<1>9. QED
  BY <1>3, <1>4, <1>5, <1>6, <1>7, <1>8 DEF Inv

(***************************************************************************)
(* A run's steps                                                           *)
(***************************************************************************)
LEMMA AnswersFacts ==
  ASSUME TypeOK, NEW s, NEW u, NEW c, NEW list \in Answers(s, u, c)
  PROVE  /\ list \in Seq(live) /\ ToSet(list) \subseteq live
         /\ \A r \in live : Matches(r, stamp[r], s, u, c) => r \in ToSet(list)
         /\ \A i, j \in DOMAIN list : list[i] = list[j] => i = j
         /\ kind = "bitrix24" =>
                \A i, j \in DOMAIN list : i < j => stamp[list[i]] <= stamp[list[j]]
<1>1. PICK S : S = {r \in live : Matches(r, stamp[r], s, u, c)}
  OBVIOUS
<1>2. IsFiniteSet(S) /\ S \subseteq live
  <2>1. S \in SUBSET Record
    BY <1>1 DEF TypeOK
  <2>2. QED
    BY <1>1, <2>1, FS_Subset
<1>3. /\ list \in SetToSeqs(S)
      /\ kind = "bitrix24" =>
             \A i, j \in DOMAIN list : i < j => stamp[list[i]] <= stamp[list[j]]
  BY <1>1 DEF Answers
<1>4. /\ list \in Seq(S) /\ ToSet(list) = S
      /\ \A i, j \in DOMAIN list : list[i] = list[j] => i = j
  BY <1>2, <1>3, AllOnce
<1>5. list \in Seq(live)
  BY <1>2, <1>4
<1>6. QED
  BY <1>1, <1>2, <1>3, <1>4, <1>5

LEMMA WindowsFacts ==
  ASSUME TypeOK, Clock, NEW w \in Windows
  PROVE  /\ w.since \in 0..today /\ w.until \in Nat
         /\ kind # "bitrix24" => w.since <= today - Days /\ today - 1 <= w.until
         /\ kind = "bitrix24" => /\ w.until = LastDay
                                 /\ IF cursor > 0 THEN w.since = cursor
                                    ELSE 0 < w.since /\ w.since <= today + 1 - Days
         /\ kind = "facebook_ads" => w.since = 0
<1>1. today \in Nat /\ Days + 2 <= today /\ today <= LastDay /\ cursor \in 0..today
  BY DEF TypeOK, Clock, DayOne
<1>2. CASE kind = "bitrix24"
  <2>1. PICK local \in today - 1 .. today + 1 :
            w = Window(IF cursor > 0 THEN cursor ELSE local - Days, Unbounded)
    BY <1>2 DEF Windows, BitrixWindows
  <2>2. QED
    BY <1>1, <1>2, <2>1 DEF Window, Unbounded
<1>3. CASE kind = "moysklad"
  <2>1. w = MoySkladWindow
    BY <1>3 DEF Windows
  <2>2. QED
    BY <1>1, <1>3, <2>1 DEF MoySkladWindow, Window, Unbounded
<1>4. CASE kind = "facebook_ads"
  <2>1. w = FacebookWindow
    BY <1>4 DEF Windows
  <2>2. QED
    BY <1>1, <1>4, <2>1 DEF FacebookWindow, Window, Unbounded
<1>5. CASE kind = "payme_uz"
  <2>1. PICK local \in {today, today + 1} : w = Window(local - Days - 1, local - 1)
    BY <1>5 DEF Windows, PaymeWindows
  <2>2. QED
    BY <1>1, <1>5, <2>1 DEF Window
<1>6. CASE kind \in {"click_uz", "uzum_market", "didox"}
  <2>1. w \in DayWindows
    BY <1>6 DEF Windows, ClickWindows, UzumWindows, DidoxWindows
  <2>2. PICK local \in {today - 1, today} : w = Window(local - Days, local)
    BY <2>1 DEF DayWindows
  <2>3. QED
    BY <1>1, <1>6, <2>2 DEF Window
<1>7. QED
  BY <1>2, <1>3, <1>4, <1>5, <1>6 DEF TypeOK, Kinds

\* What a chunk's request answers is what is in the window and of that chunk.
LEMMA ChunkMatches ==
  ASSUME TypeOK, NEW r \in live, NEW s, NEW u, s <= stamp[r], stamp[r] <= u,
         NEW c, \/ kind \in {"payme_uz", "didox"} /\ ChunkOf(r) = c
                \/ kind \notin {"payme_uz", "didox"}
  PROVE  Matches(r, stamp[r], s, u, c)
BY DEF ChunkOf, Matches

LEMMA BeginKeeps == Inv /\ Begin => Inv'
<1> SUFFICES ASSUME Inv, Begin PROVE Inv'
  OBVIOUS
<1>1. /\ TypeOK /\ Clock /\ Once /\ Sorted /\ NothingLeftBehind
  BY DEF Inv
<1>2. PICK w \in Windows :
          /\ pc = "idle" /\ pc' = "reading"
          /\ began' = today /\ since' = w.since /\ until' = w.until
          /\ chunk' = FirstChunk(w.since) /\ pos' = 0 /\ tries' = 1
          /\ rows' \in Answers(w.since, w.until, FirstChunk(w.since))
          /\ got' = {} /\ top' = w.since /\ due' = ToSet(rows') /\ skipped' = {}
          /\ UNCHANGED <<kind, source, store, lastRun, late>>
  BY DEF Begin
<1>3. PICK s, u, c : s = w.since /\ u = w.until /\ c = FirstChunk(w.since)
  OBVIOUS
<1>4. /\ s \in 0..today /\ u \in Nat
      /\ kind # "bitrix24" => s <= today - Days /\ today - 1 <= u
      /\ kind = "bitrix24" => /\ u = LastDay
                              /\ IF cursor > 0 THEN s = cursor
                                 ELSE 0 < s /\ s <= today + 1 - Days
      /\ kind = "facebook_ads" => s = 0
  BY <1>1, <1>3, WindowsFacts
<1>5. /\ rows' \in Seq(live) /\ ToSet(rows') \subseteq live
      /\ \A r \in live : Matches(r, stamp[r], s, u, c) => r \in ToSet(rows')
      /\ \A i, j \in DOMAIN rows' : rows'[i] = rows'[j] => i = j
      /\ kind = "bitrix24" =>
             \A i, j \in DOMAIN rows' : i < j => stamp[rows'[i]] <= stamp[rows'[j]]
  <2>1. PICK list : list = rows'
    OBVIOUS
  <2>2. list \in Answers(s, u, c)
    BY <1>2, <1>3, <2>1
  <2>3. QED
    BY <1>1, <2>1, <2>2, AnswersFacts
<1>6. /\ UNCHANGED <<kind, today, live, stamp, changes, loaded, cursor, unseen, lastRun, late>>
      /\ pc' = "reading" /\ began' = today /\ since' = s /\ until' = u /\ chunk' = c
      /\ pos' = 0 /\ tries' = 1 /\ got' = {} /\ top' = s /\ due' = ToSet(rows') /\ skipped' = {}
  BY <1>2, <1>3 DEF source, store
<1>7. TypeOK'
  <2>1. c \in Nat
    BY <1>3, <1>4 DEF FirstChunk
  <2>2. QED
    BY <1>1, <1>4, <1>5, <1>6, <2>1 DEF TypeOK
<1>8. Clock' /\ Once' /\ Sorted' /\ Asked'
  <2>1. kind \notin {"payme_uz", "didox"} => c = 1
    BY <1>3 DEF FirstChunk
  <2>2. Asked'
    BY <1>4, <1>6, <2>1 DEF Asked, FromCursor
  <2>3. Clock'
    BY <1>1, <1>4, <1>6 DEF TypeOK, Clock, DayOne
  <2>4. Once' /\ Sorted'
    BY <1>5, <1>6 DEF Once, Sorted
  <2>5. QED
    BY <2>2, <2>3, <2>4
<1>9. Unread' = ToSet(rows') /\ Past' = {}
  <2>1. DOMAIN rows' \subseteq Nat \ {0}
    BY <1>5
  <2>2. QED
    BY <1>6, <2>1 DEF Unread, Past, ToSet
<1>10. Covered'
  <2>1. SUFFICES ASSUME NEW r \in live, s <= stamp[r], stamp[r] <= u, ChunkOf(r)' <= c
                 PROVE  Matches(r, stamp[r], s, u, c)
    BY <1>5, <1>6 DEF Covered
  <2>2. ChunkOf(r)' = ChunkOf(r) /\ stamp[r] \in Nat /\ DocType[r] \in Nat \ {0}
    BY <1>1, <1>6, SMTT(30) DEF ChunkOf, TypeOK
  <2>3. kind = "payme_uz" => ChunkOf(r) = c
    BY <1>3, <1>4, <2>1, <2>2 DEF ChunkOf, FirstChunk
  <2>4. kind = "didox" => ChunkOf(r) = c
    BY <1>3, <2>1, <2>2 DEF ChunkOf, FirstChunk
  <2>5. QED
    BY <1>1, <2>1, <2>3, <2>4, ChunkMatches
<1>11. Swept'
  BY <1>6, <1>9 DEF Swept, SweepComplete
<1>12. Passed'
  <2>1. SUFFICES ASSUME kind = "bitrix24"
                 PROVE  /\ \A r \in live : s <= stamp[r] => r \in ToSet(rows')
                        /\ \A r \in ToSet(rows') : s <= stamp[r]
    BY <1>6, <1>9 DEF Passed
  <2>2. \A r \in live : s <= stamp[r] => r \in ToSet(rows')
    <3>1. ASSUME NEW r \in live, s <= stamp[r] PROVE Matches(r, stamp[r], s, u, c)
      <4>1. stamp[r] <= u
        BY <1>1, <1>4, <2>1 DEF TypeOK, Clock
      <4>2. QED
        BY <1>1, <2>1, <3>1, <4>1, ChunkMatches
    <3>2. QED
      BY <1>5, <3>1
  <2>3. \A r \in ToSet(rows') : s <= stamp[r]
    <3>1. rows' \in Answers(s, u, c)
      BY <1>2, <1>3
    <3>2. PICK S : S = {r \in live : Matches(r, stamp[r], s, u, c)}
      OBVIOUS
    <3>3. rows' \in [1..Cardinality(S) -> S]
      BY <3>1, <3>2 DEF Answers, SetToSeqs
    <3>4. ToSet(rows') \subseteq S
      BY <3>3 DEF ToSet
    <3>5. QED
      BY <3>2, <3>4 DEF Matches
  <2>4. QED
    BY <2>2, <2>3
<1>13. NothingLeftBehind'
  BY <1>1, <1>6 DEF NothingLeftBehind, Settled
<1>14. QED
  BY <1>7, <1>8, <1>10, <1>11, <1>12, <1>13 DEF Inv

\* A run that ends, one way or another.
LEMMA IdleKeeps ==
  ASSUME Inv, Idle, UNCHANGED <<kind, today, live, stamp, changes>>,
         loaded' \subseteq live, unseen' \subseteq live, cursor' \in 0..today,
         began' = began, since' = since, until' = until,
         lastRun' \in DayOne..today, late' \in BOOLEAN,
         kind = "bitrix24" /\ cursor' = 0 => lastRun' = DayOne,
         NothingLeftBehind'
  PROVE  Inv'
<1>1. TypeOK /\ Clock
  BY DEF Inv
<1>2. TypeOK'
  <2>1. rows' \in Seq(live) /\ lastRun' \in Nat
    BY DEF Idle, DayOne
  <2>2. QED
    BY <1>1, <2>1 DEF Idle, TypeOK
<1>3. Clock'
  BY <1>1 DEF Idle, Clock, DayOne
<1>4. Once' /\ Sorted' /\ Asked' /\ Covered' /\ Swept' /\ Passed'
  BY DEF Idle, Once, Sorted, Asked, Covered, Swept, SweepComplete, Passed
<1>5. QED
  BY <1>2, <1>3, <1>4 DEF Inv

\* Bitrix24: what stands before the cursor that a run saves was read by it,
\* passed over, or settled before.
LEMMA CursorCloses ==
  ASSUME Inv, pc = "read", kind = "bitrix24"
  PROVE  /\ top > 0
         /\ \A r \in live : ~late /\ ~Overdue /\ stamp[r] < top =>
                             r \in got \cup skipped \cup loaded \cup unseen
<1>1. /\ TypeOK /\ Clock /\ Asked /\ Passed /\ NothingLeftBehind
  BY DEF Inv
<1>2. /\ cursor \in Nat /\ since \in Nat /\ began \in Nat /\ top \in Nat /\ since <= top
      /\ lastRun \in Nat /\ FromCursor
      /\ \A r \in live : stamp[r] \in Nat /\ DayOne <= stamp[r]
  BY <1>1 DEF TypeOK, Clock, Asked
<1>3. top > 0
  BY <1>2 DEF FromCursor
<1>4. SUFFICES ASSUME NEW r \in live, ~late, ~Overdue, stamp[r] < top
               PROVE  r \in got \cup skipped \cup loaded \cup unseen
  BY <1>3
<1>5. CASE since <= stamp[r]
  BY <1>1, <1>4, <1>5 DEF Passed
<1>6. CASE stamp[r] < since /\ cursor > 0
  <2>1. Settled(r)
    BY <1>2, <1>4, <1>6 DEF FromCursor, Settled
  <2>2. QED
    BY <1>1, <2>1 DEF NothingLeftBehind
<1>7. CASE stamp[r] < since /\ ~(cursor > 0)
  <2>1. cursor = 0 /\ lastRun = DayOne /\ since <= began + 1 - Days
    BY <1>1, <1>2, <1>7 DEF FromCursor, Clock
  <2>2. ~(began - lastRun > Days - 1)
    BY <1>4, <2>1 DEF Overdue
  <2>3. QED
    BY <1>2, <1>7, <2>1, <2>2 DEF DayOne
<1>8. QED
  BY <1>2, <1>5, <1>6, <1>7

LEMMA LoadedKeeps == Inv /\ Loaded => Inv'
<1> SUFFICES ASSUME Inv, Loaded PROVE Inv'
  OBVIOUS
<1>1. /\ TypeOK /\ Clock /\ Asked /\ Covered /\ Swept /\ Passed /\ NothingLeftBehind
  BY DEF Inv
<1>2. /\ pc = "read" /\ Idle
      /\ loaded' = loaded \cup got
      /\ cursor' = IF kind = "bitrix24" THEN top ELSE cursor
      /\ unseen' = (unseen \cup skipped) \ got
      /\ lastRun' = began /\ late' = (late \/ Overdue)
      /\ UNCHANGED <<kind, today, live, stamp, changes, began, since, until>>
  BY DEF Loaded, source
<1>3. loaded' \subseteq live /\ unseen' \subseteq live /\ cursor' \in 0..today
  BY <1>1, <1>2 DEF TypeOK
<1>4. lastRun' \in DayOne..today
  BY <1>1, <1>2 DEF TypeOK, Clock, DayOne
<1>5. late' \in BOOLEAN
  BY <1>1, <1>2 DEF Overdue, TypeOK
<1>6. kind = "bitrix24" => cursor' > 0
  BY <1>2, CursorCloses
<1>7. NothingLeftBehind'
  <2>1. SUFFICES ASSUME NEW r \in live, Settled(r)' PROVE r \in loaded' \cup unseen'
    BY <1>2 DEF NothingLeftBehind
  <2>2. /\ ~late /\ ~Overdue
        /\ stamp[r] < IF kind = "bitrix24" THEN top ELSE began
    BY <1>2, <2>1 DEF Settled
  <2>3. /\ stamp[r] \in Nat /\ DayOne <= stamp[r] /\ stamp[r] <= today
        /\ since \in Nat /\ until \in Nat /\ chunk \in Nat /\ began \in Nat /\ top \in Nat
        /\ lastRun \in Nat /\ cursor \in Nat /\ DayOne \in Nat
    BY <1>1 DEF TypeOK, Clock, DayOne
  <2>4. r \in got \cup skipped => r \in loaded' \cup unseen'
    BY <1>2
  <2>5. r \in loaded \cup unseen => r \in loaded' \cup unseen'
    BY <1>2
  <2>6. CASE kind = "bitrix24"
    <3>1. r \in got \cup skipped \cup loaded \cup unseen
      BY <1>2, <2>2, <2>6, CursorCloses
    <3>2. QED
      BY <2>4, <2>5, <3>1
  <2>7. CASE kind # "bitrix24"
    <3>1. since <= began - Days /\ began - 1 <= until /\ LastChunk <= chunk
      BY <1>1, <1>2, <2>7 DEF Asked
    <3>2. stamp[r] < began /\ stamp[r] <= until
      BY <2>2, <2>3, <2>7, <3>1
    <3>3. CASE since <= stamp[r]
      <4>1. ChunkOf(r) <= chunk
        <5>1. CASE kind = "payme_uz"
          BY <2>3, <3>1, <3>2, <5>1 DEF ChunkOf, LastChunk
        <5>2. CASE kind = "didox"
          <6>1. DocType[r] \in 1..DocTypes
            BY <1>1 DEF TypeOK
          <6>2. QED
            BY <2>3, <3>1, <5>2, <6>1 DEF ChunkOf, LastChunk
        <5>3. CASE kind \notin {"payme_uz", "didox"}
          BY <3>1, <5>3 DEF ChunkOf, LastChunk
        <5>4. QED
          BY <5>1, <5>2, <5>3
      <4>2. r \in due \cup unseen
        BY <1>1, <1>2, <3>2, <3>3, <4>1 DEF Covered
      <4>3. QED
        BY <1>1, <1>2, <2>4, <2>5, <4>2 DEF Swept, SweepComplete
    <3>4. CASE stamp[r] < since
      <4>1. kind # "facebook_ads"
        BY <1>1, <1>2, <2>3, <3>4 DEF Asked
      <4>2. began - lastRun <= Days
        BY <2>2, <2>3, <2>7, <4>1 DEF Overdue
      <4>3. stamp[r] < lastRun
        BY <2>3, <3>1, <3>4, <4>2
      <4>4. Settled(r)
        BY <2>2, <2>7, <4>3 DEF Settled
      <4>5. QED
        BY <1>1, <2>5, <4>4 DEF NothingLeftBehind
    <3>5. QED
      BY <2>3, <3>3, <3>4
  <2>8. QED
    BY <2>6, <2>7
<1>8. QED
  BY <1>2, <1>3, <1>4, <1>5, <1>6, <1>7, IdleKeeps

LEMMA NotLoadedKeeps == Inv /\ NotLoaded => Inv'
<1> SUFFICES ASSUME Inv, NotLoaded PROVE Inv'
  OBVIOUS
<1>1. TypeOK /\ Clock /\ NothingLeftBehind
  BY DEF Inv
<1>2. /\ Idle
      /\ UNCHANGED <<kind, today, live, stamp, changes, loaded, began, since, until, lastRun>>
  BY DEF NotLoaded, source, store
<1>3. CASE UNCHANGED <<cursor, unseen, late>>
  <2>1. NothingLeftBehind'
    BY <1>1, <1>2, <1>3 DEF NothingLeftBehind, Settled
  <2>2. QED
    BY <1>1, <1>2, <1>3, <2>1, IdleKeeps DEF TypeOK, Clock
<1>4. CASE /\ pc = "read" /\ kind = "bitrix24" /\ cursor' = top
           /\ unseen' = unseen \cup ((got \cup skipped) \ loaded)
           /\ late' = (late \/ Overdue)
  <2>1. cursor' > 0
    BY <1>4, CursorCloses
  <2>2. NothingLeftBehind'
    <3>1. SUFFICES ASSUME NEW r \in live, Settled(r)' PROVE r \in loaded \cup unseen'
      BY <1>2 DEF NothingLeftBehind
    <3>2. ~late /\ ~Overdue /\ stamp[r] < top
      BY <1>2, <1>4, <3>1 DEF Settled
    <3>3. QED
      BY <1>4, <3>2, CursorCloses
  <2>3. late' \in BOOLEAN /\ cursor' \in 0..today /\ unseen' \subseteq live
    BY <1>1, <1>4 DEF Overdue, TypeOK
  <2>4. lastRun' \in DayOne..today /\ loaded' \subseteq live
    BY <1>1, <1>2 DEF TypeOK, Clock, DayOne
  <2>5. QED
    BY <1>2, <2>1, <2>2, <2>3, <2>4, IdleKeeps
<1>5. QED
  BY <1>3, <1>4 DEF NotLoaded, store

LEMMA RequestFailsKeeps == Inv /\ RequestFails => Inv'
<1> SUFFICES ASSUME Inv, RequestFails PROVE Inv'
  OBVIOUS
<1>1. /\ TypeOK /\ Clock /\ Once /\ Sorted /\ Asked /\ Covered /\ Swept /\ Passed
      /\ NothingLeftBehind
  BY DEF Inv
<1>2. UNCHANGED <<kind, source, window, store>>
  BY DEF RequestFails
<1>3. CASE Idle
  BY <1>1, <1>2, <1>3, NotLoadedKeeps DEF RequestFails, NotLoaded, window
<1>4. CASE /\ tries < MaxTries /\ tries' = tries + 1
           /\ UNCHANGED <<pc, chunk, rows, pos, got, top, due, skipped>>
  <2>1. TypeOK' /\ Clock'
    BY <1>1, <1>2, <1>4 DEF source, window, store, TypeOK, Clock
  <2>2. Once' /\ Sorted' /\ Unread' = Unread /\ Past' = Past
    BY <1>1, <1>2, <1>4 DEF source, Once, Sorted, Unread, Past
  <2>3. Asked' /\ Covered'
    BY <1>1, <1>2, <1>4 DEF source, window, store, Asked, FromCursor, LastChunk, Covered, ChunkOf
  <2>4. Swept' /\ Passed'
    BY <1>1, <1>2, <1>4, <2>2 DEF source, window, Swept, SweepComplete, Passed
  <2>5. NothingLeftBehind'
    BY <1>1, <1>2 DEF source, window, store, NothingLeftBehind, Settled
  <2>6. QED
    BY <2>1, <2>2, <2>3, <2>4, <2>5 DEF Inv
<1>5. QED
  BY <1>3, <1>4 DEF RequestFails, Retries

\* Every loop stops at the end of the list, or where it is cut off, and
\* otherwise goes on behind the page it has got.
LEMMA LoopShape ==
  ASSUME TypeOK, ReadPage, ~ReadBlank
  PROVE  /\ pc = "reading" /\ PageEnd \in Nat
         /\ \E stop, cut \in BOOLEAN, next \in Nat :
                /\ Read(stop, next, cut)
                /\ stop => cut \/ Len(rows) <= PageEnd
                /\ ~stop => pos < PageEnd /\ next \in PageEnd .. pos + PageSize
<1>1. /\ pos \in Nat /\ Len(rows) \in Nat /\ PageSize \in Nat \ {0} /\ PageEnd \in Nat
      /\ PageEnd = IF pos + PageSize < Len(rows) THEN pos + PageSize ELSE Len(rows)
  <2>1. pos \in Nat /\ Len(rows) \in Nat
    BY DEF TypeOK
  <2>2. QED
    BY <2>1 DEF PageEnd
<1>2. Empty \/ Short => Len(rows) <= PageEnd
  BY <1>1 DEF Empty, Short
<1>3. \A stop, next, cut :
          /\ stop \in BOOLEAN /\ cut \in BOOLEAN /\ next \in Nat /\ pc = "reading"
          /\ Read(stop, next, cut)
          /\ stop => cut \/ Len(rows) <= PageEnd
          /\ ~stop => pos < PageEnd /\ next \in PageEnd .. pos + PageSize
          => /\ pc = "reading" /\ PageEnd \in Nat
             /\ \E s, c \in BOOLEAN, n \in Nat :
                    /\ Read(s, n, c)
                    /\ s => c \/ Len(rows) <= PageEnd
                    /\ ~s => pos < PageEnd /\ n \in PageEnd .. pos + PageSize
  BY <1>1
<1>4. CASE ReadBitrix
  <2>1. PICK next \in {"absent", "zero"} \cup (IF More THEN {"ahead"} ELSE {}) :
            Read(BitrixStops(next), NextStart(next), next = "zero")
    BY <1>4 DEF ReadBitrix
  <2>2. NextStart(next) \in Nat /\ (next # "zero" => NextStart(next) = pos + PageSize)
    BY <1>1 DEF NextStart
  <2>3. BitrixStops(next) \in BOOLEAN /\ (next = "zero") \in BOOLEAN
    BY DEF BitrixStops, Empty, Short
  <2>4. BitrixStops(next) => next = "zero" \/ Len(rows) <= PageEnd
    BY <1>1, <1>2, <2>2 DEF BitrixStops
  <2>5. ~BitrixStops(next) => pos < PageEnd /\ NextStart(next) \in PageEnd .. pos + PageSize
    <3>1. next = "zero" => BitrixStops(next)
      BY <1>1 DEF BitrixStops, NextStart
    <3>2. QED
      BY <1>1, <2>2, <3>1 DEF BitrixStops, Empty
  <2>6. QED
    BY <1>3, <1>4, <2>1, <2>2, <2>3, <2>4, <2>5 DEF ReadBitrix, Reading
<1>5. CASE ReadMoySklad
  <2>1. PICK counted \in BOOLEAN : Read(MoySkladStops(counted), PageEnd, FALSE)
    BY <1>5 DEF ReadMoySklad
  <2>2. MoySkladStops(counted) \in BOOLEAN
    BY DEF MoySkladStops, Empty, Short
  <2>3. MoySkladStops(counted) => Len(rows) <= PageEnd
    BY <1>1, <1>2 DEF MoySkladStops
  <2>4. ~MoySkladStops(counted) => pos < PageEnd /\ PageEnd \in PageEnd .. pos + PageSize
    BY <1>1 DEF MoySkladStops, Empty
  <2>5. QED
    BY <1>1, <1>3, <1>5, <2>1, <2>2, <2>3, <2>4 DEF ReadMoySklad, Reading
<1>6. CASE ReadFacebook
  <2>1. PICK after \in {IF More THEN "ahead" ELSE "absent"}
                       \cup (IF pos > 0 THEN {"repeated"} ELSE {}) :
            Read(FacebookStops(after), IF after = "repeated" THEN pos ELSE PageEnd,
                 after = "repeated")
    BY <1>6 DEF ReadFacebook
  <2> DEFINE next == IF after = "repeated" THEN pos ELSE PageEnd
  <2>2. FacebookStops(after) \in BOOLEAN /\ (after = "repeated") \in BOOLEAN /\ next \in Nat
    BY <1>1 DEF FacebookStops, Empty
  <2>3. after = "absent" => Len(rows) <= PageEnd
    BY <1>1, <2>1 DEF More
  <2>4. FacebookStops(after) => after = "repeated" \/ Len(rows) <= PageEnd
    BY <1>2, <2>3 DEF FacebookStops
  <2>5. ~FacebookStops(after) => pos < PageEnd /\ next \in PageEnd .. pos + PageSize
    BY <1>1 DEF FacebookStops, Empty
  <2>6. QED
    BY <1>3, <1>6, <2>1, <2>2, <2>4, <2>5 DEF ReadFacebook, Reading
<1>7. CASE ReadClick \/ ReadUzum \/ ReadPayme
  <2>1. Read(ShortStops, pos + PageSize, FALSE) /\ pc = "reading"
    BY <1>7 DEF ReadClick, ReadUzum, ReadPayme, Reading
  <2>2. ShortStops \in BOOLEAN /\ (ShortStops => Len(rows) <= PageEnd)
    BY <1>2 DEF ShortStops, Empty, Short
  <2>3. pos + PageSize \in Nat /\ pos + PageSize \in PageEnd .. pos + PageSize
    BY <1>1
  <2>4. ~ShortStops => pos < PageEnd
    BY <1>1 DEF ShortStops, Empty
  <2>5. QED
    BY <1>3, <2>1, <2>2, <2>3, <2>4
<1>8. CASE ReadDidox
  <2>1. PICK counted \in BOOLEAN : Read(DidoxStops(counted), pos + PageSize, ~counted)
    BY <1>8 DEF ReadDidox
  <2>2. DidoxStops(counted) \in BOOLEAN /\ (~counted) \in BOOLEAN
    BY DEF DidoxStops, Empty
  <2>3. DidoxStops(counted) => ~counted \/ Len(rows) <= PageEnd
    BY <1>1, <1>2 DEF DidoxStops
  <2>4. pos + PageSize \in Nat /\ pos + PageSize \in PageEnd .. pos + PageSize
    BY <1>1
  <2>5. ~DidoxStops(counted) => pos < PageEnd
    BY <1>1 DEF DidoxStops, Empty
  <2>6. QED
    BY <1>3, <1>8, <2>1, <2>2, <2>3, <2>4, <2>5 DEF ReadDidox, Reading
<1>9. QED
  BY <1>4, <1>5, <1>6, <1>7, <1>8 DEF ReadPage

\* The end of a chunk's loop: what it leaves due was read or is passed over.
LEMMA EndLoopKeeps ==
  ASSUME Inv, pc = "reading", EndLoop, UNCHANGED <<kind, source, window, store>>, tries' = 1,
         got' \subseteq live, skipped' \subseteq live, due \subseteq got' \cup skipped',
         top' \in 0..today, since <= top',
         kind = "bitrix24" => \A r \in live : since <= stamp[r] /\ stamp[r] < top' =>
                                                  r \in got' \cup skipped'
  PROVE  Inv'
<1>1. /\ TypeOK /\ Clock /\ Once /\ Sorted /\ Asked /\ Covered /\ Swept /\ Passed
      /\ NothingLeftBehind
      /\ live \subseteq Record /\ stamp \in [Record -> Nat] /\ today \in Nat
      /\ UNCHANGED <<kind, today, live, stamp, changes, began, since, until, lastRun, late,
                     loaded, cursor, unseen>>
  BY DEF Inv, TypeOK, source, window, store
<1>2. NothingLeftBehind'
  BY <1>1 DEF NothingLeftBehind, Settled
<1>3. CASE /\ chunk >= LastChunk /\ pc' = "read" /\ rows' = <<>> /\ pos' = 0
           /\ UNCHANGED <<chunk, due>>
  <2>1. TypeOK'
    <3>1. rows' \in Seq(live)
      BY <1>3
    <3>2. QED
      BY <1>1, <1>3, <3>1 DEF TypeOK
  <2>2. Clock' /\ Once' /\ Sorted'
    BY <1>1, <1>3 DEF Clock, Once, Sorted, DayOne
  <2>3. LastChunk <= chunk
    BY <1>1, <1>3 DEF LastChunk, TypeOK
  <2>4. Asked' /\ Covered'
    BY <1>1, <1>3, <2>3 DEF Asked, FromCursor, LastChunk, Covered, ChunkOf
  <2>5. Swept'
    BY <1>1, <1>3 DEF Swept, SweepComplete
  <2>6. Passed'
    BY <1>1, <1>3 DEF Passed
  <2>7. QED
    BY <1>2, <2>1, <2>2, <2>4, <2>5, <2>6 DEF Inv
<1>4. CASE /\ chunk < LastChunk /\ chunk' = chunk + 1 /\ pos' = 0
           /\ rows' \in Answers(since, until, chunk + 1)
           /\ due' = due \cup ToSet(rows') /\ UNCHANGED pc
  <2>1. kind \in {"payme_uz", "didox"} /\ chunk \in Nat
    BY <1>1, <1>4 DEF Asked, FromCursor, LastChunk, TypeOK
  <2>2. /\ rows' \in Seq(live) /\ ToSet(rows') \subseteq live
        /\ \A r \in live : Matches(r, stamp[r], since, until, chunk + 1) => r \in ToSet(rows')
        /\ \A i, j \in DOMAIN rows' : rows'[i] = rows'[j] => i = j
    <3>1. PICK list, c : list = rows' /\ c = chunk + 1
      OBVIOUS
    <3>2. list \in Answers(since, until, c)
      BY <1>4, <3>1
    <3>3. QED
      BY <1>1, <3>1, <3>2, AnswersFacts
  <2>3. TypeOK'
    BY <1>1, <1>4, <2>1, <2>2 DEF TypeOK
  <2>4. Clock' /\ Once' /\ Sorted'
    BY <1>1, <1>4, <2>1, <2>2 DEF Clock, Once, Sorted, DayOne
  <2>5. Asked'
    BY <1>1, <1>4, <2>1 DEF Asked
  <2>6. Covered'
    <3>1. SUFFICES ASSUME NEW r \in live, stamp[r] < began, since <= stamp[r],
                          stamp[r] <= until, ChunkOf(r)' <= chunk + 1
                   PROVE  r \in due' \cup unseen
      BY <1>1, <1>4 DEF Covered
    <3>2. ChunkOf(r)' = ChunkOf(r) /\ ChunkOf(r) \in Nat
      <4>1. stamp[r] \in Nat /\ DocType[r] \in Nat
        BY <1>1
      <4>2. QED
        BY <1>1, <2>1, <4>1 DEF ChunkOf
    <3>3. CASE ChunkOf(r) <= chunk
      BY <1>1, <1>4, <3>1, <3>3 DEF Covered
    <3>4. CASE ChunkOf(r) = chunk + 1
      <4>1. Matches(r, stamp[r], since, until, chunk + 1)
        BY <2>1, <3>1, <3>4 DEF ChunkOf, Matches
      <4>2. QED
        BY <1>4, <2>2, <4>1
    <3>5. QED
      BY <2>1, <3>1, <3>2, <3>3, <3>4
  <2>7. Unread' = ToSet(rows')
    <3>1. DOMAIN rows' \subseteq Nat \ {0}
      BY <2>2
    <3>2. QED
      BY <1>4, <3>1 DEF Unread, ToSet
  <2>8. Swept' /\ Passed'
    BY <1>1, <1>4, <2>1, <2>7 DEF Swept, SweepComplete, Passed
  <2>9. QED
    BY <1>2, <2>3, <2>4, <2>5, <2>6, <2>8 DEF Inv
<1>5. QED
  BY <1>3, <1>4 DEF EndLoop

LEMMA ReadBlankKeeps == Inv /\ ReadBlank => Inv'
<1> SUFFICES ASSUME Inv, ReadBlank PROVE Inv'
  OBVIOUS
<1>1. TypeOK /\ Clock /\ Passed
  BY DEF Inv
<1>2. /\ pc = "reading" /\ EndLoop /\ tries' = 1
      /\ skipped' = skipped \cup (due \ got)
      /\ UNCHANGED <<kind, source, window, store, got, top>>
  BY DEF ReadBlank
<1>3. got' \subseteq live /\ skipped' \subseteq live /\ due \subseteq got' \cup skipped'
  BY <1>1, <1>2 DEF TypeOK
<1>4. top' \in 0..today /\ since <= top'
  BY <1>1, <1>2 DEF TypeOK, Clock
<1>5. ASSUME kind = "bitrix24", NEW r \in live, since <= stamp[r], stamp[r] < top'
      PROVE  r \in got' \cup skipped'
  <2>1. r \in ToSet(rows) /\ r \notin Unread /\ Past \subseteq got \cup skipped
    BY <1>1, <1>2, <1>5 DEF Passed, TypeOK
  <2>2. rows \in Seq(live) /\ pos \in Nat
    BY <1>1 DEF TypeOK
  <2>3. r \in Past
    BY <2>1, <2>2 DEF ToSet, Past, Unread
  <2>4. QED
    BY <1>2, <2>1, <2>3
<1>6. QED
  BY <1>2, <1>3, <1>4, <1>5, EndLoopKeeps

LEMMA ReadPageKeeps == Inv /\ ReadPage /\ ~ReadBlank => Inv'
<1> SUFFICES ASSUME Inv, ReadPage, ~ReadBlank PROVE Inv'
  OBVIOUS
<1>0. /\ TypeOK /\ Clock /\ Once /\ Sorted /\ Asked /\ Covered /\ Swept /\ Passed
      /\ NothingLeftBehind
  BY DEF Inv
<1>1. PICK stop \in BOOLEAN, cut \in BOOLEAN, next \in Nat :
          /\ Read(stop, next, cut)
          /\ stop => cut \/ Len(rows) <= PageEnd
          /\ ~stop => next \in PageEnd .. pos + PageSize
  BY <1>0, LoopShape
<1>2. PICK n, e : n = Len(rows) /\ e = PageEnd
  OBVIOUS
<1>3. /\ pc = "reading" /\ pos \in Nat /\ n \in Nat /\ DOMAIN rows = 1..n
      /\ e \in Nat /\ e = IF pos + PageSize < n THEN pos + PageSize ELSE n
      /\ \A i \in 1..n : rows[i] \in live
      /\ live \subseteq Record /\ stamp \in [Record -> Nat] /\ today \in Nat
  <2>1. rows \in Seq(live)
    BY <1>0 DEF TypeOK
  <2>2. pc = "reading" /\ PageEnd \in Nat
    BY <1>0, LoopShape
  <2>3. QED
    BY <1>0, <1>2, <2>1, <2>2 DEF TypeOK, PageEnd
<1>4. /\ got' = got \cup Page
      /\ top' = IF kind = "bitrix24" THEN Latest(top, {stamp[r] : r \in Page}) ELSE top
      /\ skipped' = IF cut THEN skipped \cup (due \ got') ELSE skipped
      /\ tries' = 1
      /\ UNCHANGED <<kind, today, live, stamp, changes, began, since, until, lastRun, late,
                     loaded, cursor, unseen>>
  BY <1>1 DEF Read, source, window, store
<1>5. Page = {rows[i] : i \in pos + 1 .. e} /\ Page \subseteq live
  <2>1. Page = {rows[i] : i \in pos + 1 .. e}
    BY <1>2 DEF Page
  <2>2. pos + 1 .. e \subseteq 1..n
    BY <1>3
  <2>3. QED
    BY <1>3, <2>1, <2>2
<1>6. /\ top' \in 0..today /\ since <= top'
      /\ kind = "bitrix24" => top <= top' /\ (\A r \in Page : stamp[r] <= top')
                              /\ (top' = top \/ \E r \in Page : top' = stamp[r])
  <2>1. top \in 0..today /\ since \in Nat /\ since <= top
    BY <1>0, <1>3 DEF TypeOK, Clock
  <2>2. CASE kind # "bitrix24"
    BY <1>4, <2>1, <2>2
  <2>3. CASE kind = "bitrix24"
    <3>1. PICK S : S = {stamp[r] : r \in Page}
      OBVIOUS
    <3>2. S \subseteq 0..today
      BY <1>0, <1>3, <1>5, <3>1 DEF Clock
    <3>3. top' = Latest(top, S)
      BY <1>4, <2>3, <3>1
    <3>4. /\ top' \in S \cup {top} /\ top' \in 0..today
          /\ top <= top' /\ \A d \in S : d <= top'
      BY <1>3, <2>1, <3>2, <3>3, LatestFacts
    <3>5. since <= top'
      BY <2>1, <3>4
    <3>6. QED
      BY <3>1, <3>4, <3>5
  <2>4. QED
    BY <2>2, <2>3
<1>7. /\ got \subseteq got' /\ got' \subseteq live /\ skipped \subseteq skipped'
      /\ skipped' \subseteq live
  BY <1>0, <1>4, <1>5 DEF TypeOK
\* The rows behind the page, and the rest.
<1>8. \A x \in Unread : x \in Page \/ \E i \in 1..n : i > e /\ rows[i] = x
  <2>1. ASSUME NEW x \in Unread PROVE x \in Page \/ \E i \in 1..n : i > e /\ rows[i] = x
    <3>1. PICK i \in 1..n : i > pos /\ rows[i] = x
      BY <1>3, <2>1 DEF Unread
    <3>2. CASE i <= e
      <4>1. i \in pos + 1 .. e
        BY <1>3, <3>1, <3>2
      <4>2. QED
        BY <1>5, <3>1, <4>1
    <3>3. CASE ~(i <= e)
      BY <1>3, <3>1, <3>3
    <3>4. QED
      BY <3>2, <3>3
  <2>2. QED
    BY <2>1
<1>9. kind = "bitrix24" => \A i \in 1..n : i > e => top' <= stamp[rows[i]]
  <2>1. SUFFICES ASSUME kind = "bitrix24", NEW i \in 1..n, i > e PROVE top' <= stamp[rows[i]]
    OBVIOUS
  <2>2. i > pos
    BY <1>3, <2>1
  <2>3. rows[i] \in Unread
    BY <1>3, <2>2 DEF Unread
  <2>4. CASE top' = top
    BY <1>0, <1>3, <2>1, <2>3, <2>4 DEF Passed
  <2>5. CASE \E r \in Page : top' = stamp[r]
    <3>1. PICK j \in pos + 1 .. e : top' = stamp[rows[j]]
      BY <1>5, <2>5
    <3>2. j \in 1..n /\ j < i
      BY <1>3, <2>1, <3>1
    <3>3. QED
      BY <1>0, <1>3, <2>1, <3>1, <3>2 DEF Sorted
  <2>6. QED
    BY <1>6, <2>1, <2>4, <2>5
<1>10. NothingLeftBehind'
  BY <1>0, <1>4 DEF NothingLeftBehind, Settled
\* What is due is read, passed over, or not yet read.
<1>11. due \subseteq got \cup skipped \cup Unread
  BY <1>0, <1>3 DEF Swept
<1>12. CASE ~stop
  <2>1. /\ pos' = next /\ next \in Nat /\ e <= next /\ next <= pos + PageSize
        /\ UNCHANGED <<pc, chunk, rows, due>>
    BY <1>1, <1>2, <1>3, <1>12 DEF Read, GoOn
  <2>2. TypeOK'
    BY <1>0, <1>4, <1>6, <1>7, <2>1 DEF TypeOK
  <2>3. Clock' /\ Once' /\ Sorted'
    BY <1>0, <1>4, <1>6, <2>1 DEF Clock, Once, Sorted, DayOne
  <2>4. Asked' /\ Covered'
    BY <1>0, <1>3, <1>4, <2>1 DEF Asked, FromCursor, LastChunk, Covered, ChunkOf
  <2>5. \A i \in 1..n : i > e <=> i > pos'
    BY <1>3, <2>1
  <2>6. Swept'
    <3>1. Unread \subseteq got' \cup Unread'
      <4>1. \A i \in 1..n : i > e => rows[i] \in Unread'
        BY <1>3, <2>1, <2>5 DEF Unread
      <4>2. QED
        BY <1>4, <1>8, <4>1
    <3>2. QED
      BY <1>3, <1>7, <1>11, <2>1, <3>1 DEF Swept, SweepComplete
  <2>7. Passed'
    <3>1. SUFFICES ASSUME kind = "bitrix24"
                   PROVE  /\ Past' \subseteq got' \cup skipped'
                          /\ \A r \in Unread' : top' <= stamp[r]
      BY <1>0, <1>3, <1>4, <2>1 DEF Passed
    <3>2. ASSUME NEW x \in Past' PROVE x \in got' \cup skipped'
      <4>1. PICK i \in 1..n : ~(i > e) /\ rows[i] = x
        BY <1>3, <2>1, <2>5, <3>2 DEF Past
      <4>2. CASE i <= pos
        <5>1. x \in Past
          BY <1>3, <4>1, <4>2 DEF Past
        <5>2. QED
          BY <1>0, <1>3, <1>7, <3>1, <5>1 DEF Passed
      <4>3. CASE i > pos
        <5>1. i \in pos + 1 .. e
          BY <1>3, <4>1, <4>3
        <5>2. QED
          BY <1>4, <1>5, <4>1, <5>1
      <4>4. QED
        BY <1>3, <4>2, <4>3
    <3>3. ASSUME NEW x \in Unread' PROVE top' <= stamp[x]
      <4>1. PICK i \in 1..n : i > e /\ rows[i] = x
        BY <1>3, <2>1, <2>5, <3>3 DEF Unread
      <4>2. QED
        BY <1>9, <3>1, <4>1
    <3>4. QED
      BY <3>2, <3>3
  <2>8. QED
    BY <1>10, <2>2, <2>3, <2>4, <2>6, <2>7 DEF Inv
<1>13. CASE stop
  <2>1. EndLoop /\ (cut \/ n <= e)
    BY <1>1, <1>2, <1>13 DEF Read
  <2>2. due \subseteq got' \cup skipped'
    <3>1. CASE cut
      BY <1>4, <3>1
    <3>2. CASE n <= e
      <4>1. Unread \subseteq Page
        BY <1>3, <1>8, <3>2
      <4>2. QED
        BY <1>4, <1>7, <1>11, <4>1
    <3>3. QED
      BY <2>1, <3>1, <3>2
  <2>3. ASSUME kind = "bitrix24", NEW r \in live, since <= stamp[r], stamp[r] < top'
        PROVE  r \in got' \cup skipped'
    <3>1. PICK i \in 1..n : rows[i] = r
      BY <1>0, <1>3, <2>3 DEF Passed, ToSet
    <3>2. ~(i > e)
      BY <1>3, <1>6, <1>9, <2>3, <3>1
    <3>3. CASE i <= pos
      <4>1. r \in Past
        BY <1>3, <3>1, <3>3 DEF Past
      <4>2. QED
        BY <1>0, <1>3, <1>7, <2>3, <4>1 DEF Passed
    <3>4. CASE i > pos
      <4>1. i \in pos + 1 .. e
        BY <1>3, <3>2, <3>4
      <4>2. QED
        BY <1>4, <1>5, <3>1, <4>1
    <3>5. QED
      BY <1>3, <3>3, <3>4
  <2>4. QED
    BY <1>3, <1>4, <1>6, <1>7, <2>1, <2>2, <2>3, EndLoopKeeps DEF source, window, store
<1>14. QED
  BY <1>12, <1>13

(***************************************************************************)
(* The theorems                                                            *)
(***************************************************************************)
\* Inv is an invariant of the seven connectors' runs and of the source's changes.
THEOREM Inductive == Spec => []Inv
<1>1. Inv /\ [Next]_vars => Inv'
  <2> SUFFICES ASSUME Inv, [Next]_vars PROVE Inv'
    OBVIOUS
  <2>1. CASE UNCHANGED vars
    <3>1. UNCHANGED <<kind, today, live, stamp, changes, began, since, until, lastRun, late,
                      loaded, cursor, unseen, pc, chunk, rows, pos, tries, got, top, due, skipped>>
      BY <2>1 DEF vars, source, window, store
    <3>2. TypeOK' /\ Clock' /\ Once' /\ Sorted' /\ Unread' = Unread /\ Past' = Past
      BY <3>1 DEF Inv, TypeOK, Clock, Once, Sorted, Unread, Past
    <3>3. Asked' /\ Covered'
      BY <3>1 DEF Inv, Asked, FromCursor, LastChunk, Covered, ChunkOf
    <3>4. Swept' /\ Passed' /\ NothingLeftBehind'
      BY <3>1, <3>2 DEF Inv, Swept, SweepComplete, Passed, NothingLeftBehind, Settled
    <3>5. QED
      BY <3>2, <3>3, <3>4 DEF Inv
  <2>2. QED
    BY <2>1, BeginKeeps, ReadPageKeeps, ReadBlankKeeps, RequestFailsKeeps, LoadedKeeps, NotLoadedKeeps,
       TickKeeps, ChangeKeeps DEF Next, SourceChanges
<1>2. QED
  BY <1>1, InitInv, PTL DEF Spec

\* Every variable keeps its type, for any source, page size and calendar.
THEOREM TypeCorrect == Spec => []TypeOK
<1>1. Inv => TypeOK
  BY DEF Inv
<1>2. QED
  BY <1>1, Inductive, PTL

\* The loops read all that was listed for them and is still there, but for what an
\* offset passed over and what came after an answer with no list or no way on, for
\* every page size and every change between two pages.
THEOREM SweepsComplete == Spec => []SweepComplete
<1>1. Inv => SweepComplete
  BY DEF Inv, Swept
<1>2. QED
  BY <1>1, Inductive, PTL

\* Runs that follow each other within from_days_ago, or from Bitrix24's cursor
\* on, leave no record behind, whether they load, fail or die, but for those in
\* unseen: passed over, dropped under a saved cursor, or changed after the day
\* they are asked for had been read.
THEOREM NothingIsLeft == Spec => []NothingLeftBehind
<1>1. Inv => NothingLeftBehind
  BY DEF Inv
<1>2. QED
  BY <1>1, Inductive, PTL

(***************************************************************************)
(* What bounds the loops: by the kind of the step.                         *)
(***************************************************************************)
\* Answers: a page that does not end its loop had rows of the list to give.
LEMMA PageAdvances ==
  ASSUME TypeOK, ReadPage, pc' = "reading"
  PROVE  NextPage \/ NextChunk
<1>0. ASSUME EndLoop PROVE NextChunk
  <2>1. chunk' = chunk + 1 /\ chunk < LastChunk
    BY <1>0 DEF EndLoop
  <2>2. LastChunk \in Int /\ chunk \in Nat
    BY DocTypeAssumption DEF TypeOK, LastChunk
  <2>3. QED
    BY <2>1, <2>2 DEF NextChunk
<1>1. CASE ReadBlank
  BY <1>0, <1>1 DEF ReadBlank
<1>2. CASE ~ReadBlank
  <2>1. PICK stop \in BOOLEAN, cut \in BOOLEAN, next \in Nat :
            /\ Read(stop, next, cut)
            /\ stop => cut \/ Len(rows) <= PageEnd
            /\ ~stop => pos < PageEnd /\ next \in PageEnd .. pos + PageSize
    BY <1>2, LoopShape
  <2>2. PageEnd \in Nat /\ Len(rows) \in Nat /\ pos \in Nat /\ PageEnd <= Len(rows)
    BY <1>2, LoopShape, SizesAssumption DEF TypeOK, PageEnd
  <2>3. CASE stop
    BY <1>0, <2>1, <2>3 DEF Read
  <2>4. CASE ~stop
    <3>1. pos' = next /\ UNCHANGED <<chunk, rows>>
      BY <2>1, <2>4 DEF Read, GoOn
    <3>2. QED
      BY <2>1, <2>2, <2>4, <3>1 DEF NextPage
  <2>5. QED
    BY <2>3, <2>4
<1>3. QED
  BY <1>1, <1>2

\* Failures: what is not the last attempt is one attempt more.
LEMMA FailureAdvances ==
  ASSUME TypeOK, RequestFails, pc' = "reading"
  PROVE  NextAttempt
<1>1. PICK failure \in Failures :
          IF Retries(failure)
          THEN /\ tries' = tries + 1
               /\ UNCHANGED <<pc, chunk, rows, pos, got, top, due, skipped>>
          ELSE Idle
  BY DEF RequestFails
<1>2. Retries(failure)
  BY <1>1 DEF Idle
<1>3. tries < MaxTries /\ tries \in Nat
  BY <1>2 DEF Retries, TypeOK
<1>4. QED
  BY <1>1, <1>2, <1>3, SizesAssumption DEF NextAttempt

\* A run's loop spends attempts, rows or chunks with every answer and every
\* failure, for any page size, number of attempts and service.
THEOREM LoopsGoOn == Spec => LoopsAdvance
<1>1. TypeOK /\ [Next]_vars => [Reads => NextAttempt \/ NextPage \/ NextChunk]_vars
  <2> SUFFICES ASSUME TypeOK, Next, Reads
               PROVE  NextAttempt \/ NextPage \/ NextChunk
    OBVIOUS
  <2>1. pc = "reading" /\ pc' = "reading" /\ UNCHANGED <<today, changes>>
    BY DEF Reads, source
  <2>2. CASE Begin
    BY <2>1, <2>2 DEF Begin
  <2>3. CASE ReadPage
    BY <2>1, <2>3, PageAdvances
  <2>4. CASE RequestFails
    BY <2>1, <2>4, FailureAdvances
  <2>5. CASE Loaded \/ NotLoaded
    BY <2>1, <2>5 DEF Loaded, NotLoaded, Idle
  <2>6. CASE SourceChanges
    <3>1. today \in Nat /\ changes \in Nat
      BY BoundsAssumption DEF TypeOK
    <3>2. today' = today + 1 \/ changes' = changes + 1
      BY <2>6 DEF SourceChanges, Tick, Create, Touch, Alter, Delete, Change
    <3>3. QED
      BY <2>1, <3>1, <3>2
  <2>7. QED
    BY <2>2, <2>3, <2>4, <2>5, <2>6 DEF Next
<1>2. QED
  BY <1>1, TypeCorrect, PTL DEF LoopsAdvance, Spec
=============================================================================
