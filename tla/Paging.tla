-------------------------------- MODULE Paging --------------------------------
(***************************************************************************)
(* The connectors that read a service page by page, and the runs that      *)
(* follow each other: what a run asks for, the loop that reads the answer  *)
(* while the records change, the retries of core/retry_policy.py, and what *)
(* the destination has after the run is loaded, or is not.                 *)
(*                                                                         *)
(* External: the service, which answers with the records that match, in an *)
(* order of its own, or with a body that has no list; and dlt, which saves *)
(* the cursor of an incremental resource when all is read, and then loads  *)
(* all of it or nothing.                                                   *)
(* Time is days in the service's calendar.  A record's stamp is the date   *)
(* the service filters on: of its last change for Bitrix24 and MoySklad,   *)
(* of its creation for Payme, Click, Uzum and Didox; Meta has no filter.   *)
(* Payme's filter on the state is applied to what is read: a receipt that  *)
(* it leaves out counts as read, in the state it had.                      *)
(* Facts that only the properties use: due, skipped, unseen, late.         *)
(***************************************************************************)
EXTENDS Integers, FiniteSets, SequencesExt

CONSTANTS Record,
          Kind,        \* the connectors of this instance
          PageSize,    \* 50, 100 or 1000 in the code
          MaxTries,    \* stop_after_attempt(3)
          Days,        \* from_days_ago
          DocType,     \* Didox: the place of a record's type in doc_types
          DocTypes,
          LastDay,     \* model bound: the calendar
          MaxChanges   \* model bound: changes of the source

Kinds == {"bitrix24", "moysklad", "facebook_ads", "payme_uz", "click_uz",
          "uzum_market", "didox"}

ASSUME RecordAssumption == IsFiniteSet(Record)
ASSUME KindAssumption == Kind \subseteq Kinds
ASSUME SizesAssumption == PageSize \in Nat \ {0} /\ MaxTries \in Nat \ {0}
ASSUME DaysAssumption == Days \in Nat \ {0}
ASSUME DocTypeAssumption == DocTypes \in Nat \ {0} /\ DocType \in [Record -> 1..DocTypes]
ASSUME BoundsAssumption == LastDay \in Nat /\ LastDay > Days + 1 /\ MaxChanges \in Nat

VARIABLES kind, today, changes,
          live,     \* the records of the source
          stamp,    \* their dates
          loaded,   \* records whose current state is in the destination
          cursor,   \* what dlt saved of modified.last_value; 0 before
          pc,       \* idle, reading, or read and not yet loaded
          began, since, until,   \* the run's day and window
          chunk,    \* Payme's day or Didox's document type
          rows,     \* the service's answer list to the current request
          pos,      \* rows of it asked for so far: start, offset, page * size
          tries, got, top,
          due, skipped, unseen, lastRun, late

source == <<today, live, stamp, changes>>
window == <<began, since, until, lastRun, late>>
store == <<loaded, cursor, unseen>>
vars == <<kind, source, window, store, pc, chunk, rows, pos, tries, got, top, due,
          skipped>>

\* The day the system is installed: no record is older, no cursor is 0.
DayOne == Days + 2

(***************************************************************************)
(* What a run asks for.                                                    *)
(***************************************************************************)
Window(s, u) == [since |-> s, until |-> u]
Unbounded == LastDay

\* modified.start_value: at first from_days_ago days, counted in Tashkent, where
\* it may be a day before or after the portal's; then the saved cursor.
BitrixWindows == {Window(IF cursor > 0 THEN cursor ELSE local - Days, Unbounded) :
                      local \in today - 1 .. today + 1}
MoySkladWindow == Window(today - Days, Unbounded)
FacebookWindow == Window(0, Unbounded)

\* from_days_ago days that end yesterday, counted in Tashkent, which may be a
\* day ahead of UTC; both ends are then rounded out to days of UTC.
\* Variant: the days of Tashkent as they are.
PaymeWindowsAsCounted == {Window(local - Days, local - 1) : local \in {today, today + 1}}

PaymeWindows == {Window(local - Days - 1, local - 1) : local \in {today, today + 1}}

\* date.today() of the server, which may be a day behind the service.
DayWindows == {Window(local - Days, local) : local \in {today - 1, today}}
ClickWindows == DayWindows
UzumWindows == DayWindows
DidoxWindows == DayWindows

Windows == CASE kind = "bitrix24" -> BitrixWindows
             [] kind = "moysklad" -> {MoySkladWindow}
             [] kind = "facebook_ads" -> {FacebookWindow}
             [] kind = "payme_uz" -> PaymeWindows
             [] kind = "click_uz" -> ClickWindows
             [] kind = "uzum_market" -> UzumWindows
             [] kind = "didox" -> DidoxWindows

\* Payme is asked day by day, Didox type by type.
FirstChunk(s) == IF kind = "payme_uz" THEN s ELSE 1
LastChunk == CASE kind = "payme_uz" -> until
               [] kind = "didox" -> DocTypes
               [] OTHER -> 1

Matches(r, date, s, u, c) == /\ s <= date /\ date <= u
                             /\ kind = "payme_uz" => date = c
                             /\ kind = "didox" => DocType[r] = c

\* The service's list: by date for Bitrix24, which asks for it, else any order.
Answers(s, u, c) ==
    {list \in SetToSeqs({r \in live : Matches(r, stamp[r], s, u, c)}) :
        kind = "bitrix24" => \A i, j \in DOMAIN list :
                                 i < j => stamp[list[i]] <= stamp[list[j]]}

Idle == /\ pc' = "idle" /\ chunk' = 0 /\ rows' = <<>> /\ pos' = 0 /\ tries' = 1
        /\ got' = {} /\ top' = 0 /\ due' = {} /\ skipped' = {}

Init == /\ kind \in Kind
        /\ today = DayOne /\ changes = 0
        /\ live \in SUBSET Record
        /\ stamp = [r \in Record |-> DayOne]
        /\ loaded = {} /\ cursor = 0 /\ unseen = {}
        /\ began = 0 /\ since = 0 /\ until = 0 /\ lastRun = DayOne /\ late = FALSE
        /\ pc = "idle" /\ chunk = 0 /\ rows = <<>> /\ pos = 0 /\ tries = 1
        /\ got = {} /\ top = 0 /\ due = {} /\ skipped = {}

\* build_dlt_source, and the first request's list.
Begin == \E w \in Windows :
    /\ pc = "idle" /\ pc' = "reading"
    /\ began' = today /\ since' = w.since /\ until' = w.until
    /\ chunk' = FirstChunk(w.since) /\ pos' = 0 /\ tries' = 1
    /\ rows' \in Answers(w.since, w.until, FirstChunk(w.since))
    /\ got' = {} /\ top' = w.since /\ due' = ToSet(rows') /\ skipped' = {}
    /\ UNCHANGED <<kind, source, store, lastRun, late>>

(***************************************************************************)
(* The loops.  A page is got; then the loop goes on, or ends: for one      *)
(* chunk, or for the run.                                                  *)
(***************************************************************************)
PageEnd == IF pos + PageSize < Len(rows) THEN pos + PageSize ELSE Len(rows)
Page == {rows[i] : i \in pos + 1 .. PageEnd}
Short == PageEnd < pos + PageSize
Empty == PageEnd <= pos
More == pos + PageSize < Len(rows)

Reading(k) == pc = "reading" /\ kind = k

GoOn(next) == /\ pos' = next
              /\ UNCHANGED <<pc, chunk, rows, due>>

EndLoop == \/ /\ chunk >= LastChunk
              /\ pc' = "read" /\ rows' = <<>> /\ pos' = 0
              /\ UNCHANGED <<chunk, due>>
           \/ /\ chunk < LastChunk
              /\ chunk' = chunk + 1 /\ pos' = 0
              /\ rows' \in Answers(since, until, chunk + 1)
              /\ due' = due \cup ToSet(rows')
              /\ UNCHANGED pc

Latest(a, S) == CHOOSE d \in S \cup {a} : \A e \in S \cup {a} : e <= d

\* cut: the service gave no way to ask for the rest.
Read(stop, next, cut) ==
    /\ got' = got \cup Page
    /\ top' = IF kind = "bitrix24" THEN Latest(top, {stamp[r] : r \in Page}) ELSE top
    /\ skipped' = IF cut THEN skipped \cup (due \ got') ELSE skipped
    /\ tries' = 1
    /\ IF stop THEN EndLoop ELSE GoOn(next)
    /\ UNCHANGED <<kind, source, window, store>>

\* `next` of the answer: ahead, absent (also when there is more), or 0.
NextStart(next) == IF next = "zero" THEN 0 ELSE pos + PageSize
\* Variant: no `next`, no more.
BitrixStopsWhenAbsent(next) == Empty \/ next = "absent" \/ NextStart(next) <= pos

BitrixStops(next) == \/ Empty
                     \/ next = "absent" /\ Short
                     \/ NextStart(next) <= pos
ReadBitrix == /\ Reading("bitrix24")
              /\ \E next \in {"absent", "zero"} \cup (IF More THEN {"ahead"} ELSE {}) :
                     Read(BitrixStops(next), NextStart(next), next = "zero")

\* meta.size is used where the answer has it.
MoySkladStops(counted) == \/ Empty
                          \/ counted /\ PageEnd >= Len(rows)
                          \/ Short
ReadMoySklad == /\ Reading("moysklad")
                /\ \E counted \in BOOLEAN : Read(MoySkladStops(counted), PageEnd, FALSE)

\* The cursor stands between rows; one that repeats is not followed.
\* Variant: any cursor is followed.
FacebookStopsAtEnd(after) == Empty \/ after = "absent"

FacebookStops(after) == Empty \/ after \in {"absent", "repeated"}
ReadFacebook == /\ Reading("facebook_ads")
                /\ \E after \in {IF More THEN "ahead" ELSE "absent"}
                                \cup (IF pos > 0 THEN {"repeated"} ELSE {}) :
                       Read(FacebookStops(after),
                            IF after = "repeated" THEN pos ELSE PageEnd,
                            after = "repeated")

ShortStops == Empty \/ Short
ReadClick == Reading("click_uz") /\ Read(ShortStops, pos + PageSize, FALSE)
ReadUzum == Reading("uzum_market") /\ Read(ShortStops, pos + PageSize, FALSE)
ReadPayme == Reading("payme_uz") /\ Read(ShortStops, pos + PageSize, FALSE)

\* totalPages counts as 1 where the answer does not have it.
DidoxStops(counted) == Empty \/ ~counted \/ pos + PageSize >= Len(rows)
ReadDidox == /\ Reading("didox")
             /\ \E counted \in BOOLEAN :
                    Read(DidoxStops(counted), pos + PageSize, ~counted)

\* A status 200 without a list, which every loop takes for the end: what it has
\* not read it never asks for.
ReadBlank == /\ pc = "reading"
             /\ skipped' = skipped \cup (due \ got) /\ tries' = 1
             /\ EndLoop
             /\ UNCHANGED <<kind, source, window, store, got, top>>

ReadPage == \/ ReadBitrix \/ ReadMoySklad \/ ReadFacebook \/ ReadClick
            \/ ReadUzum \/ ReadPayme \/ ReadDidox \/ ReadBlank

\* The connectors that look for an error in an answer with status 200; to the
\* others such an answer is one without a list.
LooksForErrors == {"bitrix24", "moysklad", "payme_uz", "click_uz"}

\* A status, a network error, a body that is no JSON, an error told in the body.
Failures == {"status_429", "status_5xx", "status_4xx", "network", "unreadable"}
            \cup (IF kind \in LooksForErrors THEN {"error_body"} ELSE {})
IsTransient(failure) == failure \in {"status_429", "status_5xx", "network"}
\* Variant: no last attempt.
RetriesAlways(failure) == IsTransient(failure)

Retries(failure) == IsTransient(failure) /\ tries < MaxTries
RequestFails ==
    /\ pc = "reading"
    /\ \E failure \in Failures :
           IF Retries(failure)
           THEN /\ tries' = tries + 1
                /\ UNCHANGED <<pc, chunk, rows, pos, got, top, due, skipped>>
           ELSE Idle
    /\ UNCHANGED <<kind, source, window, store>>

(***************************************************************************)
(* dlt: the cursor is saved when all is read; then that is loaded, or not. *)
(***************************************************************************)
\* Too late for the window to reach back to the last run.  Bitrix24's first
\* window may begin a day later than the portal counts.
Overdue == /\ kind # "facebook_ads"
           /\ kind = "bitrix24" => cursor = 0
           /\ began - lastRun > (IF kind = "bitrix24" THEN Days - 1 ELSE Days)

Loaded == /\ pc = "read"
          /\ loaded' = loaded \cup got
          /\ cursor' = IF kind = "bitrix24" THEN top ELSE cursor
          /\ unseen' = (unseen \cup skipped) \ got
          /\ lastRun' = began /\ late' = (late \/ Overdue)
          /\ Idle
          /\ UNCHANGED <<kind, source, began, since, until>>

\* The load fails, or the process dies before its end.  From a run that was read
\* to its end Bitrix24's cursor may be saved: the next run starts there, and
\* before that drops the package (_clear_pending_packages).  run_pipeline's own
\* second attempt counts as a run.
NotLoaded ==
    /\ pc # "idle"
    /\ \/ UNCHANGED <<store, late>>
       \/ /\ pc = "read" /\ kind = "bitrix24"
          /\ cursor' = top
          /\ unseen' = unseen \cup ((got \cup skipped) \ loaded)
          /\ late' = (late \/ Overdue)
          /\ UNCHANGED loaded
    /\ Idle
    /\ UNCHANGED <<kind, source, began, since, until, lastRun>>

(***************************************************************************)
(* The source changes, between any two requests.                           *)
(***************************************************************************)
Change == changes < MaxChanges /\ changes' = changes + 1
Listed(r) == r \in ToSet(rows)
Place(r) == CHOOSE i \in DOMAIN rows : rows[i] = r
Without(r) == RemoveAt(rows, Place(r))
Joins(r) == pc = "reading" /\ Matches(r, today, since, until, chunk)
Places == IF kind = "bitrix24" THEN {Len(rows) + 1} ELSE 1 .. Len(rows) + 1

\* Rows in front of the next page: an offset counts them, a cursor follows.
Follows == kind = "facebook_ads"
InFront(i) == i <= pos
Stays(r) == skipped' = skipped \ {r} /\ UNCHANGED <<rows, pos>>

\* What joins in front is for a later run; Bitrix24's cursor may pass it.
Enter(r) == \E i \in Places :
    /\ rows' = InsertAt(rows, i, r)
    /\ pos' = IF Follows /\ InFront(i) THEN pos + 1 ELSE pos
    /\ skipped' = IF kind = "bitrix24" /\ InFront(i) THEN skipped \cup {r}
                                                    ELSE skipped \ {r}

\* Row r leaves its place for the list `after`.  An offset then has in front of
\* it, unread, the row that comes to stand at pos, and r if it is there again.
Leave(r, after) ==
    LET passed == IF Follows \/ ~InFront(Place(r)) THEN {}
                  ELSE {after[i] : i \in {j \in DOMAIN after :
                                  j = pos \/ (j < pos /\ after[j] = r)}} IN
    /\ rows' = after
    /\ pos' = IF Follows /\ InFront(Place(r)) THEN pos - 1 ELSE pos
    /\ skipped' = (skipped \ {r}) \cup passed

Steady == UNCHANGED <<kind, today, window, cursor, pc, chunk, tries, top>>

Create(r) == /\ Change /\ r \notin live
             /\ live' = live \cup {r} /\ stamp' = [stamp EXCEPT ![r] = today]
             /\ IF Joins(r) THEN Enter(r) ELSE Stays(r)
             /\ UNCHANGED <<loaded, unseen, got, due>> /\ Steady

Forget(r) == loaded' = loaded \ {r} /\ got' = got \ {r}

\* What a later page of the list still has stays due.
Ahead(r) == Listed(r) /\ ~InFront(Place(r))
DueAhead(r) == due' = IF Ahead(r) THEN due ELSE due \ {r}

\* A change that the stamp follows; two changes of a record have two dates.
\* What Bitrix24 has listed moves to the end of its list, and is still due.
DatedByCreation == {"payme_uz", "click_uz", "uzum_market", "didox"}
Touch(r) == /\ Change /\ r \in live
            /\ kind \notin DatedByCreation
            /\ kind = "bitrix24" => stamp[r] # today
            /\ stamp' = [stamp EXCEPT ![r] = today]
            /\ Forget(r) /\ unseen' = unseen \ {r}
            /\ \/ /\ kind = "bitrix24" /\ Listed(r)
                  /\ Leave(r, Append(Without(r), r))
                  /\ UNCHANGED due
               \/ /\ kind # "bitrix24" \/ ~Listed(r)
                  /\ IF Joins(r) /\ ~Listed(r) THEN Enter(r) ELSE Stays(r)
                  /\ DueAhead(r)
            /\ UNCHANGED live /\ Steady

\* A change of an order, a receipt or a document: its date and its place stay,
\* and no run is sure to ask again for a day that one has asked for.
AskedUntil == IF pc = "idle" THEN lastRun ELSE began
Alter(r) == /\ Change /\ r \in live
            /\ kind \in DatedByCreation
            /\ Forget(r)
            /\ unseen' = IF stamp[r] < AskedUntil THEN unseen \cup {r} ELSE unseen \ {r}
            /\ DueAhead(r) /\ Stays(r)
            /\ UNCHANGED <<live, stamp>> /\ Steady

Delete(r) == /\ Change /\ r \in live
             /\ live' = live \ {r} /\ due' = due \ {r}
             /\ Forget(r) /\ unseen' = unseen \ {r}
             /\ IF Listed(r) THEN Leave(r, Without(r)) ELSE Stays(r)
             /\ UNCHANGED stamp /\ Steady

Tick == /\ today < LastDay /\ today' = today + 1
        /\ UNCHANGED <<kind, live, stamp, changes, window, store, pc, chunk, rows, pos,
                       tries, got, top, due, skipped>>

SourceChanges == \/ Tick
                 \/ \E r \in Record : Create(r) \/ Touch(r) \/ Alter(r) \/ Delete(r)
Next == Begin \/ ReadPage \/ RequestFails \/ Loaded \/ NotLoaded \/ SourceChanges

\* Every request has an answer or a timeout (httpx timeouts of 30 to 90 s).
Spec == Init /\ [][Next]_vars /\ WF_vars(ReadPage \/ RequestFails)

(***************************************************************************)
(* Properties.                                                             *)
(***************************************************************************)
TypeOK == /\ kind \in Kinds /\ today \in Nat /\ changes \in 0..MaxChanges
          /\ live \in SUBSET Record /\ stamp \in [Record -> Nat]
          /\ loaded \in SUBSET live /\ unseen \in SUBSET live /\ cursor \in 0..today
          /\ pc \in {"idle", "reading", "read"}
          /\ began \in Nat /\ since \in Nat /\ until \in Nat /\ chunk \in Nat
          /\ rows \in Seq(live) /\ pos \in Nat /\ tries \in 1..MaxTries
          /\ got \in SUBSET live /\ due \in SUBSET live /\ skipped \in SUBSET live
          /\ top \in 0..today /\ lastRun \in Nat /\ late \in BOOLEAN

\* A run that read to its end has read every record that its requests listed
\* and that is still there, whatever was created, changed or deleted between
\* two pages and however often a page was asked again.  The exceptions are what
\* an offset passed over when a row in front of it left, and what comes after an
\* answer without a list or with no way on (a `next` of 0, a repeated cursor, no
\* totalPages): with those the run ends as if it had read all.
SweepComplete == pc = "read" => due \subseteq got \cup skipped

\* Runs that follow each other within from_days_ago leave no record behind: one
\* whose date later runs will not ask for is in the destination as it is now.
\* With Bitrix24's saved cursor that holds after any outage, but for the first
\* run.  The exceptions (unseen): what SweepComplete excepts, what was read and
\* not loaded after Bitrix24's cursor was saved, and an order, receipt or
\* document that changed after a run had asked for its day.
Settled(r) == ~late /\ stamp[r] < (IF kind = "bitrix24" THEN cursor ELSE lastRun)
NothingLeftBehind == \A r \in live : Settled(r) => r \in loaded \cup unseen

\* What bounds a run's loop, also when the service's cursor does not move: an
\* answer or a failure that leaves the run reading spends one of the attempts at
\* the same page, or goes on from rows the list still had, or takes up the next
\* day or document type, and never one behind the last.
Reads == pc = "reading" /\ pc' = "reading" /\ UNCHANGED source
NextAttempt == tries' = tries + 1 /\ tries' <= MaxTries /\ UNCHANGED <<chunk, rows, pos>>
NextPage == pos < Len(rows) /\ pos' > pos /\ UNCHANGED <<chunk, rows>>
NextChunk == chunk' = chunk + 1 /\ chunk' <= LastChunk
LoopsAdvance == [][Reads => NextAttempt \/ NextPage \/ NextChunk]_vars

\* Every run's loop ends, also when the service's cursor does not move.
RunsEnd == pc = "reading" ~> pc # "reading"
===============================================================================
