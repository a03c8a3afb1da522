------------------------------- MODULE Delivery -------------------------------
(***************************************************************************)
(* What _execute does once dlt has loaded: it counts the rows, publishes   *)
(* an export from its staging directory to the user's folder, checks the   *)
(* quality, and tells the result, to the CLI as an exit code.              *)
(*                                                                         *)
(* External: dlt, whose load fills the staging directory of a "files"      *)
(* pipeline or the tables of a "sql" one, and the disk and the database,   *)
(* which may fail at every use.  A file is the number of the load that     *)
(* wrote it, or Broken of that number while only a part of it is there; a  *)
(* table is its files, none if it is not there.                            *)
(* Runs of one pipeline may overlap: chumoli run is a process of its own.  *)
(***************************************************************************)
EXTENDS Integers, FiniteSets

CONSTANTS Run,
          Pipe, NoPipe,
          Files,        \* the pipelines that export files
          Folder, FolderOf,
          Tables,       \* tables are published in the order of their names
          Dispositions, \* of this instance
          Checks,       \* of this instance
          MaxLoads,     \* model bound
          MaxFaults     \* model bound: errors of disk and database, crashes

ASSUME NoPipeAssumption == NoPipe \notin Pipe
ASSUME FilesAssumption == Files \subseteq Pipe /\ FolderOf \in [Pipe -> Folder]
\* merge is published as append is, and checked as replace is.
ASSUME DispositionsAssumption ==
    "replace" \in Dispositions /\ Dispositions \subseteq {"replace", "append", "merge"}

\* "age_only": freshness_max_minutes without a freshness_column.
AllChecks == {"row_count", "not_null", "no_duplicates", "freshness", "age_only"}

ASSUME ChecksAssumption == Checks \subseteq AllChecks
ASSUME BoundsAssumption == Tables \in Nat /\ MaxLoads \in Nat /\ MaxFaults \in Nat

VARIABLES tables,    \* of a pipeline: staged, or in the destination
          visible,   \* the user's folders
          loads, faults,
          pc, pipe, disposition,
          checks, table,   \* QualityConfig: what to check, of which table (0: of all)
          written,   \* the tables of the load
          counted,   \* row_counts
          items,     \* tables still to publish
          todo,      \* files of the table at hand still to copy
          file,      \* the one being written, or 0
          due,       \* checks still to run
          passed,    \* no outcome of the report has failed
          \* only for the properties:
          met,       \* another run had the pipeline or its folder meanwhile
          held,      \* the checks that were run and held
          torn,      \* an error while publishing
          blind      \* the counting missed a table

data == <<tables, visible, loads>>
config == <<pipe, disposition, checks, table, written>>
ghosts == <<met, held, torn, blind>>
copying == <<items, todo, file>>
vars == <<data, faults, pc, config, counted, copying, due, passed, ghosts>>

Table == 1..Tables
PCs == {"free", "count", "publish", "copy", "tree", "walk", "connect", "check", "result"}

Active(r) == pc[r] # "free"
Goto(r, label) == pc' = [pc EXCEPT ![r] = label]
Fault == faults < MaxFaults /\ faults' = faults + 1
NoFault == UNCHANGED faults

Init == /\ tables = [p \in Pipe |-> [t \in Table |-> {}]]
        /\ visible = [f \in Folder |-> [t \in Table |-> {}]]
        /\ loads = 0 /\ faults = 0
        /\ pc = [r \in Run |-> "free"]
        /\ pipe = [r \in Run |-> NoPipe]
        /\ disposition = [r \in Run |-> "replace"]
        /\ checks = [r \in Run |-> {}] /\ table = [r \in Run |-> 0]
        /\ written = [r \in Run |-> {}] /\ counted = [r \in Run |-> {}]
        /\ items = [r \in Run |-> {}] /\ todo = [r \in Run |-> {}]
        /\ file = [r \in Run |-> 0] /\ due = [r \in Run |-> {}]
        /\ passed = [r \in Run |-> TRUE]
        /\ held = [r \in Run |-> {}]
        /\ met = [r \in Run |-> FALSE] /\ torn = [r \in Run |-> FALSE]
        /\ blind = [r \in Run |-> FALSE]

Exports(r) == pipe[r] \in Files
Into(r) == FolderOf[pipe[r]]
There(r) == {t \in Table : tables[pipe[r]][t] # {}}

\* The run is over; what it had in memory is gone.
Over(r) ==
    /\ Goto(r, "free") /\ pipe' = [pipe EXCEPT ![r] = NoPipe]
    /\ disposition' = [disposition EXCEPT ![r] = "replace"]
    /\ checks' = [checks EXCEPT ![r] = {}] /\ table' = [table EXCEPT ![r] = 0]
    /\ written' = [written EXCEPT ![r] = {}] /\ counted' = [counted EXCEPT ![r] = {}]
    /\ items' = [items EXCEPT ![r] = {}] /\ todo' = [todo EXCEPT ![r] = {}]
    /\ file' = [file EXCEPT ![r] = 0] /\ due' = [due EXCEPT ![r] = {}]
    /\ passed' = [passed EXCEPT ![r] = TRUE] /\ held' = [held EXCEPT ![r] = {}]
    /\ met' = [met EXCEPT ![r] = FALSE] /\ torn' = [torn EXCEPT ![r] = FALSE]
    /\ blind' = [blind EXCEPT ![r] = FALSE]

(***************************************************************************)
(* The load                                                                *)
(***************************************************************************)
Meets(p, q) == p = q \/ (p \in Files /\ q \in Files /\ FolderOf[p] = FolderOf[q])

\* pipeline.run loaded the tables ts of p.  (Exports are not checked.)
Load(r, p, d, ts) ==
    LET n == loads + 1
        after(t) == IF d = "replace" THEN {n} ELSE tables[p][t] \cup {n}
        others == {s \in Run \ {r} : Active(s) /\ Meets(p, pipe[s])} IN
    /\ ~Active(r) /\ Goto(r, "count")
    /\ loads < MaxLoads /\ loads' = n
    /\ pipe' = [pipe EXCEPT ![r] = p]
    /\ disposition' = [disposition EXCEPT ![r] = d]
    /\ written' = [written EXCEPT ![r] = ts]
    /\ \E c \in SUBSET Checks, t \in 0..Tables :
           /\ p \in Files => c = {} /\ t = 0
           /\ checks' = [checks EXCEPT ![r] = c] /\ table' = [table EXCEPT ![r] = t]
    /\ tables' = [tables EXCEPT ![p] =
                      [t \in Table |-> IF t \in ts THEN after(t) ELSE @[t]]]
    /\ met' = [s \in Run |-> IF s = r THEN others # {} ELSE met[s] \/ s \in others]
    /\ UNCHANGED <<visible, faults, counted, copying, due, passed, held, torn, blind>>

\* It did not, or has failed jobs: some of its files are there, and the run is
\* over, with nothing published or checked.
LoadFails(p, ts) ==
    /\ loads < MaxLoads /\ loads' = loads + 1 /\ Fault
    /\ tables' = [tables EXCEPT ![p] =
                      [t \in Table |-> IF t \in ts THEN @[t] \cup {loads + 1} ELSE @[t]]]
    /\ met' = [s \in Run |-> met[s] \/ (Active(s) /\ Meets(p, pipe[s]))]
    /\ UNCHANGED <<visible, pc, config, counted, copying, due, passed, held, torn, blind>>

\* get_row_counts: what dlt's trace names; without that the counts of the load
\* packages for files, and SELECT COUNT(*) of every table of the schema for SQL,
\* where an error leaves the packages' counts or those it has so far.
Counts(r) == IF written[r] # {} THEN {written[r]}
             ELSE {IF Exports(r) THEN {} ELSE There(r)}
CountsAfterError(r) == {written[r], {}} \cup (IF Exports(r) THEN {} ELSE SUBSET There(r))

Count(r) ==
    /\ pc[r] = "count"
    /\ \E c \in Counts(r) \cup CountsAfterError(r) :
           /\ IF c \in Counts(r) THEN NoFault ELSE Fault
           /\ counted' = [counted EXCEPT ![r] = c]
           /\ blind' = [blind EXCEPT ![r] = ~(written[r] \subseteq c)]
    /\ \/ /\ Exports(r)
          /\ items' = [items EXCEPT ![r] = There(r)] /\ Goto(r, "publish")
       \/ ~Exports(r) /\ Goto(r, "connect") /\ UNCHANGED items
    /\ UNCHANGED <<data, config, todo, file, due, passed, met, held, torn>>

(***************************************************************************)
(* publish_filesystem_export: table by table; any error ends it and is     *)
(* only logged.                                                            *)
(***************************************************************************)
Item(r) == CHOOSE t \in items[r] : \A u \in items[r] : t <= u
Shown(r, t) == visible[Into(r)][t]
Show(r, t, files) == visible' = [visible EXCEPT ![Into(r)][t] = files]
Staged(r) == tables[pipe[r]][Item(r)]
Broken(n) == 0 - n
Publishes == UNCHANGED <<tables, loads, config, counted, due, passed, met, held, blind>>
GivesUp(r) == /\ torn' = [torn EXCEPT ![r] = TRUE]
              /\ items' = [items EXCEPT ![r] = {}] /\ todo' = [todo EXCEPT ![r] = {}]
              /\ file' = [file EXCEPT ![r] = 0] /\ Goto(r, "result")

\* Variants: rmtree for every disposition; for none.
RemovesAlways(r) == TRUE
RemovesNever(r) == FALSE

Removes(r) == disposition[r] = "replace"

\* rmtree of the visible table.
Remove(r) ==
    /\ pc[r] = "publish" /\ items[r] # {}
    /\ Removes(r) /\ Shown(r, Item(r)) # {}
    /\ \/ NoFault /\ Show(r, Item(r), {}) /\ Goto(r, "copy") /\ UNCHANGED <<copying, torn>>
       \/ /\ Fault /\ GivesUp(r)
          /\ \E left \in SUBSET Shown(r, Item(r)) : Show(r, Item(r), left)
    /\ Publishes

\* The second look at the table, and the listing of what to copy: all of it by
\* copytree, or file by file on top of what is there.
StartCopy(r) ==
    /\ items[r] # {}
    /\ \/ pc[r] = "copy"
       \/ pc[r] = "publish" /\ ~(Removes(r) /\ Shown(r, Item(r)) # {})
    /\ Goto(r, IF Shown(r, Item(r)) = {} THEN "tree" ELSE "walk")
    /\ todo' = [todo EXCEPT ![r] = Staged(r)]
    /\ UNCHANGED <<visible, items, file, torn>> /\ NoFault /\ Publishes

\* An error of copy2: copytree goes on with the other files before it raises.
CopyFails(r, others) ==
    \/ pc[r] = "walk" /\ GivesUp(r)
    \/ /\ pc[r] = "tree" /\ torn' = [torn EXCEPT ![r] = TRUE]
       /\ file' = [file EXCEPT ![r] = 0] /\ todo' = [todo EXCEPT ![r] = others]
       /\ UNCHANGED <<pc, items>>

\* copy2 opens the staged file, which another run may have taken away (or the
\* folder it goes to), and truncates the visible one.
Open(r) ==
    /\ pc[r] \in {"tree", "walk"} /\ file[r] = 0
    /\ \E n \in todo[r] :
           \/ /\ n \in Staged(r) /\ NoFault
              /\ Show(r, Item(r), (Shown(r, Item(r)) \ {n}) \cup {Broken(n)})
              /\ file' = [file EXCEPT ![r] = n]
              /\ todo' = [todo EXCEPT ![r] = @ \ {n}]
              /\ UNCHANGED <<pc, items, torn>>
           \/ /\ IF met[r] THEN NoFault ELSE Fault
              /\ CopyFails(r, todo[r] \ {n})
              /\ UNCHANGED visible
    /\ Publishes

\* ... and writes it, unless another run has removed it meanwhile.
Write(r) ==
    LET shown == Shown(r, Item(r))
        n == file[r] IN
    /\ n # 0
    /\ \/ /\ NoFault
          /\ Show(r, Item(r), IF Broken(n) \in shown THEN (shown \ {Broken(n)}) \cup {n}
                                                    ELSE shown)
          /\ file' = [file EXCEPT ![r] = 0]
          /\ UNCHANGED <<pc, items, todo, torn>>
       \/ Fault /\ CopyFails(r, todo[r]) /\ UNCHANGED visible
    /\ Publishes

\* The table is published; or copytree raises the errors it has collected.
ItemDone(r) ==
    /\ pc[r] \in {"tree", "walk"} /\ file[r] = 0 /\ todo[r] = {}
    /\ \/ /\ ~torn[r] /\ items' = [items EXCEPT ![r] = @ \ {Item(r)}]
          /\ Goto(r, "publish") /\ UNCHANGED <<todo, file, torn>>
       \/ torn[r] /\ GivesUp(r)
    /\ UNCHANGED visible /\ NoFault /\ Publishes

\* The end: a replaced export loses the tables that are not staged; what
\* cannot be removed stays, without a word.
Tidy(r) ==
    LET stale == {t \in Table : tables[pipe[r]][t] = {}} IN
    /\ pc[r] = "publish" /\ items[r] = {}
    /\ \/ /\ disposition[r] # "replace" /\ NoFault
          /\ UNCHANGED <<visible, torn>>
       \/ /\ disposition[r] = "replace"
          /\ \/ /\ NoFault /\ UNCHANGED torn
                /\ visible' = [visible EXCEPT ![Into(r)] =
                                   [t \in Table |-> IF t \in stale THEN {} ELSE @[t]]]
             \/ /\ Fault /\ torn' = [torn EXCEPT ![r] = TRUE]
                /\ \E some \in SUBSET stale :
                       visible' = [visible EXCEPT ![Into(r)] =
                                       [t \in Table |-> IF t \in some THEN {} ELSE @[t]]]
    /\ Goto(r, "result")
    /\ UNCHANGED copying /\ Publishes

(***************************************************************************)
(* run_quality_checks, on one connection                                   *)
(***************************************************************************)
\* Variant: the table's name is taken as it stands.
TargetsAsNamed(r) == {table[r]}

Targets(r) == IF table[r] = 0 THEN counted[r] ELSE {table[r]}

\* sql_client() that raises is an outcome of the report; dlt connects when the
\* client is entered, and an error there is the run's.
Connect(r) ==
    /\ pc[r] = "connect"
    /\ \/ /\ NoFault /\ Goto(r, "check")
          /\ due' = [due EXCEPT ![r] = checks[r] \X Targets(r)]
          /\ UNCHANGED <<config, counted, copying, passed, ghosts>>
       \/ /\ Fault /\ Goto(r, "result") /\ passed' = [passed EXCEPT ![r] = FALSE]
          /\ UNCHANGED <<config, counted, copying, due, ghosts>>
       \/ Fault /\ Over(r)
    /\ UNCHANGED data

\* Duplicates under append; and an age that no column is given for is not asked.
Skipped(r, check) == \/ check = "no_duplicates" /\ disposition[r] = "append"
                     \/ check = "age_only"

\* Variant: a check that cannot be run is left out of the report.
SafelyIfRun(result) == result \in {"held", "error"}

\* _run_check_safely: an error is a failed outcome.
Safely(result) == result = "held"

\* What the query finds; a table that is not there is an error.
Results(r, t) == IF t \in There(r) THEN {"held", "not_met", "error"} ELSE {"error"}

Check(r) ==
    LET next == CHOOSE d \in due[r] : TRUE IN
    /\ pc[r] = "check"
    /\ \/ /\ due[r] = {} /\ Goto(r, "result")
          /\ UNCHANGED <<due, passed, held>> /\ NoFault
       \/ /\ due[r] # {} /\ due' = [due EXCEPT ![r] = @ \ {next}]
          /\ \/ Skipped(r, next[1]) /\ UNCHANGED <<passed, held>> /\ NoFault
             \/ /\ ~Skipped(r, next[1])
                /\ \E result \in Results(r, next[2]) :
                       /\ IF result = "error" /\ next[2] \in There(r) THEN Fault ELSE NoFault
                       /\ passed' = [passed EXCEPT ![r] = @ /\ Safely(result)]
                       /\ held' = [held EXCEPT ![r] =
                                       IF result = "held" THEN @ \cup {next} ELSE @]
          /\ UNCHANGED pc
    /\ UNCHANGED <<data, config, counted, copying, met, torn, blind>>

(***************************************************************************)
(* The end                                                                 *)
(***************************************************************************)
\* Variant: the exit code tells of the load only.
ExitCodeOfLoad(r) == 0

\* chumoli run: 0 only if all checks passed.  (A run that raised ends with 1.)
ExitCode(r) == IF passed[r] THEN 0 ELSE 1

Result(r) == pc[r] = "result" /\ Over(r) /\ UNCHANGED <<data, faults>>

\* The process of the run dies.
Dies(r) == Active(r) /\ Fault /\ Over(r) /\ UNCHANGED data

Publish(r) == Remove(r) \/ StartCopy(r) \/ Open(r) \/ Write(r) \/ ItemDone(r) \/ Tidy(r)
Step(r) == \/ \E p \in Pipe, d \in Dispositions, ts \in SUBSET Table : Load(r, p, d, ts)
           \/ Count(r) \/ Publish(r) \/ Connect(r) \/ Check(r) \/ Result(r) \/ Dies(r)

Next == \/ \E r \in Run : Step(r)
        \/ \E p \in Pipe, ts \in SUBSET Table : LoadFails(p, ts)

Spec == Init /\ [][Next]_vars

(***************************************************************************)
(* Properties                                                              *)
(***************************************************************************)
FilesOfLoads == [Table -> SUBSET (1..MaxLoads)]
FilesToSee == [Table -> SUBSET ((0 - MaxLoads)..MaxLoads)]
TypeOK == /\ tables \in [Pipe -> FilesOfLoads] /\ visible \in [Folder -> FilesToSee]
          /\ loads \in 0..MaxLoads /\ faults \in 0..MaxFaults
          /\ pc \in [Run -> PCs] /\ pipe \in [Run -> Pipe \cup {NoPipe}]
          /\ disposition \in [Run -> Dispositions]
          /\ checks \in [Run -> SUBSET Checks] /\ table \in [Run -> 0..Tables]
          /\ written \in [Run -> SUBSET Table] /\ counted \in [Run -> SUBSET Table]
          /\ items \in [Run -> SUBSET Table] /\ todo \in [Run -> SUBSET (1..MaxLoads)]
          /\ file \in [Run -> 0..MaxLoads] /\ due \in [Run -> SUBSET (Checks \X Table)]
          /\ passed \in [Run -> BOOLEAN]
          /\ held \in [Run -> SUBSET (Checks \X Table)]
          /\ met \in [Run -> BOOLEAN] /\ torn \in [Run -> BOOLEAN]
          /\ blind \in [Run -> BOOLEAN]

\* Whatever earlier publications left (a hole between rmtree and copytree, half
\* a table, a broken file, files of another disposition or pipeline), the next
\* one that meets no error and no other run makes the folder what is staged:
\* exactly that for replace, at least that for append and merge.
Published == \A r \in Run :
    pc[r] = "result" /\ Exports(r) /\ ~torn[r] /\ ~met[r] =>
        \A t \in Table :
            LET staged == tables[pipe[r]][t] IN
            IF disposition[r] = "replace" THEN Shown(r, t) = staged
                                          ELSE staged \subseteq Shown(r, t)

\* What a reader of an export may lose, whatever fails and whoever else runs: a
\* replace run takes whole tables away while it publishes; a run that appends or
\* merges, at most the one file that it is about to write again, of the table at
\* hand, and only one that is staged (so that the next publication restores it).
Replaces(r, f) == pc[r] = "publish" /\ Into(r) = f /\ disposition[r] = "replace"
Rewrites(r, f, t, n) == /\ file[r] = 0 /\ file'[r] = n
                        /\ Into(r) = f /\ t = Item(r) /\ n \in Staged(r)
Lost(f, t) == {n \in visible[f][t] : n > 0} \ visible'[f][t]
OnlyReplaceRemoves == [][\A f \in Folder, t \in Table : \A n \in Lost(f, t) :
    \E r \in Run : Replaces(r, f) \/ Rewrites(r, f, t, n)]_vars

\* An exit code of 0 is a promise (cli.py:50): every configured check held, of
\* every table that the load wrote, or of the one that was named.  Excused are
\* exports, which are not checked; duplicates under append; an age without a
\* column; and a counting that missed a table.  What the load did not write may
\* go unchecked, so that an empty load of a new pipeline passes row_count.
QualityHonest == [][\A r \in Run :
    pc[r] = "result" /\ pc'[r] = "free" /\ ExitCode(r) = 0 /\ ~Exports(r) /\ ~blind[r] =>
        \A check \in checks[r], t \in IF table[r] = 0 THEN written[r] ELSE {table[r]} :
            Skipped(r, check) \/ <<check, t>> \in held[r]]_vars
=============================================================================
