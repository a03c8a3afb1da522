-------------------------------- MODULE Loads --------------------------------
(***************************************************************************)
(* Loads in one API process: _execute of core/pipeline_runner.py, from the *)
(* guard's insert to its pop.  RunService has it as one step; here are the *)
(* parts that meet other loads and other times:                            *)
(*   - the pending packages in the pipeline's working directory, which     *)
(*     outlive loads and crashes, and the one retry that clears them;      *)
(*   - os.environ and tracemalloc, which all loads of the process share.   *)
(*                                                                         *)
(* dlt is external: pipeline.run over pending packages refuses, or loads   *)
(* them in place of the source; otherwise it extracts, normalizes and      *)
(* loads.  abort_packages may fail on a corrupt package, or return without *)
(* having removed it.  What is left outside the four directories that are  *)
(* wiped (files in normalize/extracted, say) only abort_packages removes.  *)
(* Which rows a package holds is reduced to whose they are: the load's     *)
(* own, or those an earlier load left.                                     *)
(***************************************************************************)
EXTENDS Naturals

CONSTANTS Name,         \* pipeline names
          NoName,
          Load,         \* calls of _execute
          MaxFaults,    \* model bound: errors of sources, dlt, disks, checks
          MaxRestarts   \* model bound: crashes of the process

ASSUME NamesAssumption == NoName \notin Name
ASSUME LimitsAssumption == MaxFaults \in Nat /\ MaxRestarts \in Nat

VARIABLES packages,  \* what the working directory of a pipeline holds
          plain,     \* NORMALIZE__DATA_WRITER__DISABLE_COMPRESSION is set
          tracing,   \* tracemalloc is on
          pc, name, kind,
          tries,     \* calls of pipeline.run
          outcome,   \* a result (ok, failed) or an exception (raised)
          rows,      \* whose rows pipeline.run took up
          wrote,     \* how it wrote the files
          hit,       \* loads that met an error of their own, or a recovery
          missed,    \* loads that met leftovers which the clearing did not reach
          unknown,   \* loads whose error over leftovers was not recognised
          faults, restarts

vars == <<packages, plain, tracing, pc, name, kind, tries, outcome, rows, wrote,
          hit, missed, unknown, faults, restarts>>

\* "beyond": leftovers in none of the four directories that are wiped.
Packages == {"none", "whole", "corrupt", "beyond"}
\* csv and binary (parquet, jsonl) files go to filesystem or s3; a table goes
\* to a database, whose loads leave the environment alone.
Kinds == {"csv", "binary", "table"}
PCs == {"free", "build", "setenv", "clear", "trace", "extract", "load", "reclear",
        "stop", "check", "done", "lost"}

Live(r) == pc[r] \notin {"free", "done", "lost"}
InWorkingDir(r) == pc[r] \in {"clear", "extract", "load", "reclear"}
Tracing(r) == pc[r] \in {"extract", "load", "reclear", "stop"}
Goto(r, label) == pc' = [pc EXCEPT ![r] = label]
Keep(r, p) == packages' = [packages EXCEPT ![name[r]] = p]
progress == <<tries, outcome, rows, wrote>>
leftovers == <<missed, unknown>>

\* An error that is the load's own: it counts against the model's bound.
Fault(r) == /\ faults < MaxFaults
            /\ faults' = faults + 1
            /\ hit' = hit \cup {r}
NoFault == UNCHANGED <<hit, faults>>

\* _execute is over: what it had in memory is gone.
Ends(r) == /\ Goto(r, "done")
           /\ name' = [name EXCEPT ![r] = NoName]
           /\ tries' = [tries EXCEPT ![r] = 0]

Init == /\ packages \in [Name -> Packages]   \* left by an earlier process
        /\ plain = FALSE /\ tracing = FALSE
        /\ pc = [r \in Load |-> "free"]
        /\ name = [r \in Load |-> NoName]
        /\ kind = [r \in Load |-> "table"]
        /\ tries = [r \in Load |-> 0]
        /\ outcome = [r \in Load |-> "none"]
        /\ rows = [r \in Load |-> "none"]
        /\ wrote = [r \in Load |-> "none"]
        /\ hit = {} /\ missed = {} /\ unknown = {}
        /\ faults = 0 /\ restarts = 0

(* Before the load *)

\* run_pipeline_by_name calls _execute: the guard admits one load of a pipeline.
Begin(r, n, k) ==
    /\ pc[r] = "free"
    /\ \A s \in Load : Live(s) => name[s] # n
    /\ name' = [name EXCEPT ![r] = n]
    /\ kind' = [kind EXCEPT ![r] = k]
    /\ Goto(r, "build")
    /\ UNCHANGED <<packages, plain, tracing, progress, hit, leftovers, faults, restarts>>

\* build_dlt_source and build_dlt_pipeline may raise, out of _execute.
Build(r) ==
    /\ pc[r] = "build"
    /\ \/ NoFault /\ Goto(r, "setenv") /\ UNCHANGED <<name, tries, outcome>>
       \/ Fault(r) /\ Ends(r) /\ outcome' = [outcome EXCEPT ![r] = "raised"]
    /\ UNCHANGED <<packages, plain, tracing, kind, rows, wrote, leftovers, restarts>>

\* Variant: a load to a database unsets it as well.
SetEnvAlways(r) ==
    /\ pc[r] = "setenv"
    /\ plain' = (kind[r] = "csv")
    /\ Goto(r, "clear")
    /\ UNCHANGED <<packages, tracing, name, kind, progress, hit, leftovers, faults, restarts>>

SetEnv(r) ==
    /\ pc[r] = "setenv"
    /\ plain' = CASE kind[r] = "csv" -> TRUE
                  [] kind[r] = "binary" -> FALSE
                  [] kind[r] = "table" -> plain
    /\ Goto(r, "clear")
    /\ UNCHANGED <<packages, tracing, name, kind, progress, hit, leftovers, faults, restarts>>

(* _clear_pending_packages.  A call that did not raise is trusted unless   *)
(* the clearing is aggressive; one that raised, or an aggressive one, also *)
(* wipes load/normalized, load/new, normalize/normalized and extract.      *)
(* Every error on the way is swallowed.  (Where the working directory does *)
(* not exist, nothing is wiped and nothing is pending.)                    *)
LeftBy(p, aggressive) ==
    CASE p \in {"none", "whole"} -> {"none"}
      [] p = "corrupt" -> {"none", "beyond"} \cup (IF aggressive THEN {} ELSE {p})
      [] p = "beyond" -> {"none", p}

\* Neither the call nor the wipe (rmtree with ignore_errors) got through.
LeftByDiskError(p) == IF p = "none" THEN {"none"} ELSE {p, "corrupt", "beyond"}

ClearPending(r, aggressive) ==
    \/ NoFault /\ \E p \in LeftBy(packages[name[r]], aggressive) : Keep(r, p)
    \/ Fault(r) /\ \E p \in LeftByDiskError(packages[name[r]]) : Keep(r, p)

\* Variant: the clearing before a load forgotten.
ClearForgotten(r) ==
    /\ pc[r] = "clear"
    /\ Goto(r, "trace")
    /\ UNCHANGED <<packages, plain, tracing, name, kind, progress, hit, leftovers, faults, restarts>>

Clear(r) ==
    /\ pc[r] = "clear"
    /\ ClearPending(r, FALSE)
    /\ Goto(r, "trace")
    /\ UNCHANGED <<plain, tracing, name, kind, progress, leftovers, restarts>>

Trace(r) ==
    /\ pc[r] = "trace"
    /\ tracing' = TRUE
    /\ Goto(r, "extract")
    /\ UNCHANGED <<packages, plain, name, kind, progress, hit, leftovers, faults, restarts>>

(* pipeline.run *)

\* Variant: every recognised error is answered with one more try.
RunRaisesForever(r, pending) ==
    \/ pending /\ Goto(r, "reclear") /\ UNCHANGED outcome
    \/ ~pending /\ Goto(r, "stop") /\ outcome' = [outcome EXCEPT ![r] = "raised"]

\* The except clause: an error that names pending packages or a violated
\* constraint (_is_pending_or_constraint_error) is recovered from once.
RunRaises(r, pending) ==
    \/ /\ pending /\ tries'[r] = 1
       /\ Goto(r, "reclear")
       /\ UNCHANGED outcome
    \/ /\ ~(pending /\ tries'[r] = 1)
       /\ Goto(r, "stop")
       /\ outcome' = [outcome EXCEPT ![r] = "raised"]

\* Extraction and normalization of the source; the files are written here,
\* the way the environment says now.
Extract(r) ==
    /\ packages[name[r]] = "none"
    /\ UNCHANGED leftovers
    /\ \/ /\ NoFault /\ Keep(r, "whole") /\ Goto(r, "load")
          /\ rows' = [rows EXCEPT ![r] = "own"]
          /\ wrote' = [wrote EXCEPT ![r] = IF plain THEN "plain" ELSE "packed"]
          /\ UNCHANGED outcome
       \/ /\ Fault(r)
          /\ \E p \in Packages : Keep(r, p)
          /\ \E pending \in BOOLEAN : RunRaises(r, pending)
          /\ UNCHANGED <<rows, wrote>>

\* Something is pending: dlt takes it up in place of the source, extracted files
\* to be normalized now, or refuses; the text of the error decides on the retry.
Resume(r) ==
    /\ packages[name[r]] # "none"
    /\ missed' = IF packages[name[r]] = "beyond" THEN missed \cup {r} ELSE missed
    /\ \/ /\ packages[name[r]] = "whole"
          /\ rows' = [rows EXCEPT ![r] = "old"]
          /\ Goto(r, "load")
          /\ UNCHANGED <<packages, wrote, outcome, unknown>>
       \/ /\ packages[name[r]] = "beyond"
          /\ rows' = [rows EXCEPT ![r] = "old"]
          /\ wrote' = [wrote EXCEPT ![r] = IF plain THEN "plain" ELSE "packed"]
          /\ Keep(r, "whole") /\ Goto(r, "load")
          /\ UNCHANGED <<outcome, unknown>>
       \/ /\ \E pending \in BOOLEAN :
                 /\ RunRaises(r, pending)
                 /\ unknown' = IF pending THEN unknown ELSE unknown \cup {r}
          /\ UNCHANGED <<packages, rows, wrote>>
    /\ UNCHANGED <<hit, faults>>

RunPipeline(r) ==
    /\ pc[r] = "extract"
    /\ tries' = [tries EXCEPT ![r] = @ + 1]
    /\ Extract(r) \/ Resume(r)
    /\ UNCHANGED <<plain, tracing, name, kind, restarts>>

\* The package reaches the destination, completes with failed jobs, or raises
\* and stays behind; one that a recovery took away, or left in pieces, raises.
LoadPackage(r) ==
    /\ pc[r] = "load"
    /\ UNCHANGED <<plain, tracing, name, kind, tries, rows, wrote, leftovers, restarts>>
    /\ \/ /\ packages[name[r]] = "whole"
          /\ Keep(r, "none") /\ Goto(r, "stop")
          /\ \/ NoFault /\ outcome' = [outcome EXCEPT ![r] = "ok"]
             \/ Fault(r) /\ outcome' = [outcome EXCEPT ![r] = "failed"]
       \/ /\ Fault(r)
          /\ \E p \in LeftByDiskError(packages[name[r]]) : Keep(r, p)
          /\ \E pending \in BOOLEAN : RunRaises(r, pending)
       \/ /\ packages[name[r]] # "whole"
          /\ NoFault
          /\ \E pending \in BOOLEAN : RunRaises(r, pending)
          /\ UNCHANGED packages

\* Variant: the retry clears like the first attempt did.
ReclearGently(r) ==
    /\ pc[r] = "reclear"
    /\ ClearPending(r, FALSE)
    /\ Goto(r, "extract")
    /\ UNCHANGED <<plain, tracing, name, kind, progress, leftovers, restarts>>

Reclear(r) ==
    /\ pc[r] = "reclear"
    /\ ClearPending(r, TRUE)
    /\ Goto(r, "extract")
    /\ UNCHANGED <<plain, tracing, name, kind, progress, leftovers, restarts>>

(* After the load *)

\* Variant: tracing is stopped only when the load succeeded.
StopOnSuccess(r) ==
    /\ pc[r] = "stop"
    /\ tracing' = (tracing /\ outcome[r] = "raised")
    /\ \/ outcome[r] = "ok" /\ Goto(r, "check") /\ UNCHANGED <<name, tries>>
       \/ outcome[r] # "ok" /\ Ends(r)
    /\ UNCHANGED <<packages, plain, kind, outcome, rows, wrote, hit, leftovers, faults, restarts>>

\* The finally clause; a load that raised, or has failed jobs, is not counted,
\* published or checked.
Stop(r) ==
    /\ pc[r] = "stop"
    /\ tracing' = FALSE
    /\ \/ outcome[r] = "ok" /\ Goto(r, "check") /\ UNCHANGED <<name, tries>>
       \/ outcome[r] # "ok" /\ Ends(r)
    /\ UNCHANGED <<packages, plain, kind, outcome, rows, wrote, hit, leftovers, faults, restarts>>

\* Counts, publication and quality: opening the destination may still raise.
Check(r) ==
    /\ pc[r] = "check"
    /\ Ends(r)
    /\ \/ NoFault /\ UNCHANGED outcome
       \/ Fault(r) /\ outcome' = [outcome EXCEPT ![r] = "raised"]
    /\ UNCHANGED <<packages, plain, tracing, kind, rows, wrote, leftovers, restarts>>

(* Around the loads *)

\* drop_pending_packages.  Its look at the guard came earlier, so that a load
\* may run by now (RunService!NoRecoveryWhileLoading).
Recover(n) ==
    /\ \E p \in {"none"} \cup LeftByDiskError(packages[n]) :
           packages' = [packages EXCEPT ![n] = p]
    /\ hit' = hit \cup {r \in Load : Live(r) /\ name[r] = n}
    /\ UNCHANGED <<plain, tracing, pc, name, kind, progress, leftovers, faults, restarts>>

\* The process dies.  A working directory is left as the load in it had it,
\* or half written; of the load itself nothing is left but its files.
Emptied(f, v) == [r \in Load |-> IF Live(r) THEN v ELSE f[r]]
Restart ==
    /\ restarts < MaxRestarts
    /\ restarts' = restarts + 1
    /\ plain' = FALSE /\ tracing' = FALSE
    /\ pc' = Emptied(pc, "lost")
    /\ name' = Emptied(name, NoName) /\ tries' = Emptied(tries, 0)
    /\ outcome' = Emptied(outcome, "none") /\ rows' = Emptied(rows, "none")
    /\ hit' = {r \in hit : ~Live(r)}
    /\ missed' = {r \in missed : ~Live(r)} /\ unknown' = {r \in unknown : ~Live(r)}
    /\ packages' \in [Name -> Packages]
    /\ \A n \in Name :
           (\A r \in Load : InWorkingDir(r) => name[r] # n) => packages'[n] = packages[n]
    /\ UNCHANGED <<kind, wrote, faults>>

Step(r) == \/ \E n \in Name, k \in Kinds : Begin(r, n, k)
           \/ Build(r) \/ SetEnv(r) \/ Clear(r) \/ Trace(r)
           \/ RunPipeline(r) \/ LoadPackage(r) \/ Reclear(r)
           \/ Stop(r) \/ Check(r)

Next == \/ \E r \in Load : Step(r)
        \/ \E n \in Name : Recover(n)
        \/ Restart

Spec == Init /\ [][Next]_vars

(* Properties *)

\* Types; pipeline.run is called at most twice in a load (the comment "Recover
\* once" of _execute), whatever errors it and its retry meet.
TypeOK == /\ packages \in [Name -> Packages]
          /\ plain \in BOOLEAN /\ tracing \in BOOLEAN
          /\ pc \in [Load -> PCs]
          /\ name \in [Load -> Name \cup {NoName}]
          /\ kind \in [Load -> Kinds]
          /\ tries \in [Load -> 0..2]
          /\ outcome \in [Load -> {"none", "ok", "failed", "raised"}]
          /\ rows \in [Load -> {"none", "own", "old"}]
          /\ wrote \in [Load -> {"none", "plain", "packed"}]
          /\ hit \subseteq Load /\ missed \subseteq Load /\ unknown \subseteq Load
          /\ faults \in 0..MaxFaults /\ restarts \in 0..MaxRestarts

\* What earlier loads and crashes left in the working directory never costs a
\* later load more than its one retry: a load that ends succeeded, unless it met
\* an error of its own or a recovery, leftovers outside the directories that are
\* wiped, or a text that _is_pending_or_constraint_error does not know.
HealsByItself == \A r \in Load :
    pc[r] = "done" /\ r \notin hit \cup missed \cup unknown => outcome[r] = "ok"

\* A load that met no error, no recovery and no leftovers beyond the clearing's
\* reach never takes up rows that an earlier load left: it reports its own, or
\* raises without any.
LoadsOwnRows == \A r \in Load :
    pc[r] = "done" /\ r \notin hit \cup missed =>
        rows[r] = IF outcome[r] = "ok" THEN "own" ELSE "none"

\* Whatever way loads end, and however they overlap, tracemalloc (which slows
\* the whole process) is off once no load is between its start and its stop.
TracingEnds == (\A r \in Load : ~Tracing(r)) => ~tracing

\* How far the file format can be relied on: where the loads to files are all of
\* one format, their files are as that format wants them (csv uncompressed, the
\* others compressed), whatever loads to databases and crashes come between.
OneFormatKept ==
    LET Loads(k) == {r \in Load : kind[r] = k} IN
    /\ Loads("binary") = {} => \A r \in Loads("csv") : wrote[r] # "packed"
    /\ Loads("csv") = {} => \A r \in Loads("binary") : wrote[r] # "plain"

\* "CSV: uncompressed for Excel" (pipeline_runner.py:484).  The setting is one
\* variable of the process, so that another load may take it back.
CsvForExcel == \A r \in Load :
    pc[r] = "done" /\ kind[r] = "csv" /\ rows[r] = "own" => wrote[r] = "plain"
=============================================================================
