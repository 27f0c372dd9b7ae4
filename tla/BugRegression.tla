----------------------------- MODULE BugRegression -----------------------------
(***************************************************************************)
(* scripts/run_bug_regression.py: run the analyzer on the bitcode of every *)
(* selected case, in a thread pool when --jobs is above 1, and fail unless *)
(* each case's report has every sink its expected.json lists.              *)
(*                                                                         *)
(* A report is a sequence of traces; a trace has the validity flag and,    *)
(* for every diagnostic step, the sink key (type, file, line) it would be, *)
(* or NoLine. The analyzer may write any report, none, or one json.loads   *)
(* rejects, and exit with any status. Cases are numbered in the order of   *)
(* the sorted case directories.                                            *)
(***************************************************************************)
EXTENDS SequencesExt

CONSTANTS
    N,            \* number of cases
    DirOf,        \* DirOf[c]: directory name of case c
    ProjectOf,    \* ProjectOf[c]: "project" in its expected.json
    Expected,     \* Expected[c]: sequence of the sink keys it must find
    HasBc,        \* cases whose input_bc exists
    JobsChoices,  \* values of --jobs
    Report,       \* reports the analyzer can write
    OldReport,    \* what a reused --out directory may hold
    NoLine, NoFile, Corrupt

ASSUME CasesAssumption ==
    /\ N \in Nat /\ JobsChoices \subseteq Int
    /\ \A c \in 1..N : IsFiniteSet(DOMAIN Expected[c])

ASSUME ReportsAssumption ==
    /\ \A rpt \in Report : IsFiniteSet(DOMAIN rpt)
    /\ NoFile \notin Report \cup {Corrupt} /\ Corrupt \notin Report

Case    == 1..N
Name    == {DirOf[c] : c \in Case} \cup {ProjectOf[c] : c \in Case}
Project == {ProjectOf[c] : c \in Case}

VARIABLES
    pc,         \* the main thread
    jobs,       \* --jobs
    only,       \* --only, as a set of names
    selected,   \* `cases`
    st,         \* st[c]: where run_case(c) is
    rc,         \* rc[c]: exit status of its analyzer
    outcome,    \* outcome[c]: what run_case(c) returned or raised
    results,    \* the list of results the main thread has collected
    report,     \* report[p]: <out>/<p>/report.json
    exitCode,
    own,        \* history: own[c]: the report case c's analyzer wrote
    reused      \* history: --out names a directory of an earlier run

args   == <<jobs, only, selected, reused>>
worker == <<st, rc, outcome, report, own>>
vars   == <<pc, args, worker, results, exitCode>>

-------------------------------------------------------------------------------
(* extract_sinks and compare *)

\* The key of the last step that has a line.
SinkOf(trace) == LET at == {i \in DOMAIN trace.steps : trace.steps[i] # NoLine}
                 IN  trace.steps[CHOOSE i \in at : \A j \in at : j <= i]

\* The reported sinks: the valid traces with a step that has a line.
Sinks(rpt) ==
    {i \in DOMAIN rpt : rpt[i].valid /\ ToSet(rpt[i].steps) \ {NoLine} # {}}

\* Counter(act) and Counter(exp), by the places their keys come from.
Reported(key, rpt) == {i \in Sinks(rpt) : SinkOf(rpt[i]) = key}
Wanted(key, exp)   == {i \in DOMAIN exp : exp[i] = key}

\* A comparison of sets of sinks.
MissingAsSet(exp, rpt) == {k \in ToSet(exp) : Reported(k, rpt) = {}}

\* Counter comparison: a sink expected n times has to be reported n times.
Missing(exp, rpt) ==
    {k \in ToSet(exp) :
        Cardinality(Reported(k, rpt)) < Cardinality(Wanted(k, exp))}

-------------------------------------------------------------------------------
Init ==
    /\ pc = "select"
    /\ jobs \in JobsChoices /\ only \in SUBSET Name /\ selected = {}
    /\ reused \in BOOLEAN
    /\ report \in [Project -> {NoFile} \cup (IF reused THEN OldReport ELSE {})]
    /\ st = [c \in Case |-> "queued"]
    /\ rc = [c \in Case |-> 0]
    /\ outcome = [c \in Case |-> "none"]
    /\ own = [c \in Case |-> NoFile]
    /\ results = <<>>
    /\ exitCode = -1

\* main(): --only is matched with directory names; nothing selected is status 2.
Select ==
    /\ pc = "select"
    /\ selected' = {c \in Case : only = {} \/ DirOf[c] \in only}
    /\ IF selected' = {} THEN pc' = "exited" /\ exitCode' = 2
                         ELSE pc' = "collect" /\ exitCode' = exitCode
    /\ UNCHANGED <<jobs, only, reused, worker, results>>

-------------------------------------------------------------------------------
(* run_case, in a pool thread or in the main thread *)

Collected == {results[i].case : i \in DOMAIN results}
Running   == {c \in selected : st[c] \in {"analysing", "exited"}}

\* A pool thread is free, or the sequential loop has come to the next case.
Free == IF jobs > 1 THEN Cardinality(Running) < jobs
        ELSE \A c \in selected : st[c] = "queued" \/ c \in Collected

\* Cases start in order. A raised case does not stop the pool from starting
\* those that are still queued.
IsNext(c) ==
    /\ c \in selected /\ st[c] = "queued" /\ Free
    /\ pc = "collect" \/ (pc = "aborting" /\ jobs > 1)
    /\ \A d \in selected : d < c => st[d] # "queued"

Start(c) ==
    /\ IsNext(c)
    /\ IF c \in HasBc
          THEN st' = [st EXCEPT ![c] = "analysing"] /\ outcome' = outcome
          ELSE /\ st' = [st EXCEPT ![c] = "done"]
               /\ outcome' = [outcome EXCEPT ![c] = "fail"]
    /\ UNCHANGED <<pc, args, rc, results, report, own, exitCode>>

\* An exception before the analyzer runs: an expected.json that does not parse
\* or lacks a key, an output directory or an analyzer that cannot be used.
StartRaises(c) ==
    /\ IsNext(c)
    /\ st' = [st EXCEPT ![c] = "done"]
    /\ outcome' = [outcome EXCEPT ![c] = "raised"]
    /\ UNCHANGED <<pc, args, rc, results, report, own, exitCode>>

\* The analyzer of case c writes its report. Cases that name the same project
\* write the same file.
WriteReport(c) ==
    /\ c \in selected /\ st[c] = "analysing" /\ own[c] = NoFile
    /\ \E rpt \in Report \cup {Corrupt} :
          /\ report' = [report EXCEPT ![ProjectOf[c]] = rpt]
          /\ own' = [own EXCEPT ![c] = rpt]
    /\ UNCHANGED <<pc, args, st, rc, outcome, results, exitCode>>

\* It exits. There is no time limit: subprocess.run waits for it.
AnalyzerExit(c) ==
    /\ c \in selected /\ st[c] = "analysing"
    /\ st' = [st EXCEPT ![c] = "exited"]
    /\ \E status \in {0, 1} : rc' = [rc EXCEPT ![c] = status]
    /\ UNCHANGED <<pc, args, outcome, results, report, own, exitCode>>

\* The rest of run_case: read the report and compare; a report that is not
\* JSON raises.
Finish(c) ==
    /\ c \in selected /\ st[c] = "exited"
    /\ st' = [st EXCEPT ![c] = "done"]
    /\ LET file == report[ProjectOf[c]] IN
       outcome' = [outcome EXCEPT ![c] =
           IF rc[c] # 0 \/ file = NoFile THEN "fail"
           ELSE IF file = Corrupt THEN "raised"
           ELSE IF Missing(Expected[c], file) = {} THEN "pass" ELSE "fail"]
    /\ UNCHANGED <<pc, args, rc, results, report, own, exitCode>>

-------------------------------------------------------------------------------
(* The main thread *)

\* A collection that takes a finished case again.
CollectTwice(c) ==
    /\ pc = "collect" /\ c \in selected /\ Len(results) <= N
    /\ st[c] = "done" /\ outcome[c] # "raised"
    /\ results' = Append(results, [case |-> c, ok |-> outcome[c] = "pass"])
    /\ UNCHANGED <<pc, args, worker, exitCode>>

\* as_completed, or the sequential loop: the result of a finished case.
Collect(c) ==
    /\ pc = "collect" /\ c \in selected \ Collected
    /\ st[c] = "done" /\ outcome[c] # "raised"
    /\ results' = Append(results, [case |-> c, ok |-> outcome[c] = "pass"])
    /\ UNCHANGED <<pc, args, worker, exitCode>>

\* A raised case that is passed over.
CollectRaisedIgnored(c) ==
    /\ pc = "collect" /\ c \in selected /\ outcome[c] = "raised"
    /\ UNCHANGED vars

\* fut.result() raises the exception of the case again.
CollectRaised(c) ==
    /\ pc = "collect" /\ c \in selected /\ outcome[c] = "raised"
    /\ pc' = "aborting"
    /\ UNCHANGED <<args, worker, results, exitCode>>

\* An exception that leaves the pool behind.
AbortAtOnce ==
    /\ pc = "aborting"
    /\ pc' = "exited" /\ exitCode' = 1
    /\ UNCHANGED <<args, worker, results>>

\* Leaving the `with` block waits for every submitted case, then the
\* exception ends the process: status 1 and no summary.json.
Abort ==
    /\ pc = "aborting"
    /\ jobs > 1 => \A c \in selected : st[c] = "done"
    /\ pc' = "exited" /\ exitCode' = 1
    /\ UNCHANGED <<args, worker, results>>

\* All results are in: summary.json and the verdict.
Summarise ==
    /\ pc = "collect" /\ Collected = selected
    /\ exitCode' = IF \A i \in DOMAIN results : results[i].ok THEN 0 ELSE 1
    /\ pc' = "summarised"
    /\ UNCHANGED <<args, worker, results>>

\* The process has ended.
Exited == pc \in {"summarised", "exited"} /\ UNCHANGED vars

Harness ==
    \/ Select \/ Abort \/ Summarise
    \/ \E c \in Case : \/ Start(c) \/ StartRaises(c) \/ Finish(c)
                       \/ Collect(c) \/ CollectRaised(c)

Next ==
    \/ Harness \/ Exited
    \/ \E c \in Case : WriteReport(c) \/ AnalyzerExit(c)

Spec == Init /\ [][Next]_vars

\* The Python process and its threads are scheduled; the analyzer owes nothing.
HarnessFairSpec == Spec /\ WF_vars(Harness)

\* Every analyzer process comes to an end.
FairSpec == HarnessFairSpec /\ \A c \in Case : WF_vars(AnalyzerExit(c))

-------------------------------------------------------------------------------
(* Properties *)

\* Every variable holds values of its type.
TypeOK ==
    /\ pc \in {"select", "collect", "aborting", "summarised", "exited"}
    /\ jobs \in JobsChoices /\ only \subseteq Name /\ selected \subseteq Case
    /\ st \in [Case -> {"queued", "analysing", "exited", "done"}]
    /\ rc \in [Case -> {0, 1}]
    /\ outcome \in [Case -> {"none", "pass", "fail", "raised"}]
    /\ Len(results) <= N
    /\ \A i \in DOMAIN results : results[i].case \in Case /\ results[i].ok \in BOOLEAN
    /\ DOMAIN report = Project /\ DOMAIN own = Case
    /\ exitCode \in -1..2

\* What "finds every expected sink" means: a one-to-one choice of a valid
\* trace that ends there for every expected finding.
Found(exp, rpt) ==
    \E m \in [DOMAIN exp -> DOMAIN rpt] :
        /\ \A i, j \in DOMAIN exp : m[i] = m[j] => i = j
        /\ \A i \in DOMAIN exp :
              /\ rpt[m[i]].valid
              /\ ToSet(rpt[m[i]].steps) \ {NoLine} # {}
              /\ SinkOf(rpt[m[i]]) = exp[i]

Good(c) ==
    /\ c \in HasBc /\ rc[c] = 0 /\ st[c] = "done"
    /\ own[c] \notin {NoFile, Corrupt}
    /\ Found(Expected[c], own[c])

\* bug_regression/README.md:5-6: with a fresh output directory the run passes
\* iff the report of every selected case has all its expected sinks, in
\* whatever order the cases run and finish (extra findings do not matter).
ExitStatusIsRight ==
    pc \in {"summarised", "exited"} /\ selected # {} /\ ~reused =>
        (exitCode = 0 <=> \A c \in selected : Good(c))

\* No analyzer outlives the process, also when a case raises.
NoOrphans == pc \in {"summarised", "exited"} => Running = {}

\* If every analyzer run ends, the process ends.
Terminates == <>(pc \in {"summarised", "exited"})

\* expected.json:7 "time_limit_sec": 900 (test_config: TimeLimit = 900): an
\* analysis does not go on for ever.
TimeLimitKept == \A c \in Case : st[c] = "analysing" ~> st[c] # "analysing"
================================================================================
