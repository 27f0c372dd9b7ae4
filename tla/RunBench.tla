-------------------------------- MODULE RunBench --------------------------------
(***************************************************************************)
(* scripts/run_bench.sh: for every wanted project with an old.bc, store    *)
(* it, change one caller, and bench the changed bitcode and every other    *)
(* bitcode of the project incrementally and from scratch. A row per sample *)
(* goes to the project's summary.tsv and the exit status says whether all  *)
(* of them passed.                                                         *)
(*                                                                         *)
(* The analyzer under test may be wrong in every way the bench looks for:  *)
(* it may fail, time out, drop or invent bugs, recheck clean callees, load *)
(* nothing, or exit with 0 without writing what it was asked for; and two  *)
(* runs of one bitcode may report different bugs (-nworkers,               *)
(* docs/fermat-check-modes.md:172-177). The results directory may hold     *)
(* anything an earlier invocation left there.                              *)
(***************************************************************************)
EXTENDS ConeReports, FermatCheck

CONSTANTS
    Project,     \* directories under bc/
    Wanted,      \* those $ONLY selects
    HasOld,      \* those with an old.bc
    Sample,      \* names of the other bitcode files
    SamplesOf,   \* SamplesOf[p]: those of project p
    Caller,      \* the name "caller" of the generated sample
    OldModule,   \* the bodies of old.bc
    ModuleOf,    \* ModuleOf[s]: the bodies of sample s
    Probe,       \* the body of a function with the probe in it
    Defined,     \* functions with a `define` in the text of old.bc
    Report,      \* report files a run can write (sequences of bugs)
    OldReport,   \* report files an earlier invocation may have left
    None

ASSUME SamplesAssumption ==
    /\ Wanted \subseteq Project
    /\ SamplesOf \in [Project -> SUBSET Sample] /\ IsFiniteSet(Sample)

ASSUME ModulesAssumption ==
    /\ OldModule = [f \in Func |-> OldModule[f]]
    /\ \A s \in Sample : DOMAIN ModuleOf[s] = Func

\* NoFile is neither a report nor a work set.
ASSUME NoFileAssumption ==
    /\ NoFile \notin Report
    /\ \A F \in SUBSET Func : F # NoFile

VARIABLES
    pc,
    todoP, proj,      \* the loop over bc/*/
    store,            \* persist/<proj>
    storeJson,        \* results/<proj>/store.json until make_caller_bc.py has read it
    todo, sample,     \* the loop over bc/<proj>/*.bc
    module,           \* the bitcode being benched
    run,              \* what its two analyzer runs left behind
    FAIL,
    summary,          \* summary[p]: the rows of results/<p>/summary.tsv
    base              \* history: the store its incremental run started on, until judged

place == <<todoP, proj, todo, sample, module>>
vars  == <<pc, place, store, storeJson, run, FAIL, summary, base>>

\* Nothing is known of a sample whose runs have not been made. The report
\* files are those of an earlier invocation, if any.
NoRun == [incRc |-> 0, scrRc |-> 0, workset |-> NoFile, loaded |-> "?",
          recheck |-> "0", incJson |-> NoFile, scrJson |-> NoFile, fresh |-> TRUE]

StatusesThatFail == {"err", "no_workset", "report_mismatch", "load_fail", "store_fail"}
Status == StatusesThatFail \cup {"ok", "no_cone_bug"}
Row(name, status) == [sample |-> name, status |-> status]

Init ==
    /\ pc = "preflight"
    /\ todoP = Project /\ proj = None
    /\ todo = {} /\ sample = None /\ module = OldModule
    /\ store = EmptyStore /\ base = EmptyStore
    /\ storeJson = NoFile
    /\ run = NoRun
    /\ FAIL = 0
    /\ \E left \in {<<>>, <<Row(Caller, "ok")>>} : summary = [p \in Project |-> left]

-------------------------------------------------------------------------------
(* The checks of lines 31-34 *)

ToolsFound ==
    /\ pc = "preflight"
    /\ pc' = "projects"
    /\ UNCHANGED <<place, store, storeJson, run, FAIL, summary, base>>

\* die: no analyzer, llvm-dis, llvm-as or `script`; exit status 1.
ToolMissing ==
    /\ pc = "preflight"
    /\ pc' = "died"
    /\ UNCHANGED <<place, store, storeJson, run, FAIL, summary, base>>

-------------------------------------------------------------------------------
(* One project *)

SkipProject ==
    /\ pc = "projects"
    /\ \E p \in todoP \ (Wanted \cap HasOld) : todoP' = todoP \ {p}
    /\ UNCHANGED <<pc, proj, store, storeJson, todo, sample, module, run, FAIL, summary, base>>

\* A project that keeps the rows of an earlier invocation.
StartProjectAppending ==
    /\ pc = "projects"
    /\ \E p \in todoP \cap Wanted \cap HasOld :
          /\ todoP' = todoP \ {p}
          /\ proj' = p
          /\ todo' = SamplesOf[p]
    /\ store' = EmptyStore
    /\ pc' = "store"
    /\ UNCHANGED <<storeJson, sample, module, run, FAIL, summary, base>>

\* A fresh persist directory and an empty summary.
StartProject ==
    /\ pc = "projects"
    /\ \E p \in todoP \cap Wanted \cap HasOld :
          /\ todoP' = todoP \ {p}
          /\ proj' = p
          /\ todo' = SamplesOf[p]
          /\ summary' = [summary EXCEPT ![p] = <<>>]
    /\ store' = EmptyStore
    /\ pc' = "store"
    /\ UNCHANGED <<storeJson, sample, module, run, FAIL, base>>

AppendRow(name, status) ==
    summary' = [summary EXCEPT ![proj] = Append(@, Row(name, status))]

\* The report of the store run may be a new one, an old one or missing.
StoreOk ==
    /\ pc = "store"
    /\ store' = OldModule
    /\ \E rpt \in Report \cup OldReport \cup {NoFile} : storeJson' = rpt
    /\ pc' = "caller"
    /\ UNCHANGED <<place, run, FAIL, summary, base>>

\* A store failure that is written down but not remembered.
StoreFailForgiven ==
    /\ pc = "store"
    /\ AppendRow("old", "store_fail")
    /\ pc' = "projects"
    /\ UNCHANGED <<place, store, storeJson, run, FAIL, base>>

\* The failure is a row and FAIL; the next project goes on.
StoreFail ==
    /\ pc = "store"
    /\ AppendRow("old", "store_fail")
    /\ FAIL' = 1
    /\ pc' = "projects"
    /\ UNCHANGED <<place, store, storeJson, run, base>>

\* make_caller_bc.py succeeds: old.bc with the probe in one function.
BenchCaller ==
    /\ pc = "caller" /\ CanMutate(storeJson, Defined)
    /\ sample' = Caller
    /\ module' = [OldModule EXCEPT ![Mutated(storeJson, Defined)] = Probe]
    /\ storeJson' = NoFile
    /\ pc' = "inc"
    /\ UNCHANGED <<todoP, proj, todo, store, run, FAIL, summary, base>>

\* It exits with another status: no trace, no define, no store report, or
\* llvm-dis or llvm-as failed.
NoCallerBc ==
    /\ pc = "caller"
    /\ AppendRow(Caller, "no_cone_bug")
    /\ storeJson' = NoFile
    /\ pc' = "samples"
    /\ UNCHANGED <<place, store, run, FAIL, base>>

\* Any other bitcode of the project; the store stays as the last one left it.
NextSample ==
    /\ pc = "samples"
    /\ \E s \in todo :
          todo' = todo \ {s} /\ sample' = s /\ module' = ModuleOf[s]
    /\ pc' = "inc"
    /\ UNCHANGED <<todoP, proj, store, storeJson, run, FAIL, summary, base>>

ProjectDone ==
    /\ pc = "samples" /\ todo = {}
    /\ store' = EmptyStore
    /\ sample' = None /\ module' = OldModule
    /\ pc' = "projects"
    /\ UNCHANGED <<todoP, proj, todo, storeJson, run, FAIL, summary, base>>

-------------------------------------------------------------------------------
(* bench_one *)

\* The file named by --report: written by this run, or not.
ReportFile(written) == IF written THEN Report ELSE OldReport \cup {NoFile}

\* The analyzer exits with rc = 0. It has saved what it rebuilt. The log
\* line with the number of loaded summaries may be missing ("?"), and so may
\* the work-set file; without a new report an old one may still be there.
IncOk ==
    /\ pc = "inc"
    /\ \E loaded \in {"?", "0", "1"}, recheck \in {"0", "1"},
          workset \in {WorkSet(store, module), NoFile},
          written \in BOOLEAN : \E rpt \in ReportFile(written) :
             run' = [run EXCEPT !.loaded = loaded, !.recheck = recheck,
                                !.workset = workset, !.incJson = rpt,
                                !.fresh = written]
    /\ store' = WriteBack(store, module)
    /\ base' = store
    /\ pc' = "scratch"
    /\ UNCHANGED <<place, storeJson, FAIL, summary>>

\* It fails or times out, before or after it wrote back.
IncFail ==
    /\ pc = "inc"
    /\ \E s \in {store, WriteBack(store, module)} : store' = s
    /\ run' = [run EXCEPT !.incRc = 1, !.fresh = FALSE]
    /\ base' = store
    /\ pc' = "scratch"
    /\ UNCHANGED <<place, storeJson, FAIL, summary>>

\* The whole-module run; it too may report anything, or exit with 0 and leave
\* an old report.
ScratchOk ==
    /\ pc = "scratch"
    /\ \E written \in BOOLEAN : \E rpt \in ReportFile(written) :
          run' = [run EXCEPT !.scrJson = rpt, !.fresh = @ /\ written]
    /\ pc' = "judge"
    /\ UNCHANGED <<place, store, storeJson, FAIL, summary, base>>

\* A failure that makes the bench start the sample over.
ScratchFailRetry ==
    /\ pc = "scratch"
    /\ run' = NoRun
    /\ pc' = "inc"
    /\ UNCHANGED <<place, store, storeJson, FAIL, summary, base>>

\* The whole-module run fails or times out.
ScratchFail ==
    /\ pc = "scratch"
    /\ run' = [run EXCEPT !.scrRc = 1, !.fresh = FALSE]
    /\ pc' = "judge"
    /\ UNCHANGED <<place, store, storeJson, FAIL, summary, base>>

\* The if/elif chain of lines 85-109.
Verdict(r) ==
    IF r.incRc # 0 \/ r.scrRc # 0 THEN "err"
    ELSE IF r.workset = NoFile THEN "no_workset"
    ELSE IF CompareStatus(r.incJson, r.scrJson, r.workset) # 0 THEN "report_mismatch"
    ELSE IF r.loaded = "0" \/ r.recheck # "0" THEN "load_fail"
    ELSE "ok"

\* A verdict that counts the failures.
JudgeCounting ==
    /\ pc = "judge"
    /\ AppendRow(sample, Verdict(run))
    /\ FAIL' = IF Verdict(run) = "ok" THEN FAIL ELSE FAIL + 1
    /\ run' = NoRun /\ base' = EmptyStore
    /\ pc' = "samples"
    /\ UNCHANGED <<place, store, storeJson>>

\* The row of the sample, and FAIL for every status but ok.
Judge ==
    /\ pc = "judge"
    /\ AppendRow(sample, Verdict(run))
    /\ FAIL' = IF Verdict(run) = "ok" THEN FAIL ELSE 1
    /\ run' = NoRun /\ base' = EmptyStore
    /\ pc' = "samples"
    /\ UNCHANGED <<place, store, storeJson>>

-------------------------------------------------------------------------------
Exit ==
    /\ pc = "projects" /\ todoP = {}
    /\ pc' = "done"
    /\ UNCHANGED <<place, store, storeJson, run, FAIL, summary, base>>

\* The process has exited.
Exited == pc \in {"done", "died"} /\ UNCHANGED vars

Next ==
    \/ ToolsFound \/ ToolMissing
    \/ SkipProject \/ StartProject \/ StoreOk \/ StoreFail
    \/ BenchCaller \/ NoCallerBc \/ NextSample \/ ProjectDone
    \/ IncOk \/ IncFail \/ ScratchOk \/ ScratchFail \/ Judge \/ Exit \/ Exited

\* Every analyzer call is under `timeout $TIMEOUT` (line 41).
Spec == Init /\ [][Next]_vars /\ WF_vars(Next)

-------------------------------------------------------------------------------
(* Properties *)

\* Every variable holds values of its type.
TypeOK ==
    /\ pc \in {"preflight", "died", "projects", "store", "caller", "inc", "scratch", "judge", "samples", "done"}
    /\ todoP \subseteq Project /\ proj \in Project \cup {None}
    /\ todo \subseteq Sample /\ sample \in Sample \cup {Caller, None}
    /\ DOMAIN store = Func /\ DOMAIN module = Func /\ DOMAIN base = Func
    /\ run.workset = NoFile \/ run.workset \subseteq Func
    /\ FAIL \in {0, 1}
    /\ \A p \in Project : \A i \in DOMAIN summary[p] :
          /\ summary[p][i].sample \in Sample \cup {Caller, "old"}
          /\ summary[p][i].status \in Status

LastStatus(p) == Last(summary'[p]).status

\* The bugs the incremental run has to report: those of the whole-module run
\* of the same sample that go through a function which differs from the store
\* it started on, or through a caller of one.
ConeBugs == {b \in ToSet(run.scrJson) : FuncsOf(b) \cap WorkSet(base, module) # {}}

\* An "ok" is earned (run_bench.sh:85-109): both runs ended with 0, the
\* incremental one reported every bug of its cone and nothing that the other
\* run did not, and rechecked no clean callee. Nothing is said the other way
\* round: two runs of one bitcode may differ, and then a right one is blamed.
OkIsEarned ==
    [][pc = "judge" /\ run.fresh /\ LastStatus(proj) = "ok" =>
          /\ run.incRc = 0 /\ run.scrRc = 0
          /\ ConeBugs \subseteq ToSet(run.incJson)
          /\ ToSet(run.incJson) \subseteq ToSet(run.scrJson)
          /\ run.recheck = "0"]_vars

\* The exit status is 1 iff some row of this invocation, of any project, has a
\* status that fails the run (FAIL is shared by all of them).
ExitStatusIsRight ==
    pc = "done" =>
        (FAIL = 1 <=> \E p \in Wanted \cap HasOld : \E i \in DOMAIN summary[p] :
                         summary[p][i].status \in StatusesThatFail)

\* When the script ends, the summary of a project is about this invocation
\* and complete: a failed store alone, or the caller sample and then every
\* other bitcode of the project once.
SummaryComplete ==
    pc = "done" =>
        \A p \in Wanted \cap HasOld :
            \/ summary[p] = <<Row("old", "store_fail")>>
            \/ /\ Len(summary[p]) = Cardinality(SamplesOf[p]) + 1
               /\ summary[p][1].sample = Caller
               /\ {summary[p][i].sample : i \in DOMAIN summary[p]} = SamplesOf[p] \cup {Caller}

\* The script always ends.
Terminates == <>(pc \in {"done", "died"})

\* The incremental report has every bug of the whole-module run that goes
\* through a function which the sample changed with respect to old.bc.
CoversChange ==
    \A b \in ToSet(run.scrJson) :
        FuncsOf(b) \cap Dirty(OldModule, module) # {} => b \in ToSet(run.incJson)

\* README.md:51-53: run_bench "stores old.bc once, then benches every pr-*.bc
\* against that single store": an ok sample covers its change.
OkCoversChange ==
    [][pc = "judge" /\ run.fresh /\ LastStatus(proj) = "ok" => CoversChange]_vars

\* That does hold for the first sample of a project, the caller sample: an ok
\* there cannot hide a change, whatever failed before it and whatever an
\* earlier project left in its own store.
FirstOkCoversChange ==
    [][pc = "judge" /\ summary[proj] = <<>> /\ run.fresh /\ LastStatus(proj) = "ok"
          => CoversChange]_vars
================================================================================
