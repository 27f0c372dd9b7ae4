# Verification of the incremental-persist bench

This directory holds TLA+ models of the scripts in this repository, the TLC
configurations that check them, and theorems about them checked by TLAPS.
Paths below are relative to the repository (`scripts/…`, `README.md`, `docs/…`).

The repository benchmarks and tests `fermat-check`, a static analyzer that is
not part of it. The analyzer can *store* what it computed for a module
(SEGs and summaries, in a *persist directory*) and later analyse a changed module
*incrementally*. The scripts build LLVM bitcode of upstream projects (one
`old.bc` and one `pr-<N>.bc` per pull request), run the analyzer in its modes,
compare reports and times, and gate on the result. What can go wrong is not
computation but state: directories that one run writes and a later one reads,
result files that are the only memory across kills, a working tree shared by
all builds, verdicts put together from several exit codes and files.

## Inventory

| Component | State | Operations | Interacts with |
|---|---|---|---|
| A/B harness, `scripts/ab_branches.sh` | the TSV `$OUT`; per branch and project the directory `pdir` and its snapshot | store, snapshot, restore, incremental run, resume test (`have`), cleanup | analyzer (two builds), bitcode files, `ab_summarize.py` reads the TSV |
| Full-analysis A/B, `scripts/fa_ab.sh` | TSV, `pdir`, snapshot | store once, run both builds on copies | analyzer, bitcode files |
| A/B summary, `scripts/ab_summarize.py` | none | fold over the rows | the TSV |
| Incremental bench, `scripts/run_bench.sh` | persist directory, results directory, `FAIL` | store, change one caller, incremental and scratch run per sample, verdict | analyzer, the next component, the table is read by `build_pr_bc.sh` |
| Cone comparison, `scripts/compare_cone_reports.py`, and caller change, `scripts/make_caller_bc.py` | none | compare two reports inside a work set; choose and change a caller | called by the bench; reports and work-set file of the analyzer |
| Bug regression gate, `scripts/run_bug_regression.py` | output directory, list of results, thread pool | select cases, run the analyzer per case, extract sinks, compare, summarise | analyzer processes, `bug_regression/*/expected.json` |
| Bitcode builders, `scripts/build_pr_bc.sh`, `scripts/build_old_bc.sh` | upstream working tree, `/tmp/prbc_out.bc`, `bc/<proj>/*.bc` | build the baseline, reset, apply a pull request, build, copy, skip what exists | git, compilers, the table of the bench |
| Issue gates, `scripts/check_*.py`, with fixtures `bc/*/*.c` | none | one to three analyzer runs, names that must and must not be in their reports | analyzer, `llvm-extract` |
| Single-target builds, `bc/*/build.sh`, `scripts/build_{cflow,robin_map,uaf_*}_bc.sh`; `scripts/gen_bc_readme.py` | files they write | straight-line | compilers |
| `fermat-check` (external) | persist directory, report, work-set file | store, incremental, scratch | everything above |

Hard behaviours, and the properties that make each component correct:

* **A/B harness**: kills between any two steps and re-invocation, timed-out runs
  that wrote back in part, a resume test on the file that the loop itself appends
  to. Correct when an incremental run measures the pristine store, the file gets
  every combination once, and an invocation that ends has dealt with everything.
* **Bench**: an analyzer that misbehaves in exactly the ways the bench is for,
  stale files in the results directory, one `FAIL` for all projects, and two runs of one
  bitcode that report different bugs. Correct when an `ok` is earned, the summary is
  complete and the exit status is 1 iff some row fails.
* **Regression gate**: threads that finish in any order, exceptions in one of
  them, missing, stale or broken reports, repeated sinks. Correct when the exit
  status is 0 iff every selected case has its sinks, and no analyzer is
  left running.
* **Issue gates**: a trace passes through several functions, a gate looks for names in
  all of its steps, in its first step, or for parts of names, in the reports of one or
  several runs that may fail or time out. Correct when the exit status is right by where
  the traces end, and the analyzer before the fix does not pass.
* **A/B summary**: the file may be incomplete, in the order of several
  invocations, or without its header. Correct when the totals count every
  store and sorting the times away from their PRs does not change who is faster.
* **Builders**: any build step may fail, git and `cp` may fail unnoticed (`set -u` is
  all that is set), a kill may cut a copy short, the tree still has the files of
  the last pull request, a list may name one twice. Correct when a bitcode has its
  own sources and no other pull request's, the counts add up, and resuming builds only
  what is missing.

`PROJECT.json` lists every hazard with its line and the properties about it.

## Modules

| Module | Models | Checked by | Proved in |
|---|---|---|---|
| `MeasurementLog` | abstract: an append-only, resumable result file | refinement of `AbBranches` | |
| `AbBranches` | `ab_branches.sh` | `MCAbBranches` | `AbBranchesProofs` |
| `FermatCheck` | external: store, work set and write-back of the analyzer | through `RunBench` | |
| `ConeReports` | `compare_cone_reports.py`, `make_caller_bc.py` | through `RunBench` | with `RunBench` |
| `RunBench` | `run_bench.sh` | `MCRunBench` | `RunBenchProofs` |
| `BugRegression` | `run_bug_regression.py` | `MCBugRegression` | `BugRegressionProofs` |
| `AbSummarize` | `ab_summarize.py`, on the file `ab_branches.sh` writes | `MCAbSummarize` | `AbSummarizeProofs`, on `DataTheorems` |
| `FaAb` | `fa_ab.sh` | `MCFaAb` | |
| `GateTable` | the fixtures and what each `check_*.py` looks for | through `MCGates` | |
| `Gates` | `check_*.py` | `MCGates` | `GatesProofs` |
| `BuildPrBc` | `build_pr_bc.sh`, `build_old_bc.sh` | `MCBuildPrBc` | `BuildPrBcProofs` |

Definitions that nothing uses, next to one with a similar name, are *mutants*: an operation with a plausible mistake,
used to see that a property notices it.

### AbBranches

A directory is the set of bitcode whose SEGs it holds completely: `{Old}` is the
pristine store, `{}` one that was cut short, `NoDir` a missing one. `pc` is the
place in `run_branch_project`: *call* (before the resume test, l.35), *storing*
(l.39), *copying* (l.47), *samples* (l.51), *runs* (l.55), *analyse* (l.61).
`StoreOk`/`IncOk` append a row, `Restore` is `rm -rf; cp -r` of l.58 and takes
over whatever the snapshot is, a missing one included, because nothing checks
`cp`. An incremental run writes back (`WriteBack`), also when it
fails or times out. `Kill` ends the script anywhere, the `rm -rf` of l.36, 58 and 71
included, and leaves every directory it was removing or writing in each state it may
have; `Invoke` starts it on any subset of the projects. `used`, `stored`, `failed` and
`plan` are history variables. Local copies are assumed to succeed when their source
exists, and the analyzer to die with the script: an orphan that goes on writing into a
directory which the next invocation clears and fills is not modelled.

### RunBench, ConeReports, FermatCheck

A module gives each function a body, a store gives each function the body its
SEG was built from. `Dirty` and `WorkSet` (the changed functions and one hop of
callers) are what the documentation of the persist mode says; they are external.
`ToolsFound` and `ToolMissing` are the checks of l.31-34.
Every analyzer run may fail; a successful run, incremental or whole-module, may report
anything in `Report`: the analyzer is not deterministic with several workers
(`docs/fermat-check-modes.md:172-177`), so two runs of one bitcode may differ. An
incremental run may load nothing, leave its count out of the log (`?`), recheck callees,
write no work set, or write no report, in which case the file of an
earlier invocation is read. `Verdict` is the `if`/`elif` chain of l.85-109.
`ConeReports` has the comparison and the choice of the caller as operators on
sequences of bugs.

### BugRegression

`Start`, `WriteReport`, `AnalyzerExit`, `Finish` are the life of one case, in
a pool thread or in the main thread (`jobs`); `Collect`, `CollectRaised`, `Abort`,
`Summarise` are the main thread. Reports are indexed by *project*, as the file
system does it. `CollectRaised` is `fut.result()` raising again; leaving the
`with` block then still waits for every submitted case, which starts those
that are queued. `StartRaises` is every exception before the analyzer runs (an `expected.json`
that does not parse, a directory that cannot be made, an analyzer that cannot be
started), `Finish` has the one of a report that is not JSON.

### BuildPrBc

One project. A bitcode is the pin and the set of pull requests of which some file was
in front of the builder, or `NoFile`, or `Partial`. The scripts run under `set -u`
alone, so what fails unnoticed fails unnoticed here: `ResetSources` (l.368, 388-389) either
empties the tree or leaves any part of it and marks it `Mixed`, and `Copy` and `CopyOld` may
leave the file missing or short while the pull request counts as ready (`cpOk`
remembers it). `git clean` keeps the objects of earlier builds (`-e '*.bc'`), and
`build_libsodium` links every `*.bc` it finds: `Stray` are the pull requests that bring
a file which no baseline has to such a project, `side` those of which an object is left.
A `BuildTree` or `BuildFailed` is one run of a builder: `build_libsodium` is the one
translated, and with `Stray` empty it stands for those that link a fixed list of objects;
what `make` takes for up to date is left out. A list (`list`, `todo`, `got`, `fail`) says how often it
names each pull request, because `read_prs` reads two tables and removes no
duplicates; `$PRS` may be any list in `Prs`. `RebuildOld` and `RemoveOld` are
`build_old_bc.sh` (`submodule update`; `rm old.bc`, `ONLY_OLD=1`), `Bench` what
`run_bench.sh` does to the table that `read_prs` reads. `Kill` is anywhere.

### Gates, GateTable

Seven of the eight gates differ only in what they look for, so they are one machine
(`Start`, `Extract`, `AnalyzerOk`, `AnalyzerFails`, `Timeout`, `ReadGiven`, `Judge`)
over a table with one record for each script: for every analyzer run the functions its
report has to name and those it must not, and the flags `steps`, `part`, `timed`,
`given` and `cut` for what is particular to a script. The eighth,
`check_robin_map_stat_name.py`, has `StatRun` and `JudgeStat`. `exit` is the
exit status, 1 also for `sys.exit(message)` and for an exception that nobody catches.

A fixture is the functions in which a trace of the gate's checker can end and
the calls between functions of the file. A trace is where it ends, where it starts and all
functions it passes through; it can pass through any function that calls, or is
called by, the one it ends in. A report without steps, or whose steps have no names, is
`Nameless`. The analyzer may report any set of these. `FixtureAssumption` says what the
gates rely on, and TLC evaluates it for the fixtures of the repository: a function
that must be absent is not linked to one in which a trace can end, no two watched
functions are linked, no watched name is part of another name of the fixture where
parts are looked for. A trace that ends in a function the gate does not watch can
still mislead it: in the wrapper gate one that ends in `free_rr` and passes through
`use_after` counts for `use_after`. `Misled` names these cases, and `ExitIsVerdict`
says that there are no others.

### AbSummarize

The file grows one row at a time as in `MeasurementLog`, with a time in each row, in any
order that resumed invocations can produce, and the summary is an operator of the
file in every state: `Store`, `Inc`, `Total`, `Shown`, `Tag`, `Wins` are the
dictionaries, tables and counts of the script, `Status` how it ends. Lists of times are
sets of row numbers (equal times stay apart) and `Sorted` gives the k-th smallest time of
such a set, which is what sorting the list and indexing it gives. A file that existed
and was empty gets no header (`ab_branches.sh:25`), so `header` is FALSE and the
lookup passes over its first row. `Order` and `MaxBare` are bounds.

### FaAb

`RC` is the script's own variable, which nothing in the script assigns: `run_full`
sets the one of the subshell in which `$(...)` runs it. `snap` may be left from an
aborted invocation; with `STORE_DIR` it is not removed and `cp -r` copies into it.

## Runs

Passing runs, with the states TLC finds:

| Run | Shows | Bounds |
|---|---|---|
| `ab_branches` (1.3 million) | `OwnStorePristine`: no contamination within a call that stored; `CallState`: what each step relies on; `Accounted`: nothing is forgotten; `Terminates`; `LogSpec`: the file refines `MeasurementLog` | one project with two samples and one listed without a directory; both branches; `Runs` = 2; one kill |
| `run_bench` (2.2 million) | `OkIsEarned`, `FirstOkCoversChange`, `ExitStatusIsRight`, `SummaryComplete`, `Terminates` | a project with two more samples, one with `old.bc` only, one without; three functions, one call edge; a two-function and a one-function bug, any of the four reports in every run |
| `bug_regression` (139 thousand) | `ExitStatusIsRight`, `NoOrphans`, `Terminates` | three cases (a repeated sink, a single sink, no bitcode); `--jobs` 1 and 2; every `--only`; fresh and reused `--out` |
| `gates` (44 thousand) | `ExitIsVerdict`, `RejectsUnfixed`, `EndsInTime` | all eight gates with their fixtures; at most one function reported that need not be, any subset of the others; two statistics of two functions |
| `ab_summary` (409 thousand) | `SummaryNeedsMain`, `TotalsAreSums`, `DominanceShows` | two projects with two samples and one; three times, two times; rows of the second project after those of the first; three rows without a header |
| `build_pr_bc` (3.0 million) | `OwnSourcesOnly`, `OldIsPinned`, `CountsAreRight`, `WholeStays` | a pull request in both tables that leaves a stray object, one in neither; `$PRS` naming both, or the second twice; one re-pin, one kill |

Why these bounds are enough for the cases that matter: contamination
needs one sample after another, a resumed invocation needs one kill or one failure
and a second invocation (which `Invoke` allows without bound), the repeat test needs
`Runs` = 2, a work set that differs from the dirty set needs one call edge, the
verdict of one project next to another's failure needs two projects, a race
of cases needs two workers with a third case queued, a leftover in the tree needs two
pull requests, overlapping times of two samples need three values, pooled samples a
second project. The proofs lift these bounds from every safety property.

Violation runs, each a difference between the code and what the repository says:

| Run | Property | Line | What it shows |
|---|---|---|---|
| `ab_resume` | `ResumedPristine` | `ab_branches.sh:58` | resuming after a failed or killed invocation restores from a snapshot that does not exist: l.58 removes `pdir` before every run, the `cp` fails unchecked, and each incremental run that is left starts on a missing store |
| `ab_repeat` | `RunsRepeated` | `ab_branches.sh:56` | `RUNS=2` measures once |
| `run_bench_store` | `OkCoversChange` | `run_bench.sh:70` | later samples are not benched against the store of `old.bc` |
| `bug_regression_hang` | `TimeLimitKept` | `run_bug_regression.py:151` | the documented time limit is not applied |
| `build_pr_bc_list` | `ListReproducible` | `build_pr_bc.sh:352` | a table of the current bench gives an empty list |
| `fa_ab` | `EveryPrMeasured` | `fa_ab.sh:68` | the script ends after the first run of the first PR, because the RC it tests was set in a subshell |

More differences have no run of their own, but are in the models:

* A log without the count of loaded summaries is judged `ok` (`run_bench.sh:101` rejects
  0 only; `README.md:128` wants "a summary loaded"). `OkIsEarned` says nothing of the count.
* `no_cone_bug` is also written when `make_caller_bc.py` failed for another reason
  (`run_bench.sh:151`).
* Reports are compared exactly although two runs of one bitcode may differ
  (`docs/fermat-check-modes.md:172-177`). So an `ok` means something (`OkIsEarned`), and a
  `report_mismatch` need not: no property says that a right run gets its `ok`.
* A failing `git` call is swallowed (`build_pr_bc.sh:368, 388-389`) and the build goes on with
  whatever is in the tree; a failing `cp` (l.370, 400) is not noticed either, and the
  pull request counts as ready. `OwnSourcesOnly` speaks of trees whose reset worked,
  `OldIsPinned` and the second half of `CountsAreRight` of runs whose copies worked.
* After a re-pin a `pr-<N>.bc` of the old baseline is skipped (l.383) and benched against the new
  `old.bc`. `README.md:49-51` has every pull request applied onto the baseline. The
  model records the baseline of each bitcode; no property relates it to that of `old.bc`.

`SummaryNeedsMain` says what `ab_summarize.py` does, not what one would like: a file in
which only perf could be stored ends in a `ZeroDivisionError` (l.36) before
the incremental table, and one that lost its header in a `KeyError`.
`DominanceShows` needs the same samples on both branches; for other files
the medians compare different PRs, and the table does not show it.

`FirstOkCoversChange` is the part of the claim `run_bench_store` refutes that does hold: the
caller sample, the first of a project, always runs on the store of `old.bc`, so its
`ok` covers every bug that its own whole-module run reports through a changed function.

`OkIsEarned` is about runs whose reports are new (`run.fresh`): the model has the
stale ones too, and with them the property does not hold, but nothing in the
repository says that the analyzer may exit with 0 without a report.
`ExitStatusIsRight` of the regression gate is about fresh output directories, the
default, for the same reason.

## Fairness

* `AbBranches`: weak fairness of the script's own steps. Every analyzer call is
  under `timeout 600` (l.39, 61). `Invoke` and `Kill` are not fair.
* `RunBench`: weak fairness of `Next`; every analyzer call is under
  `timeout $TIMEOUT` (l.41), the rest is a sequential script.
* `BugRegression`: weak fairness of the Python process (`Harness`: its threads
  are scheduled), and, for `Terminates` only, of each analyzer's exit. The second is
  an assumption about the analyzer, not about this code: `bug_regression_hang` drops
  it and shows what happens.
* `Gates`: weak fairness of what the script does by itself and of the time limit
  that `subprocess.run` keeps; nothing is assumed of the analyzer. `EndsInTime`
  is about the six gates with a limit or without an analyzer; the wrapper gate and
  the statistic gate have none.
* `AbSummarize`, `FaAb`: no liveness.
* `BuildPrBc`: no liveness; builds have no time limit.

## Proofs

Every safety property of every passing run is also a theorem, checked to the last leaf. The
constants are arbitrary but for the named assumptions (`InputAssumption`,
`SentinelAssumption`, `BuildAssumption`, `TableAssumption`, `FixtureAssumption`,
`CasesAssumption`, `ReportsAssumption`, `SamplesAssumption`, `ModulesAssumption`,
`NoFileAssumption`, `TimeAssumption`), which TLC evaluates in the runs: finite
lists and directories, sentinels that are no values, types. Repeats, kills, pins, samples,
cases, reports and times are not bounded. Two theorems have a hypothesis of their own,
named below.

Each component has an inductive invariant, `IInv`; its properties alone are not
inductive, since they speak of the end (`pc = "done"`) or of one step, and say nothing of
what the scripts know on the way there.

`AbBranchesProofs`
: `Invariance`: `Spec => []IInv` with `IInv == TypeOK /\ CallState /\
  OwnStorePristine`. `OwnStorePristine` speaks of runs that are over; it
  is not inductive, because the step that records a run looks at the directory
  it ran on. `CallState` adds what that rests on: a call that stored finds its
  snapshot pristine for as long as it runs, and the working directory
  too when the analyzer starts; and the store row or the inc row is present or
  missing exactly where the script relies on it. Kills reset `stored`, so a resumed
  call promises nothing, which is where `ResumedPristine` fails.
: `TypeCorrect`, `CallsRelyOnTheirState`, `PristineMeasurements`: the parts.
: `NothingForgotten`: `Spec => []Accounted`, with `Progress`: the projects that the outer
  loop has left behind are over on both branches, `main` is over when it is the turn
  of `perf`, and the samples that the inner loop has left behind have a row or failed.
: `FileIsMeasurementLog`: `Spec => LogSpec`. Only the two successful analyzer
  steps change the file; `CallState` gives that the row was missing and, for an inc
  row, that its store row is there.

`RunBenchProofs`
: `IInv` says where the two loops are (`Place`), which rows the summaries have by then
  (`Progress`: the caller row and the samples that are no longer in `todo`, each once),
  that `FAIL` is set iff a project that was started has a failing row (`FailKnown`), and what the
  files of the sample under way can be (`RunKnown`).
: `ExitStatusIsCorrect`, `SummaryIsComplete`, `TypeCorrect` follow.
: `OkIsAlwaysEarned`: `Spec => OkIsEarned`. The work set of the file is the one of the store
  the run started on (`RunKnown`), and `CompareAccepts` is the lemma about `compare_cone_reports.py`: it accepts iff the
  incremental report is contained in the scratch report and has all of its cone bugs.
: `FirstOkIsRight`: `Spec => FirstOkCoversChange`, with `FirstOnOld`: until a project has a
  row, its store, and then the store its run started on, is that of `old.bc`. For later
  samples this fails (run `run_bench_store`).

`BugRegressionProofs`
: `NothingMissingIsFound`: comparing the counts of each key, as `compare` does with two
  `Counter`s, finds nothing missing iff every expected finding can be given a reported
  sink of its own. Reports are any sequences.
: `IInv` relates the two sides: a worker has an outcome iff it is done (`Workers`), the
  collected results are those of different finished cases (`Rows`), and (`Main`) without a pool
  one case at a time is open, the main thread aborts only if a case raised, and at the end no
  analyzer runs.
: `NoAnalyzerIsLeftBehind`, `TypeCorrect` follow.
: `ExitStatusIsCorrect` has the hypothesis `OwnReportFile`, no two cases with the same
  `project`: they would write the same `report.json`. The committed suite meets it,
  the script does not check it. `Verdicts` adds to the invariant that, in a fresh output
  directory, the file of a case is what its own analyzer wrote.

`BuildPrBcProofs`
: `IInv` adds to `OwnSourcesOnly` what the tree and `/tmp/prbc_out.bc` hold at
  each step (`OldUnderWay`, `PrUnderWay`), and that the bitcode being
  built is missing.
: `BitcodeHasOwnSources`: `Spec => []OwnSourcesOnly`: for a tree whose reset worked, and up to
  `Stray`; with `Stray` empty a whole bitcode has its own pull request alone.
: `ResumingKeepsBitcode`: `Spec => WholeStays`; a copy or a kill during it
  touches a bitcode that is missing.
: `ScriptsRelyOnTheirState`: `Spec => []CInv`, on top of `IInv`: a rebuild has no
  `old.bc` before a bitcode of the pin is copied to it (`PinnedUnderWay`), and how often the list
  names a pull request is at every step the sum of its entries still to do, under way,
  counted as ready and counted as failed (`CountsUnderWay`).
  `RebuiltOldIsPinned` and `ClosingCountsAreRight` are its ends. That `old.bc` is of the
  pinned commit does not need a clean tree; what else is in it, `OwnSourcesOnly` says.

`GatesProofs`
: `ExitStatusIsVerdict`: `Spec => []ExitIsVerdict`, for any table that meets
  `TableAssumption` and `FixtureAssumption` and reports of any size. `FoundIsEnd` is
  the core: under `FixtureAssumption` a watched function in which a trace ends is
  found, one that must be absent is found only if a trace ends in it, and any other that is
  found is in a trace that ends in a function which is not watched. The invariant adds that `found` is
  `Funcs` of the reports so far (`Collected`) and that as many runs have been made as
  the place of the script says (`Placed`); a gate that dies early has not made all.
: `TypeCorrect`: `Spec => []TypeOK`.
: `UnfixedIsRejected`: `Spec => []RejectsUnfixed`, under the hypothesis that the table is the
  one of the repository (`TableOf = RepoTable!Table`), for any other
  functions reported and any statistics. It rests on `ExitStatusIsVerdict` and, for
  each gate, on one watched function that the unfixed analyzer gets wrong.

`AbSummarizeProofs`
: `IInv`: the rows are combinations with times of their kind, and under a header no
  combination comes twice (`Unique`). Without a header the second part is false (the first row is
  invisible to the lookup), so it is stated only under one.
: `TotalsAreRight`: `Spec => []TotalsAreSums`. With `Unique`, projects and store rows
  of a branch correspond one to one, and the sum is reindexed (`SumReindexes`).
: `SummaryNeedsOnlyMain`: a sum of times is 0 iff there is none, as times are above 0.
: `DominanceIsShown`: `Spec => []DominanceShows`. If both branches have the same samples, pairing
  them is an injection each way (`Pairing`), so the sorted lists have the same length and keep at
  each place the order that all pairs have (`SortedDominance`, from `KthIsMonotonic`); medians and
  wins only look at places.

`DataTheorems`
: Lemmas about data of any size, cited by `AbSummarizeProofs`: the community modules' `SumFunctionOnSet`, a recursive
  definition with `CHOOSE`, is well defined on finite sets, does not depend on the order
  (`SumTakesOut`) and can be reindexed (`SumReindexes`); every k-th smallest member exists
  (`KthExists`) and is monotonic (`KthIsMonotonic`). The induction theorems of the
  library take an operator, which the provers cannot instantiate; induction is stated as the
  absence of a least counterexample instead (`LeastNumber`, from the well-foundedness of `<`).

Only model-checked: liveness (`Terminates` of three components and `EndsInTime`), which
needs fairness and `ENABLED`, out of the prover's reach. The runs that end in a violation show
behaviours and have nothing to prove.

## Not modelled, and the plan

Done, in this order, most important behaviour first: `AbBranches` with its abstract
log and proofs, `RunBench` on `ConeReports` and `FermatCheck`, `BugRegression`,
`BuildPrBc`, `Gates`, `AbSummarize`, `FaAb`; then the proofs of all safety properties.

Next, modelling: composition of `BuildPrBc` and `RunBench` over the table and the
bitcode directory; concurrent builder invocations over `/tmp/prbc_out.bc`; the git
refs of the source repository.

Next, proofs: what liveness rests on, as safety: that every step of a script between
two invocations lowers a measure; the composition of the builders, once it is
modelled. For `FaAb` no property of the script holds beyond the first run, so there is
nothing to prove.

Not planned: measured times, log wording and table layout; `gen_bc_readme.py`
(formatting); the straight-line compile scripts; the recorded reports (data).
