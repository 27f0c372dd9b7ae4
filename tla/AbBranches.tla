------------------------------ MODULE AbBranches ------------------------------
(***************************************************************************)
(* scripts/ab_branches.sh: the A/B harness. For every project and for both *)
(* analyzer builds ("branches") it stores old.bc once, snapshots the store *)
(* directory, and runs the incremental mode on every pr-*.bc, each time on *)
(* a fresh copy of the snapshot. Results go to a TSV file that a later     *)
(* invocation reads to skip what is already measured.                      *)
(*                                                                         *)
(* A directory is the set of bitcode files whose SEGs it holds completely: *)
(* {Old} is the pristine store, {} an existing directory whose store or    *)
(* copy was cut short, NoDir a directory that does not exist. The analyzer *)
(* may succeed, fail or time out at every call, and the harness may be     *)
(* killed at any moment and invoked again. Times are not modelled.         *)
(***************************************************************************)
EXTENDS Naturals, Sequences, FiniteSets

CONSTANTS
    Project,     \* the names PROJECTS may list
    Built,       \* those with a directory under $BC
    Sample,      \* base names of pr-*.bc files
    SamplesOf,   \* SamplesOf[p]: the samples in $BC/p
    Old,         \* old.bc
    NoDir,       \* a directory that does not exist
    None,        \* "no project / sample yet"
    Runs,        \* $RUNS
    MaxKills     \* bound on the kills of a behaviour

ASSUME InputAssumption ==
    /\ Built \subseteq Project
    /\ SamplesOf \in [Project -> SUBSET Sample]
    /\ Runs \in Nat \ {0}
    /\ MaxKills \in Nat

ASSUME SentinelAssumption ==
    /\ Old \notin Sample
    /\ \A d \in SUBSET ({Old} \cup Sample) : NoDir # d
    /\ None \notin Project \cup Sample

Branch  == {"main", "perf"}
Bitcode == {Old} \cup Sample
Dir     == {NoDir} \cup SUBSET Bitcode
Cell    == Branch \X Project      \* names the pair pdir, store_snap

\* A row of the TSV file without its time.
Key == [branch : Branch, project : Project, mode : {"store", "inc"},
        sample : Bitcode]

VARIABLES
    out,      \* $OUT: the rows appended so far
    pdir,     \* /tmp/ab_<branch>_<project>
    snap,     \* /tmp/ab_<branch>_<project>_snap
    pc,       \* where the script is
    projs,    \* projects the outer loop has still to visit
    proj,     \* arguments of run_branch_project
    branch,
    todo,     \* samples its loop has still to visit
    sample,   \* loop variables s and r
    r,
    plan,     \* history: the PROJECTS of this invocation
    stored,   \* history: this call has stored and snapshotted old.bc itself
    used,     \* history: on which stores the recorded incremental runs started
    failed,   \* history: combinations whose analyzer call failed in this invocation
    kills     \* number of kills so far

files == <<out, pdir, snap>>
args  == <<projs, proj, branch, plan>>
loop  == <<todo, sample, r>>
hist  == <<stored, used, failed, kills>>
vars  == <<files, pc, args, loop, hist>>

Cur         == <<branch, proj>>
StoreKey(c) == [branch |-> c[1], project |-> c[2], mode |-> "store", sample |-> Old]
IncKey(c,s) == [branch |-> c[1], project |-> c[2], mode |-> "inc", sample |-> s]

\* A lookup that forgets to compare the branch column.
HaveAnyBranch(k) ==
    \E i \in 1..Len(out) : [out[i] EXCEPT !.branch = k.branch] = k

\* The awk lookup: is there a row for the combination k?
Have(k) == \E i \in 1..Len(out) : out[i] = k

\* Incremental mode writes the SEGs it rebuilt for s back to its directory,
\* which it creates when it does not exist.
WriteBack(d, s) == (IF d = NoDir THEN {} ELSE d) \cup {s}

Init ==
    /\ out = <<>>
    /\ pdir = [c \in Cell |-> NoDir]
    /\ snap = [c \in Cell |-> NoDir]
    /\ pc = "idle"
    /\ projs = {} /\ plan = {} /\ proj = None /\ branch = "main"
    /\ todo = {} /\ sample = None /\ r = 1 /\ stored = FALSE
    /\ used = {} /\ failed = {} /\ kills = 0

-------------------------------------------------------------------------------
(* The outer loop *)

\* The script is started on some of the projects (an empty PROJECTS means all).
Invoke ==
    /\ pc \in {"idle", "done"}
    /\ \E P \in SUBSET Project \ {{}} : plan' = P /\ projs' = P
    /\ pc' = "project"
    /\ failed' = {}
    /\ UNCHANGED <<files, proj, branch, loop, stored, used, kills>>

\* The next project: skipped without a directory, else "main" goes first.
NextProject ==
    /\ pc = "project"
    /\ \E p \in projs :
          /\ projs' = projs \ {p}
          /\ \/ /\ p \notin Built
                /\ UNCHANGED <<pc, proj, branch>>
             \/ /\ p \in Built
                /\ proj' = p /\ branch' = "main" /\ pc' = "call"
    /\ UNCHANGED <<files, plan, loop, hist>>

Finish ==
    /\ pc = "project" /\ projs = {}
    /\ pc' = "done"
    /\ UNCHANGED <<files, args, loop, hist>>

\* The locals of run_branch_project go out of scope.
Forget == todo' = {} /\ sample' = None /\ r' = 1 /\ stored' = FALSE

\* run_branch_project returns: "perf" follows "main", the next project "perf".
Return ==
    /\ IF branch = "main" THEN branch' = "perf" /\ proj' = proj /\ pc' = "call"
                          ELSE branch' = "main" /\ proj' = None /\ pc' = "project"
    /\ Forget
    /\ UNCHANGED <<projs, plan>>

-------------------------------------------------------------------------------
(* Storing the baseline *)

\* The store row exists: go straight to the samples.
SkipStore ==
    /\ pc = "call" /\ Have(StoreKey(Cur))
    /\ stored' = FALSE
    /\ todo' = SamplesOf[proj]
    /\ pc' = "samples"
    /\ UNCHANGED <<files, args, sample, r, used, failed, kills>>

\* Clear both directories and start the analyzer on old.bc.
StartStore ==
    /\ pc = "call" /\ ~Have(StoreKey(Cur))
    /\ pdir' = [pdir EXCEPT ![Cur] = {}]
    /\ snap' = [snap EXCEPT ![Cur] = NoDir]
    /\ pc' = "storing"
    /\ UNCHANGED <<out, args, loop, hist>>

\* rc = 0: the row is appended before the store is copied.
StoreOk ==
    /\ pc = "storing"
    /\ pdir' = [pdir EXCEPT ![Cur] = {Old}]
    /\ out' = Append(out, StoreKey(Cur))
    /\ pc' = "copying"
    /\ UNCHANGED <<snap, args, loop, hist>>

\* rc # 0 or the timeout: give up on this branch of the project.
StoreFail ==
    /\ pc = "storing"
    /\ \E d \in {{}, {Old}} : pdir' = [pdir EXCEPT ![Cur] = d]
    /\ failed' = failed \cup {StoreKey(Cur)}
    /\ Return
    /\ UNCHANGED <<out, snap, used, kills>>

\* A copy taken of the directory after it was moved away.
SnapshotOfSnapshot ==
    /\ pc = "copying"
    /\ pdir' = [pdir EXCEPT ![Cur] = NoDir]
    /\ snap' = [snap EXCEPT ![Cur] = pdir'[Cur]]
    /\ stored' = TRUE
    /\ todo' = SamplesOf[proj]
    /\ pc' = "samples"
    /\ UNCHANGED <<out, args, sample, r, used, failed, kills>>

\* The finished store is copied aside; the call goes on to its samples.
Snapshot ==
    /\ pc = "copying"
    /\ snap' = [snap EXCEPT ![Cur] = pdir[Cur]]
    /\ stored' = TRUE
    /\ todo' = SamplesOf[proj]
    /\ pc' = "samples"
    /\ UNCHANGED <<out, pdir, args, sample, r, used, failed, kills>>

-------------------------------------------------------------------------------
(* Measuring the samples *)

NextSample ==
    /\ pc = "samples"
    /\ \E s \in todo : sample' = s /\ todo' = todo \ {s}
    /\ r' = 1
    /\ pc' = "runs"
    /\ UNCHANGED <<files, args, hist>>

RunsOver ==
    /\ pc = "runs" /\ r > Runs
    /\ pc' = "samples"
    /\ UNCHANGED <<files, args, loop, hist>>

\* A skip that goes on after the last repeat.
SkipIncForever ==
    /\ pc = "runs" /\ Have(IncKey(Cur, sample))
    /\ r' = r + 1
    /\ UNCHANGED <<files, pc, args, todo, sample, hist>>

\* The row exists: skip this repeat.
SkipInc ==
    /\ pc = "runs" /\ r <= Runs /\ Have(IncKey(Cur, sample))
    /\ r' = r + 1
    /\ UNCHANGED <<files, pc, args, todo, sample, hist>>

\* A restore that leaves an existing directory as the last run wrote it.
RestoreIfMissing ==
    /\ pc = "runs" /\ r <= Runs /\ ~Have(IncKey(Cur, sample))
    /\ pdir' = [pdir EXCEPT ![Cur] = IF @ = NoDir THEN snap[Cur] ELSE @]
    /\ pc' = "analyse"
    /\ UNCHANGED <<out, snap, args, loop, hist>>

\* A restore that does not look whether the row exists.
RestoreAlways ==
    /\ pc = "runs" /\ r <= Runs
    /\ pdir' = [pdir EXCEPT ![Cur] = snap[Cur]]
    /\ pc' = "analyse"
    /\ UNCHANGED <<out, snap, args, loop, hist>>

\* Replace the working directory by a copy of the snapshot. A missing
\* snapshot makes cp fail, which nothing checks: the directory is then gone.
Restore ==
    /\ pc = "runs" /\ r <= Runs /\ ~Have(IncKey(Cur, sample))
    /\ pdir' = [pdir EXCEPT ![Cur] = snap[Cur]]
    /\ pc' = "analyse"
    /\ UNCHANGED <<out, snap, args, loop, hist>>

\* rc = 0: the analyzer has written back, the row is appended.
IncOk ==
    /\ pc = "analyse"
    /\ pdir' = [pdir EXCEPT ![Cur] = WriteBack(@, sample)]
    /\ out' = Append(out, IncKey(Cur, sample))
    /\ used' = used \cup {[base |-> pdir[Cur], own |-> stored]}
    /\ r' = r + 1
    /\ pc' = "runs"
    /\ UNCHANGED <<snap, args, todo, sample, stored, failed, kills>>

\* A failure that is tried again instead of being reported.
IncFailRetry ==
    /\ pc = "analyse"
    /\ pdir' = [pdir EXCEPT ![Cur] = WriteBack(@, sample)]
    /\ failed' = failed \cup {IncKey(Cur, sample)}
    /\ pc' = "runs"
    /\ UNCHANGED <<out, snap, args, loop, stored, used, kills>>

\* rc # 0 or the timeout: no row, on to the next repeat.
IncFail ==
    /\ pc = "analyse"
    /\ \E d \in {pdir[Cur], WriteBack(pdir[Cur], sample)} :
          pdir' = [pdir EXCEPT ![Cur] = d]
    /\ failed' = failed \cup {IncKey(Cur, sample)}
    /\ r' = r + 1
    /\ pc' = "runs"
    /\ UNCHANGED <<out, snap, args, todo, sample, stored, used, kills>>

Cleanup ==
    /\ pc = "samples" /\ todo = {}
    /\ pdir' = [pdir EXCEPT ![Cur] = NoDir]
    /\ snap' = [snap EXCEPT ![Cur] = NoDir]
    /\ Return
    /\ UNCHANGED <<out, used, failed, kills>>

-------------------------------------------------------------------------------
(* The harness is killed: what it was writing may be cut short. *)

\* What rm -rf or cp -r of a directory leaves when it is cut short.
Part(d) == {NoDir} \cup SUBSET (IF d = NoDir THEN {} ELSE d)

\* Before the call has looked for the store row nothing is removed; without
\* the row it clears both directories.
Clearing == pc = "samples" \/ (pc = "call" /\ ~Have(StoreKey(Cur)))

\* Directories a kill at this point can leave for the current cell. The
\* analyzer is taken to die with the script.
KilledPdir ==
    CASE Clearing       -> {pdir[Cur]} \cup Part(pdir[Cur])
      [] pc = "storing" -> {{}, {Old}}
      [] pc = "runs"    -> {pdir[Cur]} \cup Part(pdir[Cur]) \cup Part(snap[Cur])
      [] pc = "analyse" -> {pdir[Cur], WriteBack(pdir[Cur], sample)}
      [] OTHER          -> {pdir[Cur]}

KilledSnap ==
    CASE Clearing       -> {snap[Cur]} \cup Part(snap[Cur])
      [] pc = "copying" -> Part(pdir[Cur])
      [] OTHER          -> {snap[Cur]}

Kill ==
    /\ pc \notin {"idle", "done"} /\ kills < MaxKills
    /\ kills' = kills + 1
    /\ IF pc = "project"
          THEN UNCHANGED <<pdir, snap>>
          ELSE /\ \E d \in KilledPdir : pdir' = [pdir EXCEPT ![Cur] = d]
               /\ \E d \in KilledSnap : snap' = [snap EXCEPT ![Cur] = d]
    /\ pc' = "idle"
    /\ projs' = {} /\ plan' = {} /\ proj' = None /\ branch' = "main"
    /\ Forget
    /\ failed' = {}
    /\ UNCHANGED <<out, used>>

-------------------------------------------------------------------------------
Step ==
    \/ NextProject \/ Finish
    \/ SkipStore \/ StartStore \/ StoreOk \/ StoreFail \/ Snapshot
    \/ NextSample \/ RunsOver \/ SkipInc \/ Restore \/ IncOk \/ IncFail \/ Cleanup

Next == Invoke \/ Step \/ Kill

Spec     == Init /\ [][Next]_vars
\* The analyzer runs under `timeout 600` (lines 39, 61), so a started script
\* takes its next step sooner or later. Nobody has to start or kill it.
FairSpec == Spec /\ WF_vars(Step)

-------------------------------------------------------------------------------
(* Properties *)

Rows == {out[i] : i \in 1..Len(out)}

\* Every variable holds values of its type.
TypeOK ==
    /\ out \in Seq(Key)
    /\ pdir \in [Cell -> Dir] /\ snap \in [Cell -> Dir]
    /\ pc \in {"idle", "project", "call", "storing", "copying", "samples",
               "runs", "analyse", "done"}
    /\ projs \subseteq Project /\ plan \subseteq Project
    /\ proj \in Project \cup {None} /\ branch \in Branch
    /\ todo \subseteq Sample /\ sample \in Sample \cup {None}
    /\ r \in 1..(Runs + 1)
    /\ stored \in BOOLEAN
    /\ used \subseteq [base : Dir, own : BOOLEAN]
    /\ failed \subseteq Key
    /\ kills \in 0..MaxKills

\* An incremental run that a call records after storing old.bc itself started
\* from exactly the stored baseline: no earlier sample, no failed run and no
\* leftover of a killed invocation is in it (lines 44-47 and 57-58).
OwnStorePristine == \A u \in used : u.own => u.base = {Old}

\* What a call of run_branch_project relies on at each of its steps. Between
\* the test for the store row and its append no row appears; from then on the
\* row is there; an incremental run is under way only while it has no row; and
\* a call that stored old.bc finds its snapshot pristine, and the working
\* directory too when the analyzer starts. OwnStorePristine rests on this.
InCall == {"call", "storing", "copying", "samples", "runs", "analyse"}
InLoop == {"samples", "runs", "analyse"}
CallState ==
    /\ pc \in InCall => proj \in Project
    /\ pc \in {"runs", "analyse"} => sample \in Sample
    /\ pc = "storing" => StoreKey(Cur) \notin Rows
    /\ pc \in InLoop \cup {"copying"} => StoreKey(Cur) \in Rows
    /\ pc = "copying" => pdir[Cur] = {Old}
    /\ pc = "analyse" => r <= Runs /\ IncKey(Cur, sample) \notin Rows
    /\ stored => pc \in InLoop /\ snap[Cur] = {Old}
    /\ stored /\ pc = "analyse" => pdir[Cur] = {Old}

IInv == TypeOK /\ CallState /\ OwnStorePristine

\* Lines 44-46 and docs/ab-branch-comparison.md:90 ("Resumable: re-running
\* skips combos already in the TSV") together: every recorded incremental run
\* started from the pristine store, also in an invocation that resumes.
ResumedPristine == \A u \in used : u.base = {Old}

\* An invocation that reaches the end has dealt with every combination of its
\* projects: it has a row, or its analyzer call or its store failed.
Accounted ==
    pc = "done" =>
        \A b \in Branch, p \in plan \cap Built :
            \/ StoreKey(<<b, p>>) \in failed
            \/ /\ StoreKey(<<b, p>>) \in Rows
               /\ \A s \in SamplesOf[p] : IncKey(<<b, p>>, s) \in Rows \cup failed

\* Line 23 ("repeats for min-of-N"): an invocation that ends without a failure
\* has measured every sample of its projects Runs times.
RunsRepeated ==
    pc = "done" /\ failed = {} =>
        \A b \in Branch, p \in plan \cap Built : \A s \in SamplesOf[p] :
            Cardinality({i \in 1..Len(out) : out[i] = IncKey(<<b, p>>, s)}) >= Runs

\* Every started script ends, whatever the analyzer does (or it is killed).
Terminates == pc = "project" ~> pc \in {"idle", "done"}

\* The TSV file is a resumable measurement log: append only, one row per
\* combination across kills and re-invocations, store row before inc rows.
Log == INSTANCE MeasurementLog WITH
         log <- out,
         SetupOf <- [k \in Key |-> StoreKey(<<k.branch, k.project>>)]
LogSpec == Log!Spec
===============================================================================
