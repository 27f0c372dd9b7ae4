------------------------------- MODULE BuildPrBc -------------------------------
(***************************************************************************)
(* scripts/build_pr_bc.sh and scripts/build_old_bc.sh for one project:     *)
(* build old.bc from the pinned source tree, then one bitcode per pull     *)
(* request by putting its files onto the baseline, building, and copying   *)
(* /tmp/prbc_out.bc to pr-<N>.bc. A bitcode that exists is not built       *)
(* again.                                                                  *)
(*                                                                         *)
(* A bitcode file is what it was built from: the pin of the tree and the   *)
(* pull requests of which some file was in front of the builder, or Mixed  *)
(* when the tree had not been reset; NoFile when it is missing or has size *)
(* 0 (test -s); Partial when a copy was cut short. git and the builders    *)
(* may fail at every call, and the scripts may be killed at any moment.    *)
(* They run under `set -u` alone: a failing git reset, checkout or clean,  *)
(* or a failing cp, goes unnoticed. The pin may move between invocations;  *)
(* run_bench.sh rewrites the results table. A builder compiles what is in  *)
(* front of it: what make takes for up to date is left out.                *)
(***************************************************************************)
EXTENDS Naturals

CONSTANTS
    Pr,          \* pull requests and synthetic edits
    Recorded,    \* those of the committed results/<proj>/summary.tsv
    Round2,      \* those of the project in results/round2/summary.tsv
    Stray,       \* those that bring a file which no baseline has, to a project
                 \* whose builder links every *.bc it finds (build_libsodium)
    Prs,         \* lists that $PRS may hold
    NoFile, Partial, Mixed, NoPr,
    MaxTimes,    \* bound on the times a list names one pull request
    MaxPin,      \* bound on the commits the submodule is pinned to
    MaxKills     \* bound on the kills of a behaviour

\* How often each pull request is in a list. The order of a list is left open.
List == [Pr -> 0..MaxTimes]
Nothing == [n \in Pr |-> 0]

ASSUME BuildAssumption ==
    /\ Recorded \subseteq Pr /\ Round2 \subseteq Pr /\ Stray \subseteq Pr
    /\ Prs \subseteq List \ {Nothing}
    /\ NoPr \notin Pr /\ Mixed \notin Pr
    /\ MaxTimes \in Nat \ {0, 1} /\ MaxPin \in Nat \ {0} /\ MaxKills \in Nat

Built == [base : 1..MaxPin, edits : SUBSET (Pr \cup {Mixed})]
File  == {NoFile, Partial} \cup Built

ASSUME SentinelAssumption ==
    NoFile \notin Built /\ Partial \notin Built /\ NoFile # Partial

VARIABLES
    pin,      \* HEAD of the source tree
    tree,     \* the pull requests of which some file is in the working tree, and
              \* Mixed when the last reset failed
    side,     \* those of which an object is left that a build still links
    tmp,      \* /tmp/prbc_out.bc
    old,      \* bc/<proj>/old.bc
    out,      \* out[pr]: bc/<proj>/pr-<pr>.bc
    table,    \* first column of results/<proj>/summary.tsv: <<prefix, name>>
    pc,
    mode,     \* "prs", "onlyOld" (ONLY_OLD=1), "rebuild" (build_old_bc.sh)
    list,     \* prs
    todo,     \* what is left of it
    cur,      \* the pull request of this iteration
    got,      \* how often each was counted in $got and in $fail
    fail,
    cpOk,     \* history: every cp of this invocation worked
    benched,  \* history: pull requests run_bench.sh has put into the table
    kills     \* number of kills so far

source == <<pin, tree, side>>
files  == <<old, out>>
prog   == <<mode, list, todo, cur, got, fail, cpOk>>
outer  == <<table, benched, kills>>
vars   == <<source, tmp, files, pc, prog, outer>>

Exists(file) == file # NoFile
Plain(prs)  == {<<"", n>> : n \in prs}

\* read_prs: the rows of one table and then of the other, as often as they are
\* there; only rows that are a bare number or syn<N>.
ReadPrs == [n \in Pr |-> (IF <<"", n>> \in table THEN 1 ELSE 0)
                       + (IF n \in Round2 THEN 1 ELSE 0)]

Init ==
    /\ pin = 1 /\ tree = {} /\ side = {} /\ tmp = NoFile
    /\ old = NoFile /\ out = [n \in Pr |-> NoFile]
    /\ table = Plain(Recorded) /\ benched = {}
    /\ pc = "idle" /\ mode = "prs"
    /\ list = Nothing /\ todo = Nothing /\ cur = NoPr
    /\ got = Nothing /\ fail = Nothing /\ cpOk = TRUE
    /\ kills = 0

-------------------------------------------------------------------------------
(* Starting the scripts *)

NewRun(m) ==
    /\ mode' = m /\ cpOk' = TRUE
    /\ list' = Nothing /\ todo' = Nothing /\ cur' = NoPr
    /\ got' = Nothing /\ fail' = Nothing

\* build_pr_bc.sh <project>, perhaps with ONLY_OLD=1.
Invoke ==
    /\ pc = "idle"
    /\ \E m \in {"prs", "onlyOld"} : NewRun(m)
    /\ pc' = "old"
    /\ UNCHANGED <<source, tmp, files, outer>>

\* build_old_bc.sh moves the tree to the pinned commit. What a checkout does
\* not have to overwrite stays in the working tree.
RebuildOld ==
    /\ pc = "idle"
    /\ pin' \in {pin, pin + 1} \cap 1..MaxPin
    /\ NewRun("rebuild")
    /\ pc' = "rebuild"
    /\ UNCHANGED <<tree, side, tmp, files, outer>>

\* A rebuild that leaves the old baseline in place.
RemoveOldKept ==
    /\ pc = "rebuild"
    /\ pc' = "old"
    /\ UNCHANGED <<source, tmp, files, prog, outer>>

\* It removes old.bc and calls build_pr_bc.sh with ONLY_OLD=1.
RemoveOld ==
    /\ pc = "rebuild"
    /\ old' = NoFile
    /\ pc' = "old"
    /\ UNCHANGED <<source, tmp, out, prog, outer>>

-------------------------------------------------------------------------------
(* The tree and the builders *)

\* git reset, checkout and clean: back to the baseline sources, or, when one of
\* them fails, to a tree that may still have files of earlier pull requests.
ResetSources ==
    \/ tree' = {}
    \/ \E kept \in SUBSET tree : tree' = kept \cup {Mixed}

\* The objects of a file that no baseline has stay behind.
Objects == side \cup (tree \cap Stray)

\* A builder makes what is in front of it into /tmp/prbc_out.bc, or fails.
BuildTree ==
    /\ tmp' = [base |-> pin, edits |-> IF Mixed \in tree THEN {Mixed} ELSE tree \cup side]
    /\ side' = Objects
BuildFailed == tmp' \in {tmp, NoFile, Partial} /\ side' \in {side, Objects}

-------------------------------------------------------------------------------
(* old.bc *)

AfterOld == IF mode = "prs" THEN "list" ELSE "done"

KeepOld ==
    /\ pc = "old" /\ Exists(old)
    /\ pc' = AfterOld
    /\ UNCHANGED <<source, tmp, files, prog, outer>>

\* This git clean has no -e: objects that git does not ignore go too.
CleanForOld ==
    /\ pc = "old" /\ ~Exists(old)
    /\ ResetSources /\ side' \in SUBSET side
    /\ pc' = "buildOld"
    /\ UNCHANGED <<pin, tmp, files, prog, outer>>

BuildOldOk ==
    /\ pc = "buildOld" /\ BuildTree
    /\ pc' = "copyOld"
    /\ UNCHANGED <<pin, tree, files, prog, outer>>

\* die "old.bc build failed"
BuildOldFail ==
    /\ pc = "buildOld" /\ BuildFailed
    /\ pc' = "dead"
    /\ UNCHANGED <<pin, tree, files, prog, outer>>

CopyOld ==
    /\ pc = "copyOld"
    /\ \/ old' = tmp /\ UNCHANGED cpOk
       \/ old' \in {NoFile, Partial} /\ cpOk' = FALSE
    /\ pc' = AfterOld
    /\ UNCHANGED <<source, tmp, out, mode, list, todo, cur, got, fail, outer>>

-------------------------------------------------------------------------------
(* The pull requests *)

\* The list of the tables, or any other in PRS.
StartList ==
    /\ pc = "list"
    /\ list' \in {ReadPrs} \cup Prs
    /\ todo' = list'
    /\ pc' = "next"
    /\ UNCHANGED <<source, tmp, files, mode, cur, got, fail, cpOk, outer>>

Take(n) == todo[n] > 0 /\ todo' = [todo EXCEPT ![n] = @ - 1]
CountFail == fail' = [fail EXCEPT ![cur] = @ + 1]

\* The bitcode is there: skip, and count it.
SkipPr ==
    /\ pc = "next"
    /\ \E n \in Pr :
          Exists(out[n]) /\ Take(n) /\ got' = [got EXCEPT ![n] = @ + 1]
    /\ UNCHANGED <<source, tmp, files, pc, mode, list, cur, fail, cpOk, outer>>

\* An iteration that builds on top of the last one.
ResetTreeSkipped ==
    /\ pc = "next"
    /\ \E n \in Pr : ~Exists(out[n]) /\ Take(n) /\ cur' = n
    /\ pc' = "apply"
    /\ UNCHANGED <<pin, tree, side, tmp, files, mode, list, got, fail, cpOk, outer>>

\* An iteration that does not look for the bitcode.
ResetTreeAlways ==
    /\ pc = "next"
    /\ \E n \in Pr : Take(n) /\ cur' = n
    /\ ResetSources
    /\ pc' = "apply"
    /\ UNCHANGED <<pin, side, tmp, files, mode, list, got, fail, cpOk, outer>>

\* git clean keeps the objects (-e).
ResetTree ==
    /\ pc = "next"
    /\ \E n \in Pr : ~Exists(out[n]) /\ Take(n) /\ cur' = n
    /\ ResetSources
    /\ pc' = "apply"
    /\ UNCHANGED <<pin, side, tmp, files, mode, list, got, fail, cpOk, outer>>

\* apply_pr_files, which is content with one file, or synthetic_touch.
Apply ==
    /\ pc = "apply"
    /\ tree' = tree \cup {cur}
    /\ pc' = "build"
    /\ UNCHANGED <<pin, side, tmp, files, prog, outer>>

\* A failed edit that is counted and built all the same.
ApplyFailGoesOn ==
    /\ pc = "apply"
    /\ tree' \in {tree, tree \cup {cur}}
    /\ CountFail
    /\ pc' = "build"
    /\ UNCHANGED <<pin, side, tmp, files, mode, list, todo, cur, got, cpOk, outer>>

\* The fetch, the diff or the edit fails, or no file of the pull request
\* could be copied whole.
ApplyFail ==
    /\ pc = "apply"
    /\ tree' \in {tree, tree \cup {cur}}
    /\ CountFail
    /\ pc' = "next"
    /\ UNCHANGED <<pin, side, tmp, files, mode, list, todo, cur, got, cpOk, outer>>

BuildOk ==
    /\ pc = "build" /\ BuildTree
    /\ pc' = "copy"
    /\ UNCHANGED <<pin, tree, files, prog, outer>>

\* A failed build whose leftover is copied all the same.
BuildFailCopied ==
    /\ pc = "build" /\ BuildFailed
    /\ CountFail
    /\ pc' = "copy"
    /\ UNCHANGED <<pin, tree, files, mode, list, todo, cur, got, cpOk, outer>>

BuildFail ==
    /\ pc = "build" /\ BuildFailed
    /\ CountFail
    /\ pc' = "next"
    /\ UNCHANGED <<pin, tree, files, mode, list, todo, cur, got, cpOk, outer>>

\* The pull request counts as ready, whether cp worked or not.
Copy ==
    /\ pc = "copy"
    /\ \/ out' = [out EXCEPT ![cur] = tmp] /\ UNCHANGED cpOk
       \/ /\ \E file \in {NoFile, Partial} : out' = [out EXCEPT ![cur] = file]
          /\ cpOk' = FALSE
    /\ got' = [got EXCEPT ![cur] = @ + 1]
    /\ pc' = "next"
    /\ UNCHANGED <<source, tmp, old, mode, list, todo, cur, fail, outer>>

ListDone ==
    /\ pc = "next" /\ todo = Nothing
    /\ pc' = "done"
    /\ UNCHANGED <<source, tmp, files, prog, outer>>

-------------------------------------------------------------------------------
(* Around the scripts *)

\* The script has ended; the next may start.
Reinvoke ==
    /\ pc \in {"done", "dead"}
    /\ NewRun("prs")
    /\ pc' = "idle"
    /\ UNCHANGED <<source, tmp, files, outer>>

\* run_bench.sh writes a new table: the caller sample, and the base name of
\* every bitcode next to old.bc; or one row, when old.bc cannot be stored.
Bench ==
    /\ pc = "idle" /\ Exists(old)
    /\ \/ /\ old \in Built
          /\ benched' = {n \in Pr : Exists(out[n])}
          /\ table' = {<<"caller", "">>} \cup {<<"pr-", n>> : n \in benched'}
       \/ /\ benched' = {}
          /\ table' = {<<"old", "">>}
    /\ UNCHANGED <<source, tmp, files, pc, prog, kills>>

\* A kill: what was under way is cut short, be it git, an edit of the tree, a
\* build or a copy.
Kill ==
    /\ pc \notin {"idle", "done", "dead"} /\ kills < MaxKills
    /\ kills' = kills + 1
    /\ tree' \in IF pc \in {"old", "next"} THEN SUBSET tree
                 ELSE IF pc = "apply" THEN {tree, tree \cup {cur}} ELSE {tree}
    /\ side' \in IF pc = "old" THEN SUBSET side
                 ELSE IF pc \in {"build", "buildOld"} THEN {side, Objects} ELSE {side}
    /\ tmp' \in IF pc \in {"build", "buildOld"} THEN {tmp, NoFile, Partial} ELSE {tmp}
    /\ old' \in IF pc = "copyOld" THEN {NoFile, Partial, tmp} ELSE {old}
    /\ \E file \in {NoFile, Partial, tmp} :
          out' = IF pc = "copy" THEN [out EXCEPT ![cur] = file] ELSE out
    /\ pc' = "dead"
    /\ UNCHANGED <<pin, prog, table, benched>>

Next ==
    \/ Invoke \/ RebuildOld \/ RemoveOld
    \/ KeepOld \/ CleanForOld \/ BuildOldOk \/ BuildOldFail \/ CopyOld
    \/ StartList \/ SkipPr \/ ResetTree \/ Apply \/ ApplyFail
    \/ BuildOk \/ BuildFail \/ Copy \/ ListDone
    \/ Reinvoke \/ Bench \/ Kill

Spec == Init /\ [][Next]_vars

-------------------------------------------------------------------------------
(* Properties *)

\* Every variable holds values of its type.
TypeOK ==
    /\ pin \in 1..MaxPin
    /\ tree \subseteq Pr \cup {Mixed} /\ side \subseteq Stray
    /\ tmp \in File /\ old \in File /\ out \in [Pr -> File]
    /\ pc \in {"idle", "rebuild", "old", "buildOld", "copyOld", "list", "next",
               "apply", "build", "copy", "done", "dead"}
    /\ mode \in {"prs", "onlyOld", "rebuild"}
    /\ list \in List /\ todo \in List /\ got \in List /\ fail \in List
    /\ cur \in Pr \cup {NoPr} /\ cpOk \in BOOLEAN
    /\ table \subseteq {<<"caller", "">>, <<"old", "">>} \cup ({"", "pr-"} \X Pr)
    /\ benched \subseteq Pr
    /\ kills \in 0..MaxKills

\* A whole bitcode that was built after a reset of the tree that worked has its
\* own sources in it and, but for stray objects, no others: those of no pull
\* request in old.bc, of the one in pr-<N>.bc (README.md:49-51). It does not
\* matter which pull requests failed or were killed half-way before.
OwnSourcesOnly ==
    /\ old \in Built /\ Mixed \notin old.edits => old.edits \subseteq Stray
    /\ \A n \in Pr : out[n] \in Built /\ Mixed \notin out[n].edits =>
          n \in out[n].edits /\ out[n].edits \subseteq {n} \cup Stray

\* A finished build_old_bc.sh whose cp worked leaves a whole baseline of the
\* commit that is pinned now, whatever an earlier, failed or killed invocation
\* left of old.bc.
OldIsPinned ==
    pc = "done" /\ mode = "rebuild" /\ cpOk => old \in Built /\ old.base = pin

\* The closing count is right also for a list that names a pull request more
\* than once: each entry is counted once, as ready or as failed. When every cp
\* worked, a listed pull request has a bitcode iff it was counted as ready.
CountsAreRight ==
    pc = "done" /\ mode = "prs" =>
        \A n \in Pr :
            /\ got[n] + fail[n] = list[n]
            /\ cpOk /\ list[n] > 0 => (got[n] > 0 <=> Exists(out[n]))

\* Resuming never replaces a bitcode that is whole (README.md:197).
WholeStays == [][\A n \in Pr : out[n] \in Built => out'[n] = out[n]]_vars

\* README.md:186-188: the script "reads the PR list straight from the
\* committed summary.tsv, so it reproduces exactly the PRs in the recorded
\* tables" that run_bench.sh writes.
ListReproducible == \A n \in benched : ReadPrs[n] > 0
================================================================================
