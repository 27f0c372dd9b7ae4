--------------------------------- MODULE FaAb ---------------------------------
(***************************************************************************)
(* scripts/fa_ab.sh: the full-analysis A/B. For every project it stores    *)
(* old.bc with the feat build, or takes the store of STORE_DIR, snapshots  *)
(* it, and runs both builds on every PR on a copy of the snapshot.         *)
(*                                                                         *)
(* run_full is called in a command substitution: the RC it sets is the     *)
(* subshell's, and the script tests its own, which it has from the         *)
(* environment or not at all (set -u).                                     *)
(***************************************************************************)
EXTENDS Naturals

CONSTANTS
    Project,    \* $PRJS
    SamplesOf,  \* SamplesOf[p]: the pr-*.bc of p
    StoreId,    \* what a store directory can hold
    Unset, NoDir

Branch == {"main", "perf"}

VARIABLES
    RC,       \* the script's variable
    reuse,    \* is there a store in STORE_DIR? Its contents, or NoDir
    out,      \* the rows of $OUT
    pdir, snap,   \* /tmp/fa_<proj> and /tmp/fa_<proj>_snap
    pc, todo, proj, prs, sample,
    good      \* history: the runs that succeeded

files == <<out, pdir, snap>>
vars  == <<RC, reuse, files, pc, todo, proj, prs, sample, good>>

Init ==
    /\ RC \in {Unset, 0, 1} /\ reuse \in StoreId \cup {NoDir}
    /\ out = {} /\ good = {}
    /\ pdir = [p \in Project |-> NoDir]
    /\ snap \in [Project -> StoreId \cup {NoDir}]  \* an invocation before may have left it
    /\ pc = "project" /\ todo = Project
    /\ proj = CHOOSE p \in Project : TRUE
    /\ prs = {} /\ sample = Unset

NextProject == pc = "project" /\ \E p \in todo : proj' = p /\ todo' = todo \ {p}

\* cp -r into a directory that exists puts the store inside it, and what the
\* analyzer finds at the top is what was there.
CopyTo(d) == [snap EXCEPT ![proj'] = IF @ = NoDir THEN d ELSE @]

\* The store of STORE_DIR is taken; the old snapshot is not removed.
Reuse ==
    /\ reuse # NoDir /\ NextProject
    /\ pdir' = [pdir EXCEPT ![proj'] = reuse]
    /\ snap' = CopyTo(reuse)
    /\ prs' = SamplesOf[proj'] /\ pc' = "pr"
    /\ UNCHANGED <<RC, reuse, out, sample, good>>

StoreOk ==
    /\ reuse = NoDir /\ NextProject
    /\ \E d \in StoreId :
          /\ pdir' = [pdir EXCEPT ![proj'] = d]
          /\ snap' = [snap EXCEPT ![proj'] = d]
    /\ prs' = SamplesOf[proj'] /\ pc' = "pr"
    /\ UNCHANGED <<RC, reuse, out, sample, good>>

StoreFail ==
    /\ reuse = NoDir /\ NextProject
    /\ \E d \in StoreId : pdir' = [pdir EXCEPT ![proj'] = d]
    /\ snap' = [snap EXCEPT ![proj'] = NoDir]
    /\ UNCHANGED <<RC, reuse, out, pc, prs, sample, good>>

StartPr ==
    /\ pc = "pr"
    /\ \E s \in prs : sample' = s /\ prs' = prs \ {s}
    /\ pc' = "main"
    /\ UNCHANGED <<RC, reuse, files, todo, proj, good>>

\* One build runs on a copy of the snapshot; its row depends on RC.
Run ==
    /\ pc \in Branch
    /\ LET row == <<pc, proj, sample>> IN
          /\ good' \in {good, good \cup {row}}
          /\ IF RC = Unset
                THEN pc' = "aborted" /\ UNCHANGED out
                ELSE /\ out' = IF RC = 0 THEN out \cup {row} ELSE out
                     /\ pc' = IF pc = "main" THEN "perf" ELSE "pr"
    /\ UNCHANGED <<RC, reuse, pdir, snap, todo, proj, prs, sample>>

ProjectDone ==
    /\ pc = "pr" /\ prs = {}
    /\ pdir' = [pdir EXCEPT ![proj] = NoDir]
    /\ snap' = [snap EXCEPT ![proj] = NoDir]
    /\ pc' = "project"
    /\ UNCHANGED <<RC, reuse, out, todo, proj, prs, sample, good>>

Finish ==
    /\ pc = "project" /\ todo = {}
    /\ pc' = "done"
    /\ UNCHANGED <<RC, reuse, files, todo, proj, prs, sample, good>>

Next == Reuse \/ StoreOk \/ StoreFail \/ StartPr \/ Run \/ ProjectDone \/ Finish

Spec == Init /\ [][Next]_vars

-------------------------------------------------------------------------------
(* Properties *)

\* Lines 7-9 ("For each PR: a. main incremental ... b. feat incremental"): when
\* the script ends, every run on a PR of a stored project that succeeded, and
\* no other, has a row, and no run was left out.
EveryPrMeasured ==
    pc \in {"done", "aborted"} =>
        /\ prs = {} /\ todo = {}
        /\ out = good
===============================================================================
