---------------------------- MODULE BuildPrBcProofs ----------------------------
(***************************************************************************)
(* Proofs about BuildPrBc, for every set of pull requests and of stray     *)
(* ones, every list, number of re-pins and number of kills: a whole        *)
(* bitcode has its own sources in it when its tree could be reset, and is  *)
(* never replaced; old.bc is the one of the pinned commit when             *)
(* build_old_bc.sh has finished; and the closing count is right.           *)
(***************************************************************************)
EXTENDS BuildPrBc, TLAPS

-------------------------------------------------------------------------------
(* The inductive invariant. OwnSourcesOnly speaks of the files that were     *)
(* copied; what makes it inductive is what the working tree and              *)
(* /tmp/prbc_out.bc hold on the way there.                                   *)

Types ==
    /\ pin \in 1..MaxPin /\ tree \subseteq Pr \cup {Mixed} /\ side \subseteq Stray
    /\ cur \in Pr \cup {NoPr}
    /\ tmp \in File /\ old \in File /\ out \in [Pr -> File]

\* While old.bc is built, it is missing, and the tree is the baseline unless it
\* could not be reset.
OldUnderWay ==
    /\ pc \in {"buildOld", "copyOld"} => old = NoFile
    /\ pc = "buildOld" => Mixed \in tree \/ tree = {}
    /\ pc = "copyOld" =>
          tmp \in Built /\ (Mixed \in tmp.edits \/ tmp.edits \subseteq Stray)

\* While a bitcode is built, it is missing, and the tree goes from the baseline
\* to the baseline with this one pull request, unless it could not be reset.
PrUnderWay ==
    /\ pc \in {"apply", "build", "copy"} => cur \in Pr /\ out[cur] = NoFile
    /\ pc = "apply" => Mixed \in tree \/ tree = {}
    /\ pc = "build" => Mixed \in tree \/ tree = {cur}
    /\ pc = "copy" =>
          /\ tmp \in Built
          /\ \/ Mixed \in tmp.edits
             \/ cur \in tmp.edits /\ tmp.edits \subseteq {cur} \cup Stray

IInv == Types /\ OldUnderWay /\ PrUnderWay /\ OwnSourcesOnly

-------------------------------------------------------------------------------
(* The tree and the builders *)

\* A builder that succeeds makes a whole bitcode of what is in front of it.
LEMMA BuildTreeIsBuilt ==
    ASSUME Types, BuildTree
    PROVE  /\ tmp' \in Built /\ tmp' \in File /\ tmp'.base = pin
           /\ tmp'.edits = IF Mixed \in tree THEN {Mixed} ELSE tree \cup side
           /\ side' \subseteq Stray
<1> DEFINE edits == IF Mixed \in tree THEN {Mixed} ELSE tree \cup side
<1>1. edits \subseteq Pr \cup {Mixed}
    BY BuildAssumption DEF Types
<1>2. tmp' = [base |-> pin, edits |-> edits]
    BY DEF BuildTree
<1> HIDE DEF edits
<1>3. tmp' \in Built /\ tmp'.base = pin /\ tmp'.edits = edits
    BY <1>1, <1>2 DEF Types, Built
<1>4. side' \subseteq Stray
    BY DEF BuildTree, Objects, Types
<1> QED BY <1>3, <1>4 DEF File, edits

\* Whatever a builder leaves when it fails is a file, and stray objects.
LEMMA LeftoverIsFile ==
    ASSUME Types, BuildFailed
    PROVE  tmp' \in File /\ side' \subseteq Stray
BY DEF Types, BuildFailed, Objects, File

\* After a reset the tree is the baseline, or marked.
LEMMA ResetLeavesBaseline ==
    ASSUME Types, ResetSources
    PROVE  tree' \subseteq Pr \cup {Mixed} /\ (Mixed \in tree' \/ tree' = {})
BY DEF Types, ResetSources

\* The invariant holds before the first invocation.
LEMMA InitIInv == Init => IInv
<1> SUFFICES ASSUME Init PROVE IInv
    OBVIOUS
<1>1. Types
    BY BuildAssumption DEF Init, Types, File
<1>2. OldUnderWay /\ PrUnderWay
    BY DEF Init, OldUnderWay, PrUnderWay
<1>3. OwnSourcesOnly
    BY SentinelAssumption DEF Init, OwnSourcesOnly
<1> QED BY <1>1, <1>2, <1>3 DEF IInv

-------------------------------------------------------------------------------
(* Every step keeps the invariant: one lemma for each script's part. *)

\* Starting a script builds nothing, and build_old_bc.sh only removes old.bc.
LEMMA StartKeepsIInv ==
    ASSUME IInv, Invoke \/ RebuildOld \/ RemoveOld \/ Reinvoke \/ Bench
    PROVE  IInv'
<1> USE DEF IInv, source, files, prog, outer, NewRun
<1>1. CASE Invoke
    BY <1>1 DEF Invoke, Types, OldUnderWay, PrUnderWay, OwnSourcesOnly
<1>2. CASE RebuildOld
    BY <1>2 DEF RebuildOld, Types, OldUnderWay, PrUnderWay, OwnSourcesOnly
<1>3. CASE RemoveOld
    <2>1. Types'
        BY <1>3 DEF RemoveOld, Types, File
    <2>2. OldUnderWay' /\ PrUnderWay'
        BY <1>3 DEF RemoveOld, OldUnderWay, PrUnderWay
    <2>3. OwnSourcesOnly'
        BY <1>3, SentinelAssumption DEF RemoveOld, OwnSourcesOnly
    <2> QED BY <2>1, <2>2, <2>3
<1>4. CASE Reinvoke
    BY <1>4 DEF Reinvoke, Types, OldUnderWay, PrUnderWay, OwnSourcesOnly
<1>5. CASE Bench
    <2>1. UNCHANGED <<pin, tree, side, tmp, old, out, pc, cur>>
        BY <1>5 DEF Bench
    <2> QED BY <2>1 DEF Types, OldUnderWay, PrUnderWay, OwnSourcesOnly
<1> QED BY <1>1, <1>2, <1>3, <1>4, <1>5

\* old.bc is copied from what was built of the baseline tree.
LEMMA OldKeepsIInv ==
    ASSUME IInv, KeepOld \/ CleanForOld \/ BuildOldOk \/ BuildOldFail \/ CopyOld
    PROVE  IInv'
<1> USE DEF IInv, source, files, prog, outer, AfterOld
<1>1. CASE KeepOld
    BY <1>1 DEF KeepOld, Types, OldUnderWay, PrUnderWay, OwnSourcesOnly
<1>2. CASE CleanForOld
    <2>1. tree' \subseteq Pr \cup {Mixed} /\ (Mixed \in tree' \/ tree' = {})
        BY <1>2, ResetLeavesBaseline DEF CleanForOld
    <2>2. side' \subseteq Stray
        BY <1>2 DEF CleanForOld, Types
    <2> QED BY <1>2, <2>1, <2>2
            DEF CleanForOld, Exists, Types, OldUnderWay, PrUnderWay, OwnSourcesOnly
<1>3. CASE BuildOldOk
    <2>1. /\ tmp' \in Built /\ tmp' \in File /\ side' \subseteq Stray
          /\ tmp'.edits = IF Mixed \in tree THEN {Mixed} ELSE tree \cup side
        BY <1>3, BuildTreeIsBuilt DEF BuildOldOk
    <2>2. Mixed \in tmp'.edits \/ tmp'.edits \subseteq Stray
        BY <1>3, <2>1 DEF BuildOldOk, OldUnderWay, Types
    <2> QED BY <1>3, <2>1, <2>2
            DEF BuildOldOk, Types, OldUnderWay, PrUnderWay, OwnSourcesOnly
<1>4. CASE BuildOldFail
    <2>1. tmp' \in File /\ side' \subseteq Stray
        BY <1>4, LeftoverIsFile DEF BuildOldFail
    <2> QED BY <1>4, <2>1
            DEF BuildOldFail, Types, OldUnderWay, PrUnderWay, OwnSourcesOnly
<1>5. CASE CopyOld
    <2>1. old' \in {NoFile, Partial, tmp} /\ tmp \in Built
          /\ (Mixed \in tmp.edits \/ tmp.edits \subseteq Stray)
        BY <1>5 DEF CopyOld, OldUnderWay
    <2>2. Types'
        BY <1>5, <2>1 DEF CopyOld, Types, File
    <2>3. OldUnderWay' /\ PrUnderWay'
        BY <1>5 DEF CopyOld, OldUnderWay, PrUnderWay
    <2>4. OwnSourcesOnly'
        BY <1>5, <2>1, SentinelAssumption DEF CopyOld, OwnSourcesOnly
    <2> QED BY <2>2, <2>3, <2>4
<1> QED BY <1>1, <1>2, <1>3, <1>4, <1>5

\* A pull request that is built has no bitcode yet, and its tree starts from
\* the baseline, or marked.
LEMMA ListKeepsIInv ==
    ASSUME IInv,
           StartList \/ SkipPr \/ ResetTree \/ Apply \/ ApplyFail \/ ListDone
    PROVE  IInv'
<1> USE DEF IInv, source, files, prog, outer
<1>1. CASE StartList
    BY <1>1 DEF StartList, Types, OldUnderWay, PrUnderWay, OwnSourcesOnly
<1>2. CASE SkipPr
    BY <1>2 DEF SkipPr, Types, OldUnderWay, PrUnderWay, OwnSourcesOnly
<1>3. CASE ResetTree
    <2>1. PICK n \in Pr : ~Exists(out[n]) /\ cur' = n
        BY <1>3 DEF ResetTree
    <2>2. tree' \subseteq Pr \cup {Mixed} /\ (Mixed \in tree' \/ tree' = {})
        BY <1>3, ResetLeavesBaseline DEF ResetTree
    <2> QED BY <1>3, <2>1, <2>2
            DEF ResetTree, Exists, Types, OldUnderWay, PrUnderWay, OwnSourcesOnly
<1>4. CASE Apply
    BY <1>4 DEF Apply, Types, OldUnderWay, PrUnderWay, OwnSourcesOnly
<1>5. CASE ApplyFail
    <2>1. tree' \subseteq Pr \cup {Mixed}
        BY <1>5 DEF ApplyFail, Types, PrUnderWay
    <2> QED BY <1>5, <2>1 DEF ApplyFail, Types, OldUnderWay, PrUnderWay, OwnSourcesOnly
<1>6. CASE ListDone
    BY <1>6 DEF ListDone, Types, OldUnderWay, PrUnderWay, OwnSourcesOnly
<1> QED BY <1>1, <1>2, <1>3, <1>4, <1>5, <1>6

\* What is copied to pr-<N>.bc was built of this pull request.
LEMMA BuildKeepsIInv ==
    ASSUME IInv, BuildOk \/ BuildFail \/ Copy
    PROVE  IInv'
<1> USE DEF IInv, source, files, prog, outer
<1>1. CASE BuildOk
    <2>1. /\ tmp' \in Built /\ tmp' \in File /\ side' \subseteq Stray
          /\ tmp'.edits = IF Mixed \in tree THEN {Mixed} ELSE tree \cup side
        BY <1>1, BuildTreeIsBuilt DEF BuildOk
    <2>2. \/ Mixed \in tmp'.edits
          \/ cur \in tmp'.edits /\ tmp'.edits \subseteq {cur} \cup Stray
        BY <1>1, <2>1 DEF BuildOk, PrUnderWay, Types
    <2> QED BY <1>1, <2>1, <2>2
            DEF BuildOk, Types, OldUnderWay, PrUnderWay, OwnSourcesOnly
<1>2. CASE BuildFail
    <2>1. tmp' \in File /\ side' \subseteq Stray
        BY <1>2, LeftoverIsFile DEF BuildFail
    <2> QED BY <1>2, <2>1
            DEF BuildFail, Types, OldUnderWay, PrUnderWay, OwnSourcesOnly
<1>3. CASE Copy
    <2>1. PICK file \in {NoFile, Partial, tmp} : out' = [out EXCEPT ![cur] = file]
        BY <1>3 DEF Copy
    <2>2. /\ cur \in Pr /\ tmp \in Built
          /\ \/ Mixed \in tmp.edits
             \/ cur \in tmp.edits /\ tmp.edits \subseteq {cur} \cup Stray
        BY <1>3 DEF Copy, PrUnderWay
    <2>3. \A n \in Pr : out'[n] = IF n = cur THEN file ELSE out[n]
        BY <2>1, <2>2 DEF Types
    <2>4. OwnSourcesOnly'
        BY <1>3, <2>2, <2>3, SentinelAssumption DEF Copy, OwnSourcesOnly
    <2>5. Types'
        <3>1. file \in File
            BY <2>2 DEF File
        <3> QED BY <1>3, <2>1, <3>1 DEF Copy, Types
    <2>6. OldUnderWay' /\ PrUnderWay'
        BY <1>3 DEF Copy, OldUnderWay, PrUnderWay
    <2> QED BY <2>4, <2>5, <2>6
<1> QED BY <1>1, <1>2, <1>3

\* What a kill leaves of a copy is nothing, a part of it, or all of it.
LEMMA KillKeepsIInv ==
    ASSUME IInv, Kill
    PROVE  IInv'
<1> USE DEF IInv, source, files, prog, outer
<1>1. PICK file \in {NoFile, Partial, tmp} :
          out' = IF pc = "copy" THEN [out EXCEPT ![cur] = file] ELSE out
    BY DEF Kill
<1>2. Types'
    <2>1. tmp' \in File /\ old' \in File /\ file \in File
        BY DEF Kill, Types, File
    <2>2. tree' \subseteq Pr \cup {Mixed}
        BY DEF Kill, Types, PrUnderWay
    <2>3. side' \subseteq Stray
        BY DEF Kill, Types, Objects
    <2>4. out' \in [Pr -> File]
        BY <1>1, <2>1 DEF Types
    <2> QED BY <2>1, <2>2, <2>3, <2>4 DEF Kill, Types
<1>3. old' \in Built /\ Mixed \notin old'.edits => old'.edits \subseteq Stray
    <2>1. CASE pc = "copyOld"
        BY <2>1, SentinelAssumption DEF Kill, OldUnderWay
    <2>2. CASE pc # "copyOld"
        BY <2>2 DEF Kill, OwnSourcesOnly
    <2> QED BY <2>1, <2>2
<1>4. ASSUME NEW n \in Pr, out'[n] \in Built, Mixed \notin out'[n].edits
      PROVE  n \in out'[n].edits /\ out'[n].edits \subseteq {n} \cup Stray
    <2>1. CASE pc = "copy" /\ n = cur
        <3>1. out'[n] = tmp
            BY <1>1, <1>4, <2>1, SentinelAssumption DEF Types
        <3> QED BY <1>4, <2>1, <3>1 DEF PrUnderWay
    <2>2. CASE ~(pc = "copy" /\ n = cur)
        <3>1. out'[n] = out[n]
            BY <1>1, <2>2 DEF Types
        <3> QED BY <1>4, <3>1 DEF OwnSourcesOnly
    <2> QED BY <2>1, <2>2
<1>5. OldUnderWay' /\ PrUnderWay'
    BY DEF Kill, OldUnderWay, PrUnderWay
<1> QED BY <1>2, <1>3, <1>4, <1>5 DEF OwnSourcesOnly

\* Every step of the scripts, of their user and of run_bench.sh keeps the
\* invariant.
LEMMA NextIInv == IInv /\ [Next]_vars => IInv'
<1> SUFFICES ASSUME IInv, [Next]_vars PROVE IInv'
    OBVIOUS
<1>1. CASE Next
    BY <1>1, StartKeepsIInv, OldKeepsIInv, ListKeepsIInv, BuildKeepsIInv,
       KillKeepsIInv DEF Next
<1>2. CASE UNCHANGED vars
    BY <1>2 DEF vars, source, files, prog, outer, IInv, Types, OldUnderWay,
       PrUnderWay, OwnSourcesOnly
<1> QED BY <1>1, <1>2

-------------------------------------------------------------------------------
(* Theorems *)

\* The invariant holds in every reachable state.
THEOREM Invariance == Spec => []IInv
<1> QED BY InitIInv, NextIInv, PTL DEF Spec

\* README.md:49-51: after a reset that worked, whichever pull requests failed or
\* were killed half-way before, a whole bitcode holds its own pull request and
\* no other but stray objects; with no stray ones, its own alone.
THEOREM BitcodeHasOwnSources == Spec => []OwnSourcesOnly
<1>1. IInv => OwnSourcesOnly
    BY DEF IInv
<1> QED BY <1>1, Invariance, PTL

\* A step replaces only a bitcode that is missing.
LEMMA StepKeepsWhole ==
    ASSUME IInv, [Next]_vars
    PROVE  \A n \in Pr : out[n] \in Built => out'[n] = out[n]
<1> SUFFICES ASSUME NEW n \in Pr, out[n] \in Built
             PROVE  out'[n] = out[n]
    OBVIOUS
<1> USE DEF source, files, prog, outer
<1>1. pc = "copy" => n # cur
    BY SentinelAssumption DEF IInv, PrUnderWay
<1>2. CASE Copy
    BY <1>1, <1>2 DEF Copy, IInv, Types
<1>3. CASE Kill
    BY <1>1, <1>3 DEF Kill, IInv, Types
<1>4. CASE ~Copy /\ ~Kill
    <2>1. out' = out
        BY <1>4 DEF Next, vars, Invoke, RebuildOld, RemoveOld, KeepOld, CleanForOld,
           BuildOldOk, BuildOldFail, CopyOld, StartList, SkipPr, ResetTree, Apply,
           ApplyFail, BuildOk, BuildFail, ListDone, Reinvoke, Bench
    <2> QED BY <2>1
<1> QED BY <1>2, <1>3, <1>4

\* README.md:197: a resumed invocation never builds a whole bitcode again.
THEOREM ResumingKeepsBitcode == Spec => WholeStays
<1>1. IInv /\ [Next]_vars => [\A n \in Pr : out[n] \in Built => out'[n] = out[n]]_vars
    BY StepKeepsWhole
<1> QED BY <1>1, Invariance, PTL DEF Spec, WholeStays

-------------------------------------------------------------------------------
(* The baseline and the count. The second invariant says what the scripts   *)
(* know of old.bc and of the list while they run; it is kept next to IInv.  *)

\* The types of the variables IInv does not speak of.
RestTypes ==
    /\ pc \in {"idle", "rebuild", "old", "buildOld", "copyOld", "list", "next",
               "apply", "build", "copy", "done", "dead"}
    /\ mode \in {"prs", "onlyOld", "rebuild"}
    /\ list \in List /\ todo \in List /\ got \in List /\ fail \in List
    /\ benched \subseteq Pr
    /\ kills \in 0..MaxKills

\* Only a call without ONLY_OLD gets to the list. A rebuild of old.bc finds
\* none, and what it copies is of the pinned commit.
PinnedUnderWay ==
    /\ mode # "prs" => pc \in {"rebuild", "old", "buildOld", "copyOld", "done", "dead"}
    /\ mode = "rebuild" /\ pc = "old" => old = NoFile
    /\ pc = "copyOld" => tmp \in Built /\ tmp.base = pin
    /\ OldIsPinned

\* The pull request of the iteration that is under way.
UnderWay(n) == IF pc \in {"apply", "build", "copy"} /\ n = cur THEN 1 ELSE 0

InLoop == pc \in {"next", "apply", "build", "copy"} \/ (pc = "done" /\ mode = "prs")

\* In the loop every entry of the list is counted, still to come or the one
\* under way, and what was counted was counted rightly unless a cp failed.
CountsUnderWay ==
    /\ pc \in {"idle", "rebuild", "old", "buildOld", "copyOld", "list"} =>
          got = Nothing /\ fail = Nothing
    /\ InLoop => \A n \in Pr :
          /\ got[n] + fail[n] + todo[n] + UnderWay(n) = list[n]
          /\ cpOk /\ got[n] > 0 => out[n] # NoFile
          /\ out[n] # NoFile /\ list[n] > 0 => got[n] > 0 \/ todo[n] > 0
    /\ pc = "done" /\ mode = "prs" => todo = Nothing

CInv == RestTypes /\ PinnedUnderWay /\ CountsUnderWay

\* An empty list, and the list of the tables, are lists.
LEMMA ListsAreLists == Nothing \in List /\ ReadPrs \in List /\ Prs \subseteq List
<1>1. MaxTimes \in Nat /\ {0, 1, 2} \subseteq 0..MaxTimes
    BY BuildAssumption
<1>2. \A n \in Pr : (IF <<"", n>> \in table THEN 1 ELSE 0)
                   + (IF n \in Round2 THEN 1 ELSE 0) \in {0, 1, 2}
    <2> SUFFICES ASSUME NEW n \in Pr
                 PROVE  (IF <<"", n>> \in table THEN 1 ELSE 0)
                      + (IF n \in Round2 THEN 1 ELSE 0) \in {0, 1, 2}
        OBVIOUS
    <2> DEFINE inTable == IF <<"", n>> \in table THEN 1 ELSE 0
               inRound2 == IF n \in Round2 THEN 1 ELSE 0
    <2>1. inTable \in {0, 1} /\ inRound2 \in {0, 1}
        OBVIOUS
    <2> HIDE DEF inTable, inRound2
    <2>2. inTable + inRound2 \in {0, 1, 2}
        BY <2>1
    <2> QED BY <2>2 DEF inTable, inRound2
<1>3. Nothing \in List /\ ReadPrs \in List
    BY <1>1, <1>2 DEF Nothing, ReadPrs, List
<1> QED BY <1>3, BuildAssumption

\* It holds before the first invocation.
LEMMA InitCInv == Init => CInv
<1> SUFFICES ASSUME Init PROVE CInv
    OBVIOUS
<1>1. RestTypes
    BY BuildAssumption, ListsAreLists DEF Init, RestTypes
<1>2. PinnedUnderWay /\ CountsUnderWay
    BY DEF Init, PinnedUnderWay, OldIsPinned, CountsUnderWay, InLoop
<1> QED BY <1>1, <1>2 DEF CInv

\* Starting a script, and what happens between two scripts.
LEMMA StartKeepsCInv ==
    ASSUME IInv, CInv, Invoke \/ RebuildOld \/ RemoveOld \/ Reinvoke \/ Bench \/ Kill
    PROVE  CInv'
<1> USE DEF CInv, source, files, prog, outer, NewRun
<1>1. CASE Invoke
    BY <1>1, ListsAreLists
       DEF Invoke, RestTypes, PinnedUnderWay, OldIsPinned, CountsUnderWay, InLoop
<1>2. CASE RebuildOld
    BY <1>2, ListsAreLists
       DEF RebuildOld, RestTypes, PinnedUnderWay, OldIsPinned, CountsUnderWay, InLoop
<1>3. CASE RemoveOld
    BY <1>3
       DEF RemoveOld, RestTypes, PinnedUnderWay, OldIsPinned, CountsUnderWay, InLoop
<1>4. CASE Reinvoke
    BY <1>4, ListsAreLists
       DEF Reinvoke, RestTypes, PinnedUnderWay, OldIsPinned, CountsUnderWay, InLoop
<1>5. CASE Bench
    <2>1. UNCHANGED <<pin, tmp, old, out, pc, mode, list, todo, cur, got, fail, cpOk, kills>>
        BY <1>5 DEF Bench
    <2>2. benched' \subseteq Pr
        BY <1>5 DEF Bench
    <2>3. RestTypes'
        BY <2>1, <2>2 DEF RestTypes
    <2> QED
        BY <2>1, <2>3 DEF PinnedUnderWay, OldIsPinned, CountsUnderWay, InLoop, UnderWay
<1>6. CASE Kill
    <2>1. kills' \in 0..MaxKills /\ pc' = "dead"
        BY <1>6, BuildAssumption DEF Kill, RestTypes
    <2>2. UNCHANGED <<mode, list, todo, cur, got, fail, benched>>
        BY <1>6 DEF Kill
    <2> QED BY <2>1, <2>2 DEF RestTypes, PinnedUnderWay, OldIsPinned, CountsUnderWay, InLoop
<1> QED BY <1>1, <1>2, <1>3, <1>4, <1>5, <1>6

\* Building old.bc counts nothing, and its copy ends a build_old_bc.sh.
LEMMA OldKeepsCInv ==
    ASSUME IInv, CInv, KeepOld \/ CleanForOld \/ BuildOldOk \/ BuildOldFail \/ CopyOld
    PROVE  CInv'
<1> USE DEF CInv, source, files, prog, outer, AfterOld
<1>1. CASE KeepOld
    BY <1>1
       DEF KeepOld, Exists, RestTypes, PinnedUnderWay, OldIsPinned, CountsUnderWay, InLoop
<1>2. CASE CleanForOld
    BY <1>2
       DEF CleanForOld, RestTypes, PinnedUnderWay, OldIsPinned, CountsUnderWay, InLoop
<1>3. CASE BuildOldOk
    <2>1. tmp' \in Built /\ tmp'.base = pin
        BY <1>3, BuildTreeIsBuilt DEF BuildOldOk, IInv
    <2> QED BY <1>3, <2>1
            DEF BuildOldOk, RestTypes, PinnedUnderWay, OldIsPinned, CountsUnderWay, InLoop
<1>4. CASE BuildOldFail
    BY <1>4
       DEF BuildOldFail, RestTypes, PinnedUnderWay, OldIsPinned, CountsUnderWay, InLoop
<1>5. CASE CopyOld
    <2>1. cpOk' => old' \in Built /\ old'.base = pin
        BY <1>5 DEF CopyOld, PinnedUnderWay
    <2> QED BY <1>5, <2>1
            DEF CopyOld, RestTypes, PinnedUnderWay, OldIsPinned, CountsUnderWay, InLoop
<1> QED BY <1>1, <1>2, <1>3, <1>4, <1>5

\* Taking an entry from the list leaves a list with one entry less.
LEMMA TakeOne ==
    ASSUME todo \in List, NEW n \in Pr, Take(n)
    PROVE  /\ todo' \in List /\ todo[n] \in Nat \ {0}
           /\ \A m \in Pr : todo'[m] = IF m = n THEN todo[m] - 1 ELSE todo[m]
BY BuildAssumption DEF Take, List

\* The count of a pull request whose iteration is under way stays within the
\* bound of a list.
LEMMA CountOne ==
    ASSUME CInv, NEW n \in Pr, InLoop, UnderWay(n) = 1 \/ todo[n] > 0
    PROVE  /\ [got EXCEPT ![n] = @ + 1] \in List
           /\ [fail EXCEPT ![n] = @ + 1] \in List
<1>1. got[n] + fail[n] + todo[n] + UnderWay(n) = list[n]
    BY DEF CInv, CountsUnderWay
<1>2. /\ got \in [Pr -> 0..MaxTimes] /\ fail \in [Pr -> 0..MaxTimes]
      /\ got[n] \in Nat /\ fail[n] \in Nat /\ todo[n] \in Nat /\ UnderWay(n) \in Nat
      /\ list[n] \in 0..MaxTimes /\ MaxTimes \in Nat
    BY BuildAssumption DEF CInv, RestTypes, List, UnderWay
<1>3. got[n] + 1 \in 0..MaxTimes /\ fail[n] + 1 \in 0..MaxTimes
    BY <1>1, <1>2
<1> QED BY <1>2, <1>3 DEF List

\* An iteration takes an entry from the list and counts it once: as ready when
\* the bitcode is there, as failed while it is missing.
LEMMA ListKeepsCInv ==
    ASSUME IInv, CInv,
           \/ StartList \/ SkipPr \/ ResetTree \/ Apply \/ ApplyFail \/ ListDone
           \/ BuildOk \/ BuildFail \/ Copy
    PROVE  CInv'
<1> USE DEF CInv, source, files, prog, outer
<1> DEFINE Entry(n) == got[n] + fail[n] + todo[n] + UnderWay(n) = list[n]
           Right(n) == /\ cpOk /\ got[n] > 0 => out[n] # NoFile
                       /\ out[n] # NoFile /\ list[n] > 0 => got[n] > 0 \/ todo[n] > 0
<1>0. \A n \in Pr : got[n] \in Nat /\ fail[n] \in Nat /\ todo[n] \in Nat /\ list[n] \in Nat
    BY BuildAssumption DEF RestTypes, List
<1>1. CASE StartList
    <2>1. list' \in List /\ todo' = list' /\ got = Nothing /\ fail = Nothing
        BY <1>1, ListsAreLists DEF StartList, CountsUnderWay
    <2>2. \A n \in Pr : list'[n] \in Nat /\ got'[n] = 0 /\ fail'[n] = 0
        BY <1>1, <2>1, BuildAssumption DEF StartList, List, Nothing
    <2>3. CountsUnderWay'
        BY <1>1, <2>1, <2>2 DEF StartList, CountsUnderWay, InLoop, UnderWay
    <2> QED BY <1>1, <2>1, <2>3 DEF StartList, RestTypes, PinnedUnderWay, OldIsPinned
<1>2. CASE SkipPr
    <2>1. PICK n \in Pr : Exists(out[n]) /\ Take(n) /\ got' = [got EXCEPT ![n] = @ + 1]
        BY <1>2 DEF SkipPr
    <2>2. /\ todo' \in List /\ todo[n] \in Nat \ {0}
          /\ \A m \in Pr : todo'[m] = IF m = n THEN todo[m] - 1 ELSE todo[m]
        BY <2>1, TakeOne DEF RestTypes
    <2>3. got' \in List
        <3>1. InLoop /\ todo[n] > 0
            BY <1>2, <2>2 DEF SkipPr, InLoop
        <3> QED BY <2>1, <3>1, CountOne
    <2>4. \A m \in Pr : got'[m] = IF m = n THEN got[m] + 1 ELSE got[m]
        BY <2>1 DEF RestTypes, List
    <2>5. /\ \A m \in Pr : Entry(m) /\ Right(m)
          /\ pc = "next" /\ UNCHANGED <<pc, fail, list, out, cpOk, mode>>
        BY <1>2 DEF SkipPr, CountsUnderWay, InLoop
    <2>6. \A m \in Pr : got'[m] + fail'[m] + todo'[m] + 0 = list'[m]
        <3>1. \A m \in Pr : UnderWay(m) = 0
            BY <2>5 DEF UnderWay
        <3>2. \A m \in Pr : got[m] + fail[m] + todo[m] = list[m]
            BY <1>0, <2>5, <3>1
        <3> QED BY <1>0, <2>2, <2>4, <2>5, <3>2
    <2>7. \A m \in Pr : /\ cpOk' /\ got'[m] > 0 => out'[m] # NoFile
                        /\ out'[m] # NoFile /\ list'[m] > 0 => got'[m] > 0 \/ todo'[m] > 0
        BY <1>0, <2>1, <2>2, <2>4, <2>5 DEF Exists
    <2>8. CountsUnderWay'
        BY <2>5, <2>6, <2>7 DEF CountsUnderWay, InLoop, UnderWay
    <2> QED BY <1>2, <2>2, <2>3, <2>8 DEF SkipPr, RestTypes, PinnedUnderWay, OldIsPinned
<1>3. CASE ResetTree
    <2>1. PICK n \in Pr : ~Exists(out[n]) /\ Take(n) /\ cur' = n
        BY <1>3 DEF ResetTree
    <2>2. /\ todo' \in List /\ todo[n] \in Nat \ {0}
          /\ \A m \in Pr : todo'[m] = IF m = n THEN todo[m] - 1 ELSE todo[m]
        BY <2>1, TakeOne DEF RestTypes
    <2>3. /\ \A m \in Pr : Entry(m) /\ Right(m)
          /\ pc = "next" /\ pc' = "apply"
          /\ UNCHANGED <<got, fail, list, out, cpOk, mode>>
        BY <1>3 DEF ResetTree, CountsUnderWay, InLoop
    <2>4. \A m \in Pr : got'[m] + fail'[m] + todo'[m] + (IF m = n THEN 1 ELSE 0) = list'[m]
        BY <1>0, <2>2, <2>3 DEF UnderWay
    <2>5. \A m \in Pr : /\ cpOk' /\ got'[m] > 0 => out'[m] # NoFile
                        /\ out'[m] # NoFile /\ list'[m] > 0 => got'[m] > 0 \/ todo'[m] > 0
        BY <1>0, <2>1, <2>2, <2>3 DEF Exists
    <2>6. CountsUnderWay'
        BY <2>1, <2>3, <2>4, <2>5 DEF CountsUnderWay, InLoop, UnderWay
    <2> QED BY <1>3, <2>2, <2>6 DEF ResetTree, RestTypes, PinnedUnderWay, OldIsPinned
<1>4. CASE Apply
    BY <1>4 DEF Apply, RestTypes, PinnedUnderWay, OldIsPinned, CountsUnderWay, InLoop, UnderWay
<1>5. CASE ApplyFail \/ BuildFail
    <2>1. /\ cur \in Pr /\ out[cur] = NoFile /\ InLoop /\ UnderWay(cur) = 1
          /\ pc \in {"apply", "build"} /\ mode = "prs"
          /\ fail' = [fail EXCEPT ![cur] = @ + 1] /\ pc' = "next"
          /\ UNCHANGED <<pin, old, out, mode, list, todo, got, cpOk, benched, kills>>
        BY <1>5
           DEF ApplyFail, BuildFail, CountFail, IInv, PrUnderWay, PinnedUnderWay,
               InLoop, UnderWay
    <2>2. fail' \in List
        BY <2>1, CountOne
    <2>3. \A m \in Pr : fail'[m] = IF m = cur THEN fail[m] + 1 ELSE fail[m]
        BY <2>1 DEF RestTypes, List
    <2>4. \A m \in Pr : Entry(m) /\ Right(m) /\ UnderWay(m) = IF m = cur THEN 1 ELSE 0
        BY <1>5, <2>1 DEF ApplyFail, BuildFail, CountsUnderWay, UnderWay
    <2>5. \A m \in Pr : got'[m] + fail'[m] + todo'[m] + 0 = list'[m]
        BY <1>0, <2>1, <2>3, <2>4
    <2>6. CountsUnderWay'
        BY <2>1, <2>4, <2>5 DEF CountsUnderWay, InLoop, UnderWay
    <2> QED BY <2>1, <2>2, <2>6 DEF RestTypes, PinnedUnderWay, OldIsPinned
<1>6. CASE ListDone
    BY <1>6 DEF ListDone, RestTypes, PinnedUnderWay, OldIsPinned, CountsUnderWay, InLoop, UnderWay
<1>7. CASE BuildOk
    BY <1>7 DEF BuildOk, RestTypes, PinnedUnderWay, OldIsPinned, CountsUnderWay, InLoop, UnderWay
<1>8. CASE Copy
    <2>1. /\ cur \in Pr /\ out[cur] = NoFile /\ InLoop /\ UnderWay(cur) = 1
          /\ mode = "prs"
          /\ got' = [got EXCEPT ![cur] = @ + 1] /\ pc' = "next"
          /\ UNCHANGED <<pin, old, mode, list, todo, fail, benched, kills>>
        BY <1>8 DEF Copy, IInv, PrUnderWay, PinnedUnderWay, InLoop, UnderWay
    <2>2. got' \in List
        BY <2>1, CountOne
    <2>3. \A m \in Pr : got'[m] = IF m = cur THEN got[m] + 1 ELSE got[m]
        BY <2>1 DEF RestTypes, List
    <2>4. /\ \A m \in Pr \ {cur} : out'[m] = out[m]
          /\ cpOk' => cpOk /\ out'[cur] # NoFile
        BY <1>8, <2>1, SentinelAssumption DEF Copy, IInv, Types, PrUnderWay
    <2>5. \A m \in Pr : Entry(m) /\ Right(m) /\ UnderWay(m) = IF m = cur THEN 1 ELSE 0
        BY <1>8, <2>1 DEF Copy, CountsUnderWay, UnderWay
    <2>6. \A m \in Pr : got'[m] + fail'[m] + todo'[m] + 0 = list'[m]
        BY <1>0, <2>1, <2>3, <2>5
    <2>7. \A m \in Pr : /\ cpOk' /\ got'[m] > 0 => out'[m] # NoFile
                        /\ out'[m] # NoFile /\ list'[m] > 0 => got'[m] > 0 \/ todo'[m] > 0
        BY <1>0, <2>1, <2>3, <2>4, <2>5
    <2>8. CountsUnderWay'
        BY <2>1, <2>6, <2>7 DEF CountsUnderWay, InLoop, UnderWay
    <2> QED BY <2>1, <2>2, <2>8 DEF RestTypes, PinnedUnderWay, OldIsPinned
<1> QED BY <1>1, <1>2, <1>3, <1>4, <1>5, <1>6, <1>7, <1>8

\* Every step keeps it.
LEMMA NextCInv == IInv /\ CInv /\ [Next]_vars => CInv'
<1> SUFFICES ASSUME IInv, CInv, [Next]_vars PROVE CInv'
    OBVIOUS
<1>1. CASE Next
    BY <1>1, StartKeepsCInv, OldKeepsCInv, ListKeepsCInv DEF Next
<1>2. CASE UNCHANGED vars
    BY <1>2 DEF vars, source, files, prog, outer, CInv, RestTypes, PinnedUnderWay,
       OldIsPinned, CountsUnderWay, InLoop, UnderWay
<1> QED BY <1>1, <1>2

\* What the scripts know of old.bc and of the list holds at every step.
THEOREM ScriptsRelyOnTheirState == Spec => []CInv
<1> QED BY InitCInv, NextCInv, Invariance, PTL DEF Spec

\* What run_bench.sh may write into the first column of the table.
TableRows == {<<"caller", "">>, <<"old", "">>} \cup ({"", "pr-"} \X Pr)

\* The rows of the table are those of the committed one or what run_bench.sh
\* has written, and a cp has failed or not.
RowsAndFlag == table \subseteq TableRows /\ cpOk \in BOOLEAN

LEMMA RowsAndFlagKept == Spec => []RowsAndFlag
<1>1. Init => RowsAndFlag
    <2>1. Plain(Recorded) \subseteq TableRows
        <3>1. \A n \in Recorded : <<"", n>> \in TableRows
            BY BuildAssumption, Zenon DEF TableRows
        <3> QED BY <3>1, Zenon DEF Plain
    <2> QED BY <2>1, Zenon DEF Init, RowsAndFlag
<1>2. RowsAndFlag /\ [Next]_vars => RowsAndFlag'
    <2> SUFFICES ASSUME RowsAndFlag, [Next]_vars PROVE RowsAndFlag'
        OBVIOUS
    <2>1. table' \subseteq TableRows
        <3>1. CASE Bench
            <4>1. benched' \subseteq Pr
                BY <3>1 DEF Bench
            <4>2. \A n \in Pr : <<"pr-", n>> \in TableRows
                BY Zenon DEF TableRows
            <4>3. <<"caller", "">> \in TableRows /\ <<"old", "">> \in TableRows
                BY Zenon DEF TableRows
            <4>4. CASE table' = {<<"caller", "">>} \cup {<<"pr-", n>> : n \in benched'}
                BY <4>1, <4>2, <4>3, <4>4, Zenon
            <4>5. CASE table' = {<<"old", "">>}
                BY <4>3, <4>5, Zenon
            <4> QED BY <3>1, <4>4, <4>5, Zenon DEF Bench
        <3>2. CASE ~Bench
            <4>1. table' = table
                BY <3>2, Zenon DEF Next, vars, outer, Invoke, RebuildOld, RemoveOld, KeepOld,
                   CleanForOld, BuildOldOk, BuildOldFail, CopyOld, StartList, SkipPr, ResetTree,
                   Apply, ApplyFail, BuildOk, BuildFail, Copy, ListDone, Reinvoke, Kill
            <4> QED BY <4>1 DEF RowsAndFlag
        <3> QED BY <3>1, <3>2
    <2>2. cpOk' \in {cpOk, TRUE, FALSE}
        BY Zenon DEF Next, vars, prog, NewRun, Invoke, RebuildOld, RemoveOld, KeepOld,
           CleanForOld, BuildOldOk, BuildOldFail, CopyOld, StartList, SkipPr, ResetTree,
           Apply, ApplyFail, BuildOk, BuildFail, Copy, ListDone, Reinvoke, Bench, Kill
    <2> QED BY <2>1, <2>2, Zenon DEF RowsAndFlag
<1> QED BY <1>1, <1>2, PTL DEF Spec

\* Every variable holds values of its type.
THEOREM TypeCorrect == Spec => []TypeOK
<1>1. IInv /\ CInv /\ RowsAndFlag => TypeOK
    <2> SUFFICES ASSUME IInv, CInv, RowsAndFlag PROVE TypeOK
        OBVIOUS
    <2>1. Types /\ RestTypes
        BY DEF IInv, CInv
    <2> QED BY <2>1, Zenon DEF Types, RestTypes, RowsAndFlag, TableRows, TypeOK
<1> QED BY <1>1, Invariance, ScriptsRelyOnTheirState, RowsAndFlagKept, PTL

\* build_old_bc.sh:14-20: when it has finished and its cp worked, old.bc is a
\* whole baseline of the commit the tree is pinned to, however often the pin
\* has moved.
THEOREM RebuiltOldIsPinned == Spec => []OldIsPinned
<1>1. CInv => OldIsPinned
    BY DEF CInv, PinnedUnderWay
<1> QED BY <1>1, ScriptsRelyOnTheirState, PTL

\* build_pr_bc.sh:380-407: the numbers it prints at its end add up to the
\* entries of the list, and unless a cp failed a listed pull request is in the
\* first of them iff its bitcode is there.
THEOREM ClosingCountsAreRight == Spec => []CountsAreRight
<1>1. CInv => CountsAreRight
    <2> SUFFICES ASSUME CInv, pc = "done", mode = "prs", NEW n \in Pr
                 PROVE  /\ got[n] + fail[n] = list[n]
                        /\ cpOk /\ list[n] > 0 => (got[n] > 0 <=> Exists(out[n]))
        BY DEF CountsAreRight
    <2>1. /\ got[n] + fail[n] + todo[n] + UnderWay(n) = list[n]
          /\ todo[n] = 0 /\ UnderWay(n) = 0
          /\ got[n] \in Nat /\ fail[n] \in Nat
        BY BuildAssumption
           DEF CInv, RestTypes, CountsUnderWay, InLoop, UnderWay, Nothing, List
    <2>2. /\ cpOk /\ got[n] > 0 => out[n] # NoFile
          /\ out[n] # NoFile /\ list[n] > 0 => got[n] > 0 \/ todo[n] > 0
        BY DEF CInv, CountsUnderWay, InLoop
    <2> QED BY <2>1, <2>2 DEF Exists
<1> QED BY <1>1, ScriptsRelyOnTheirState, PTL
===============================================================================
