---------------------------- MODULE AbBranchesProofs ----------------------------
(***************************************************************************)
(* Proofs about AbBranches, for any projects, samples, repeats and kills:  *)
(* the inductive invariant, the purity of the recorded measurements, and   *)
(* the implementation of MeasurementLog by the TSV file.                   *)
(***************************************************************************)
EXTENDS AbBranches, TLAPS

\* Appending to the file adds exactly one row to it.
LEMMA AppendRow ==
    ASSUME NEW S, NEW s \in Seq(S), NEW e \in S
    PROVE  /\ Append(s, e) \in Seq(S)
           /\ {Append(s, e)[i] : i \in 1..Len(Append(s, e))}
                = {s[i] : i \in 1..Len(s)} \cup {e}
<1>1. /\ Append(s, e) \in Seq(S)
      /\ Len(Append(s, e)) = Len(s) + 1 /\ Len(s) \in Nat
      /\ \A i \in 1..Len(s) : Append(s, e)[i] = s[i]
      /\ Append(s, e)[Len(s) + 1] = e
  OBVIOUS
<1>2. 1..(Len(s) + 1) = 1..Len(s) \cup {Len(s) + 1}
  BY <1>1
<1>3. QED
  BY <1>1, <1>2

\* The rows of the file named by the two lookups are combinations.
LEMMA KeyType ==
    ASSUME NEW c \in Cell
    PROVE  /\ StoreKey(c) \in Key
           /\ \A s \in Sample : IncKey(c, s) \in Key /\ IncKey(c, s) # StoreKey(c)
  BY DEF Cell, Branch, Key, Bitcode, StoreKey, IncKey

\* The lookup in the file sees exactly the rows.
LEMMA HaveIsRow == \A k : Have(k) <=> k \in Rows
  BY DEF Have, Rows

\* What a call leaves in a directory is a directory again.
LEMMA WriteBackType ==
    ASSUME NEW d \in Dir, NEW s \in Sample
    PROVE  WriteBack(d, s) \in Dir
  BY DEF Dir, Bitcode, WriteBack

\* A call that is over leaves locals of their types behind.
LEMMA ForgetType ==
    Forget => todo' = {} /\ sample' = None /\ r' \in 1..(Runs + 1) /\ stored' \in BOOLEAN
<1>1. 1 \in 1..(Runs + 1)
  BY InputAssumption
<1>2. QED
  BY <1>1, Zenon DEF Forget

LEMMA InitIInv == Init => IInv
<1> SUFFICES ASSUME Init PROVE IInv
  OBVIOUS
<1>1. pdir \in [Cell -> Dir] /\ snap \in [Cell -> Dir]
  BY DEF Init, Dir
<1>2. TypeOK
  <2>1. stored \in BOOLEAN
    BY Zenon DEF Init
  <2>2. r \in 1..(Runs + 1) /\ kills \in 0..MaxKills /\ out \in Seq(Key)
    BY InputAssumption DEF Init
  <2> QED
    BY <1>1, <2>1, <2>2, Zenon DEF Init, TypeOK, Branch
<1>3. CallState /\ OwnStorePristine
  BY DEF Init, CallState, OwnStorePristine, InCall, InLoop
<1> QED
  BY <1>2, <1>3 DEF IInv

-------------------------------------------------------------------------------
\* Every action keeps the invariant.
LEMMA NextIInv == IInv /\ [Next]_vars => IInv'
<1> SUFFICES ASSUME IInv, [Next]_vars
             PROVE  IInv'
  OBVIOUS
<1> USE DEF IInv
<1>0. /\ pc \in InCall => Cur \in Cell
      /\ Runs \in Nat \ {0} /\ Old \in Bitcode
  BY InputAssumption DEF TypeOK, CallState, Cur, Cell, Bitcode
<1>a. CASE Invoke
  <2>1. TypeOK'
    BY <1>a DEF Invoke, TypeOK, files, loop
  <2>2. CallState' /\ OwnStorePristine'
    BY <1>a DEF Invoke, CallState, OwnStorePristine, files, loop, InCall, InLoop, Rows
  <2> QED BY <2>1, <2>2
<1>b. CASE NextProject
  <2>1. TypeOK'
    BY <1>b, InputAssumption DEF NextProject, TypeOK, files, loop, hist, Branch
  <2>2. CallState' /\ OwnStorePristine'
    BY <1>b, InputAssumption
    DEF NextProject, TypeOK, CallState, OwnStorePristine, files, loop, hist, InCall, InLoop, Rows
  <2> QED BY <2>1, <2>2
<1>c. CASE Finish
  BY <1>c DEF Finish, TypeOK, CallState, OwnStorePristine, files, args, loop,
     hist, InCall, InLoop, Rows
<1>d. CASE SkipStore
  <2>1. TypeOK'
    BY <1>d, InputAssumption DEF SkipStore, TypeOK, CallState, InCall, files, args
  <2>2. CallState' /\ OwnStorePristine'
    BY <1>d, HaveIsRow
    DEF SkipStore, CallState, OwnStorePristine, files, args, InCall, InLoop, Rows, Cur
  <2> QED BY <2>1, <2>2
<1>e. CASE StartStore
  <2>1. TypeOK'
    BY <1>e, <1>0 DEF StartStore, TypeOK, InCall, args, loop, hist, Dir
  <2>2. CallState' /\ OwnStorePristine'
    BY <1>e, <1>0, HaveIsRow
    DEF StartStore, CallState, OwnStorePristine, args, loop, hist, InCall, InLoop, Rows, Cur
  <2> QED BY <2>1, <2>2
<1>f. CASE StoreOk
  <2>1. Rows' = Rows \cup {StoreKey(Cur)} /\ out' \in Seq(Key)
    <3>1. StoreKey(Cur) \in Key
      BY <1>f, <1>0, KeyType DEF StoreOk, InCall
    <3>2. out \in Seq(Key) /\ out' = Append(out, StoreKey(Cur))
      BY <1>f DEF StoreOk, TypeOK
    <3> QED BY <3>1, <3>2, AppendRow DEF Rows
  <2>2. TypeOK'
    BY <1>f, <1>0, <2>1 DEF StoreOk, TypeOK, InCall, args, loop, hist, Dir
  <2>3. CallState' /\ OwnStorePristine'
    BY <1>f, <1>0, <2>1
    DEF StoreOk, TypeOK, CallState, OwnStorePristine, args, loop, hist, InCall, InLoop, Cur
  <2> QED BY <2>2, <2>3
<1>g. CASE StoreFail
  <2>0. pdir' \in [Cell -> Dir] /\ failed' \subseteq Key
    <3>1. {} \in Dir /\ {Old} \in Dir
      BY <1>0 DEF Dir
    <3> QED BY <1>g, <1>0, <3>1, KeyType DEF StoreFail, TypeOK, InCall
  <2>1. TypeOK'
    BY <1>g, <1>0, <2>0, ForgetType DEF StoreFail, Return, TypeOK, Branch
  <2>2. CallState' /\ OwnStorePristine'
    BY <1>g DEF StoreFail, Return, Forget, CallState, OwnStorePristine, InCall, InLoop
  <2> QED BY <2>1, <2>2
<1>h. CASE Snapshot
  <2>1. TypeOK'
    BY <1>h, <1>0, InputAssumption DEF Snapshot, TypeOK, CallState, InCall, args
  <2>2. CallState' /\ OwnStorePristine'
    BY <1>h, <1>0
    DEF Snapshot, TypeOK, CallState, OwnStorePristine, args, InCall, InLoop, Rows, Cur
  <2> QED BY <2>1, <2>2
<1>i. CASE NextSample
  <2>1. TypeOK'
    BY <1>i, <1>0 DEF NextSample, TypeOK, files, args, hist
  <2>2. CallState' /\ OwnStorePristine'
    BY <1>i
    DEF NextSample, TypeOK, CallState, OwnStorePristine, files, args, hist, InCall, InLoop, Rows, Cur
  <2> QED BY <2>1, <2>2
<1>j. CASE RunsOver
  BY <1>j DEF RunsOver, TypeOK, CallState, OwnStorePristine, files, args, loop,
     hist, InCall, InLoop, Rows, Cur
<1>k. CASE SkipInc
  <2>1. TypeOK'
    BY <1>k, <1>0 DEF SkipInc, TypeOK, files, args, hist
  <2>2. CallState' /\ OwnStorePristine'
    BY <1>k DEF SkipInc, CallState, OwnStorePristine, files, args, hist, InCall, InLoop, Rows, Cur
  <2> QED BY <2>1, <2>2
<1>l. CASE Restore
  <2>1. TypeOK'
    BY <1>l, <1>0 DEF Restore, TypeOK, InCall, args, loop, hist
  <2>2. CallState' /\ OwnStorePristine'
    BY <1>l, <1>0, HaveIsRow
    DEF Restore, TypeOK, CallState, OwnStorePristine, args, loop, hist, InCall, InLoop, Rows, Cur
  <2> QED BY <2>1, <2>2
<1>m. CASE IncOk
  <2>0. sample \in Sample /\ pdir[Cur] \in Dir /\ stored \in BOOLEAN
    BY <1>m, <1>0 DEF IncOk, TypeOK, CallState, InCall
  <2>1. Rows' = Rows \cup {IncKey(Cur, sample)} /\ out' \in Seq(Key)
    <3>1. IncKey(Cur, sample) \in Key
      BY <1>m, <1>0, <2>0, KeyType DEF IncOk, InCall
    <3>2. out \in Seq(Key) /\ out' = Append(out, IncKey(Cur, sample))
      BY <1>m DEF IncOk, TypeOK
    <3> QED BY <3>1, <3>2, AppendRow DEF Rows
  <2>2. TypeOK'
    <3>1. pdir' \in [Cell -> Dir]
      BY <1>m, <1>0, <2>0, WriteBackType DEF IncOk, TypeOK, InCall
    <3>2. used' \subseteq [base : Dir, own : BOOLEAN]
      BY <1>m, <2>0 DEF IncOk, TypeOK
    <3> QED BY <1>m, <1>0, <2>1, <3>1, <3>2 DEF IncOk, TypeOK, CallState, args
  <2>3. OwnStorePristine'
    BY <1>m DEF IncOk, CallState, OwnStorePristine
  <2>4. CallState'
    BY <1>m, <2>1 DEF IncOk, CallState, args, InCall, InLoop, Cur
  <2> QED BY <2>2, <2>3, <2>4
<1>n. CASE IncFail
  <2>0. sample \in Sample /\ pdir[Cur] \in Dir
    BY <1>n, <1>0 DEF IncFail, TypeOK, CallState, InCall
  <2>1. TypeOK'
    <3>1. pdir' \in [Cell -> Dir]
      BY <1>n, <1>0, <2>0, WriteBackType DEF IncFail, TypeOK, InCall
    <3>2. failed' \subseteq Key
      BY <1>n, <1>0, <2>0, KeyType DEF IncFail, TypeOK, InCall
    <3> QED BY <1>n, <1>0, <3>1, <3>2 DEF IncFail, TypeOK, CallState, args
  <2>2. CallState' /\ OwnStorePristine'
    BY <1>n DEF IncFail, CallState, OwnStorePristine, args, InCall, InLoop, Rows, Cur
  <2> QED BY <2>1, <2>2
<1>o. CASE Cleanup
  <2>1. TypeOK'
    BY <1>o, <1>0, ForgetType DEF Cleanup, Return, TypeOK, InCall, Dir, Branch
  <2>2. CallState' /\ OwnStorePristine'
    BY <1>o DEF Cleanup, Return, Forget, CallState, OwnStorePristine, InCall, InLoop, Rows, Cur
  <2> QED BY <2>1, <2>2
<1>p. CASE Kill
  <2>1. /\ pdir' \in [Cell -> Dir] /\ snap' \in [Cell -> Dir]
    <3>1. CASE pc = "project"
      BY <1>p, <3>1 DEF Kill, TypeOK
    <3>2. CASE pc # "project"
      <4>1. pc \in InCall /\ Cur \in Cell
        BY <1>p, <3>2, <1>0 DEF Kill, TypeOK, InCall
      <4>2. pc = "analyse" => WriteBack(pdir[Cur], sample) \in Dir
        BY <4>1, WriteBackType DEF TypeOK, CallState
      <4>3. KilledPdir \subseteq Dir
        BY <4>1, <4>2 DEF KilledPdir, Part, TypeOK, Dir, Bitcode
      <4>4. KilledSnap \subseteq Dir
        BY <4>1 DEF KilledSnap, Part, TypeOK, Dir
      <4> QED BY <1>p, <3>2, <4>1, <4>3, <4>4 DEF Kill, TypeOK
    <3> QED BY <3>1, <3>2
  <2>2. TypeOK'
    BY <1>p, <2>1, <1>0, ForgetType, InputAssumption DEF Kill, TypeOK, Branch
  <2>3. CallState' /\ OwnStorePristine'
    BY <1>p DEF Kill, Forget, CallState, OwnStorePristine, InCall, InLoop
  <2> QED BY <2>2, <2>3
<1>q. CASE UNCHANGED vars
  BY <1>q DEF vars, files, args, loop, hist, TypeOK, CallState, OwnStorePristine,
     Rows, Cur
<1> QED
  BY <1>a, <1>b, <1>c, <1>d, <1>e, <1>f, <1>g, <1>h, <1>i, <1>j, <1>k, <1>l,
     <1>m, <1>n, <1>o, <1>p, <1>q DEF Next, Step

\* The harness keeps the type and call-state invariants, whatever fails and
\* whenever it is killed and restarted.
THEOREM Invariance == Spec => []IInv
<1>1. QED
  BY InitIInv, NextIInv, PTL DEF Spec

\* Every variable of the harness holds values of its type, whatever the
\* analyzer does and whenever the harness is killed.
THEOREM TypeCorrect == Spec => []TypeOK
<1>1. IInv => TypeOK
  BY DEF IInv
<1>2. QED
  BY Invariance, <1>1, PTL

\* A call of run_branch_project finds at each of its steps what the earlier
\* ones established: the store row it tested, its snapshot, the missing inc
\* row (scripts/ab_branches.sh:35-47, 56-58).
THEOREM CallsRelyOnTheirState == Spec => []CallState
<1>1. IInv => CallState
  BY DEF IInv
<1>2. QED
  BY Invariance, <1>1, PTL

\* Every incremental run recorded by a call that stored old.bc itself was
\* measured on the pristine store (scripts/ab_branches.sh:44-47, 57-58).
THEOREM PristineMeasurements == Spec => []OwnStorePristine
<1>1. IInv => OwnStorePristine
  BY DEF IInv
<1>2. QED
  BY Invariance, <1>1, PTL

\* Of all steps only the two successful analyzer calls touch the file, and
\* each appends one row that was missing, an inc row after its store row.
LEMMA LogStep == IInv /\ [Next]_vars => [Log!Next]_out
<1> SUFFICES ASSUME IInv, [Next]_vars, out' # out
             PROVE  \E k \in Key : Log!Record(k)
  BY DEF Log!Next
<1> DEFINE Setup == [k \in Key |-> StoreKey(<<k.branch, k.project>>)]
<1>0. pc \in InCall => Cur \in Cell
  BY DEF IInv, TypeOK, CallState, Cur, Cell
<1>1. CASE StoreOk
  <2>1. StoreKey(Cur) \in Key /\ StoreKey(Cur) \notin Rows
    BY <1>0, <1>1, KeyType DEF IInv, CallState, StoreOk, InCall
  <2>2. Setup[StoreKey(Cur)] = StoreKey(Cur)
    BY <2>1 DEF StoreKey, Cur
  <2>3. Log!Record(StoreKey(Cur))
    BY <1>1, <2>1, <2>2 DEF Log!Record, Log!Rows, Rows, StoreOk
  <2> QED BY <2>1, <2>3
<1>2. CASE IncOk
  <2>0. sample \in Sample /\ Cur \in Cell
    BY <1>0, <1>2 DEF IInv, CallState, IncOk, InCall
  <2>1. /\ IncKey(Cur, sample) \in Key /\ IncKey(Cur, sample) \notin Rows
        /\ StoreKey(Cur) \in Rows
    BY <2>0, <1>2, KeyType DEF IInv, CallState, IncOk, InLoop
  <2>2. Setup[IncKey(Cur, sample)] = StoreKey(Cur)
    BY <2>1 DEF StoreKey, IncKey, Cur
  <2>3. Log!Record(IncKey(Cur, sample))
    BY <1>2, <2>1, <2>2 DEF Log!Record, Log!Rows, Rows, IncOk
  <2> QED BY <2>1, <2>3
<1>3. CASE ~StoreOk /\ ~IncOk
  BY <1>3 DEF Next, Step, Invoke, NextProject, Finish, SkipStore, StartStore,
     StoreFail, Snapshot, NextSample, RunsOver, SkipInc, Restore, IncFail, Cleanup,
     Kill, vars, files
<1> QED
  BY <1>1, <1>2, <1>3

\* The TSV file implements the resumable measurement log of
\* docs/ab-branch-comparison.md:80-91: append only, one row per combination
\* across kills and re-invocations, store rows before the inc rows they serve.
THEOREM FileIsMeasurementLog == Spec => LogSpec
<1>1. Init => Log!Init
  BY DEF Init, Log!Init
<1>2. QED
  BY <1>1, Invariance, LogStep, PTL DEF Spec, LogSpec, Log!Spec

-------------------------------------------------------------------------------
(* Nothing is forgotten: the loops of the script leave no combination of     *)
(* this invocation behind that has neither a row nor a failure.              *)

\* A measurement with a row, or whose analyzer call failed.
Handled(k) == k \in Rows \cup failed

\* A call of run_branch_project for c has nothing left to do.
Over(c) ==
    \/ StoreKey(c) \in failed
    \/ StoreKey(c) \in Rows /\ \A s \in SamplesOf[c[2]] : Handled(IncKey(c, s))

\* Projects the outer loop has left behind are over on both branches; inside a
\* call "main" is over when it is the turn of "perf", and so is every sample
\* the loop has left behind, and the current one after its first repeat.
Progress ==
    /\ pc \notin InCall => proj = None
    /\ pc \in {"project", "done"} \cup InCall =>
          \A b \in Branch, p \in (plan \cap Built) \ projs : p # proj => Over(<<b, p>>)
    /\ pc = "done" => projs = {}
    /\ pc \in InCall /\ branch = "perf" => Over(<<"main", proj>>)
    /\ pc \in InLoop => \A s \in SamplesOf[proj] \ todo :
          (s = sample /\ pc # "samples") \/ Handled(IncKey(Cur, s))
    /\ pc = "runs" /\ r > 1 => Handled(IncKey(Cur, sample))

\* As long as the harness runs, rows and failures are only added.
LEMMA HandledStays ==
    ASSUME Rows \subseteq Rows', failed \subseteq failed'
    PROVE  /\ \A k : Handled(k) => Handled(k)'
           /\ \A c : Over(c) => Over(c)'
  BY DEF Handled, Over

\* Of all steps only an appended row changes the file.
LEMMA RowsStay ==
    ASSUME IInv, [Next]_vars
    PROVE  Rows \subseteq Rows'
<1>0. pc \in InCall => Cur \in Cell
  BY DEF IInv, TypeOK, CallState, Cur, Cell
<1>1. CASE StoreOk
  <2>1. StoreKey(Cur) \in Key /\ out \in Seq(Key) /\ out' = Append(out, StoreKey(Cur))
    BY <1>0, <1>1, KeyType DEF IInv, TypeOK, StoreOk, InCall
  <2> QED BY <2>1, AppendRow DEF Rows
<1>2. CASE IncOk
  <2>1. IncKey(Cur, sample) \in Key /\ out \in Seq(Key) /\ out' = Append(out, IncKey(Cur, sample))
    BY <1>0, <1>2, KeyType DEF IInv, TypeOK, CallState, IncOk, InCall
  <2> QED BY <2>1, AppendRow DEF Rows
<1>3. CASE ~StoreOk /\ ~IncOk
  <2>1. out' = out
    BY <1>3 DEF Next, Step, Invoke, NextProject, Finish, SkipStore, StartStore,
       StoreFail, Snapshot, NextSample, RunsOver, SkipInc, Restore, IncFail, Cleanup,
       Kill, vars, files
  <2> QED BY <2>1 DEF Rows
<1> QED BY <1>1, <1>2, <1>3

LEMMA InitProgress == Init => Progress
  BY DEF Init, Progress, InCall, InLoop

\* A call that is over hands the turn to "perf", or the project is over.
LEMMA ReturnProgress ==
    ASSUME IInv, Progress, pc \in InCall, Return,
           Rows \subseteq Rows', failed \subseteq failed',
           \A c : c = Cur => Over(c)'
    PROVE  Progress'
<1>1. /\ projs' = projs /\ plan' = plan /\ proj \in Project
      /\ \/ branch = "main" /\ branch' = "perf" /\ proj' = proj /\ pc' = "call"
         \/ branch = "perf" /\ branch' = "main" /\ proj' = None /\ pc' = "project"
  BY DEF Return, IInv, TypeOK, CallState, Branch
<1>2. \A c : Over(c) => Over(c)'
  BY HandledStays
<1>3. CASE branch = "main"
  <2>1. Over(<<"main", proj>>)'
    BY <1>1, <1>3 DEF Cur
  <2> QED BY <1>1, <1>2, <1>3, <2>1 DEF Progress, InCall, InLoop
<1>4. CASE branch = "perf"
  <2>1. \A p : p = proj => Over(<<"main", p>>)' /\ Over(<<"perf", p>>)'
    BY <1>2, <1>4 DEF Progress, Cur
  <2> QED BY <1>1, <1>2, <1>4, <2>1 DEF Progress, InCall, InLoop, Branch
<1> QED BY <1>1, <1>3, <1>4

\* Every step keeps the progress, and a kill gives the invocation up.
LEMMA NextProgress == IInv /\ Progress /\ [Next]_vars => Progress'
<1> SUFFICES ASSUME IInv, Progress, [Next]_vars
             PROVE  Progress'
  OBVIOUS
<1>1. Rows \subseteq Rows'
  BY RowsStay
<1>a. CASE Invoke \/ Kill
  BY <1>a DEF Invoke, Kill, Forget, Progress, InCall, InLoop
<1>b. CASE NextProject
  <2>1. failed' = failed /\ pc = "project" /\ plan' = plan /\ proj = None
    BY <1>b DEF NextProject, hist, Progress, InCall
  <2>2. \A c : Over(c) => Over(c)'
    BY <1>1, <2>1, HandledStays
  <2>3. \A p \in plan : p # None
    BY SentinelAssumption DEF IInv, TypeOK
  <2> QED BY <1>b, <2>1, <2>2, <2>3 DEF NextProject, Progress, InCall, InLoop
<1>c. CASE StoreFail
  <2>1. pc \in InCall /\ Return /\ failed' = failed \cup {StoreKey(Cur)}
    BY <1>c DEF StoreFail, InCall
  <2>2. \A c : c = Cur => Over(c)'
    BY <2>1 DEF Over
  <2> QED BY <1>1, <2>1, <2>2, ReturnProgress
<1>d. CASE Cleanup
  <2>1. pc \in InCall /\ Return /\ failed' = failed /\ StoreKey(Cur) \in Rows /\ todo = {}
    BY <1>d DEF Cleanup, InCall, InLoop, IInv, CallState
  <2>2. Over(Cur)
    BY <1>d, <2>1 DEF Cleanup, Progress, InLoop, Over, Cur
  <2>3. \A c : c = Cur => Over(c)'
    BY <1>1, <2>1, <2>2, HandledStays
  <2> QED BY <1>1, <2>1, <2>3, ReturnProgress
\* The other steps of a call add to the failures only.
<1>2. ASSUME failed \subseteq failed'
      PROVE  (\A k : Handled(k) => Handled(k)') /\ (\A c : Over(c) => Over(c)')
  BY <1>1, <1>2, HandledStays
<1>e. CASE Finish
  BY <1>2, <1>e DEF Finish, files, args, loop, hist, Progress, InCall, InLoop
<1>f. CASE SkipStore
  <2>1. UNCHANGED <<failed, projs, plan, proj, branch>> /\ todo' = SamplesOf[proj]
        /\ pc = "call" /\ pc' = "samples"
    BY <1>f DEF SkipStore, args
  <2> QED BY <1>2, <2>1 DEF Progress, InCall, InLoop
<1>g. CASE StartStore
  BY <1>2, <1>g DEF StartStore, args, loop, hist, Progress, InCall, InLoop
<1>h. CASE StoreOk
  BY <1>2, <1>h DEF StoreOk, args, loop, hist, Progress, InCall, InLoop
<1>i. CASE Snapshot
  <2>1. UNCHANGED <<failed, projs, plan, proj, branch>> /\ todo' = SamplesOf[proj]
        /\ pc = "copying" /\ pc' = "samples"
    BY <1>i DEF Snapshot, args
  <2> QED BY <1>2, <2>1 DEF Progress, InCall, InLoop
<1>j. CASE NextSample
  <2>1. PICK s \in todo : sample' = s /\ todo' = todo \ {s}
    BY <1>j DEF NextSample
  <2>2. UNCHANGED <<failed, projs, plan, proj, branch>>
        /\ pc = "samples" /\ pc' = "runs" /\ r' = 1
    BY <1>j DEF NextSample, args, hist
  <2> QED BY <1>2, <2>1, <2>2 DEF Progress, InCall, InLoop, Cur
<1>k. CASE RunsOver
  <2>1. UNCHANGED <<failed, projs, plan, proj, branch, todo, sample>>
        /\ pc = "runs" /\ pc' = "samples"
    BY <1>k DEF RunsOver, args, loop, hist
  <2>2. r > 1
    BY <1>k, InputAssumption DEF RunsOver, IInv, TypeOK
  <2> QED BY <1>2, <2>1, <2>2 DEF Progress, InCall, InLoop, Cur
<1>l. CASE SkipInc
  <2>1. UNCHANGED <<failed, projs, plan, proj, branch, todo, sample, pc>> /\ pc = "runs"
    BY <1>l DEF SkipInc, args, hist
  <2>2. Handled(IncKey(Cur, sample))
    BY <1>l, HaveIsRow DEF SkipInc, Handled
  <2> QED BY <1>2, <2>1, <2>2 DEF Progress, InCall, InLoop, Cur
<1>m. CASE Restore
  <2>1. UNCHANGED <<failed, projs, plan, proj, branch, todo, sample>>
        /\ pc = "runs" /\ pc' = "analyse"
    BY <1>m DEF Restore, args, loop, hist
  <2> QED BY <1>2, <2>1 DEF Progress, InCall, InLoop, Cur
<1>n. CASE IncOk \/ IncFail
  <2>1. UNCHANGED <<projs, plan, proj, branch, todo, sample>> /\ failed \subseteq failed'
        /\ pc = "analyse" /\ pc' = "runs"
    BY <1>n DEF IncOk, IncFail, args
  <2>2. \A k : k = IncKey(Cur, sample) => Handled(k)'
    <3>1. CASE IncFail
      BY <3>1 DEF IncFail, Handled
    <3>2. CASE IncOk
      <4>1. IncKey(Cur, sample) \in Key /\ out \in Seq(Key)
            /\ out' = Append(out, IncKey(Cur, sample))
        BY <3>2, KeyType DEF IncOk, InCall, IInv, TypeOK, CallState, Cur, Cell
      <4> QED BY <4>1, AppendRow DEF Handled, Rows
    <3> QED BY <1>n, <3>1, <3>2
  <2> QED BY <1>2, <2>1, <2>2 DEF Progress, InCall, InLoop, Cur
<1>o. CASE UNCHANGED vars
  BY <1>2, <1>o DEF vars, files, args, loop, hist, Progress, InCall, InLoop, Cur
<1> QED
  BY <1>a, <1>b, <1>c, <1>d, <1>e, <1>f, <1>g, <1>h, <1>i, <1>j, <1>k, <1>l,
     <1>m, <1>n, <1>o DEF Next, Step

\* scripts/ab_branches.sh:29-83: an invocation that reaches its end has dealt
\* with every combination of its projects, whatever failed on the way and
\* whatever earlier, killed invocations left behind.
THEOREM NothingForgotten == Spec => []Accounted
<1>1. Spec => []Progress
  BY InitProgress, NextProgress, Invariance, PTL DEF Spec
<1>2. IInv /\ Progress => Accounted
  <2> SUFFICES ASSUME IInv, Progress, pc = "done", NEW b \in Branch, NEW p \in plan \cap Built
               PROVE  Over(<<b, p>>)
    BY DEF Accounted, Over, Handled
  <2>1. proj = None /\ p # None
    BY SentinelAssumption DEF Progress, InCall, IInv, TypeOK
  <2> QED BY <2>1 DEF Progress
<1> QED BY <1>1, <1>2, Invariance, PTL
===============================================================================
