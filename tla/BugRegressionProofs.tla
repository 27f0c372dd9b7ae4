-------------------------- MODULE BugRegressionProofs --------------------------
(***************************************************************************)
(* Proofs about BugRegression, for every suite, every --jobs and --only,   *)
(* and every report the analyzer may write: the counter comparison is a    *)
(* one-to-one matching, the exit status is right when the cases write      *)
(* their own report files, and no analyzer outlives the process.           *)
(***************************************************************************)
EXTENDS BugRegression, FunctionTheorems, FiniteSetTheorems, TLAPS

-------------------------------------------------------------------------------
(* The comparison of Counters is a one-to-one matching. *)

\* A finite set can be injected into one that is at least as large.
LEMMA LargerTakesAll ==
    ASSUME NEW S, NEW T, IsFiniteSet(S), IsFiniteSet(T),
           Cardinality(S) <= Cardinality(T)
    PROVE  \E f \in [S -> T] : \A a, b \in S : f[a] = f[b] => a = b
<1> DEFINE n == Cardinality(S)
           m == Cardinality(T)
<1>1. n \in Nat /\ m \in Nat /\ n <= m
    BY FS_CardinalityType
<1>2. PICK back \in Bijection(S, 1..n) : TRUE
    BY FS_CardinalityType, Fun_ExistsBijSymmetric, Fun_ExistsBij
<1>3. PICK h \in Bijection(1..m, T) : TRUE
    BY FS_CardinalityType, Fun_ExistsBij
<1> HIDE DEF n, m
<1>4. back \in [S -> 1..n] /\ \A a, b \in S : back[a] = back[b] => a = b
    BY <1>2, Fun_BijectionProperties
<1>5. h \in [1..m -> T] /\ \A a, b \in 1..m : h[a] = h[b] => a = b
    BY <1>3, Fun_BijectionProperties
<1>6. \A s \in S : back[s] \in 1..m
    BY <1>1, <1>4
<1> DEFINE f == [s \in S |-> h[back[s]]]
<1>7. f \in [S -> T]
    BY <1>5, <1>6
<1>8. ASSUME NEW a \in S, NEW b \in S, f[a] = f[b] PROVE a = b
    <2>1. h[back[a]] = h[back[b]]
        BY <1>8
    <2>2. back[a] = back[b]
        BY <1>5, <1>6, <2>1
    <2> QED BY <1>4, <2>2
<1> HIDE DEF f
<1> QED BY <1>7, <1>8

\* An injection of one finite set into another bounds its cardinality.
LEMMA InjectedIsSmaller ==
    ASSUME NEW S, NEW T, IsFiniteSet(T), NEW f \in [S -> T],
           \A a, b \in S : f[a] = f[b] => a = b
    PROVE  Cardinality(S) <= Cardinality(T)
<1>1. f \in Injection(S, T)
    BY Fun_IsInj
<1> QED BY <1>1, FS_Injection

\* compare() finds nothing missing iff every expected finding can be given a
\* reported sink of its own: the counts per key are enough for that.
THEOREM NothingMissingIsFound ==
    ASSUME NEW exp, NEW rpt,
           IsFiniteSet(DOMAIN exp), IsFiniteSet(DOMAIN rpt)
    PROVE  Missing(exp, rpt) = {} <=> Found(exp, rpt)
<1>1. \A k : IsFiniteSet(Reported(k, rpt)) /\ IsFiniteSet(Wanted(k, exp))
    BY FS_Subset DEF Reported, Wanted, Sinks
<1>2. \A k : /\ Cardinality(Reported(k, rpt)) \in Nat
             /\ Cardinality(Wanted(k, exp)) \in Nat
    BY <1>1, FS_CardinalityType
<1>3. ASSUME Found(exp, rpt), NEW k PROVE
      Cardinality(Wanted(k, exp)) <= Cardinality(Reported(k, rpt))
    <2>1. PICK m \in [DOMAIN exp -> DOMAIN rpt] :
            /\ \A i, j \in DOMAIN exp : m[i] = m[j] => i = j
            /\ \A i \in DOMAIN exp : /\ m[i] \in Sinks(rpt)
                                     /\ SinkOf(rpt[m[i]]) = exp[i]
        BY <1>3 DEF Found, Sinks
    <2> DEFINE f == [i \in Wanted(k, exp) |-> m[i]]
    <2>2. f \in [Wanted(k, exp) -> Reported(k, rpt)]
        BY <2>1 DEF Wanted, Reported
    <2>3. \A i, j \in Wanted(k, exp) : f[i] = f[j] => i = j
        BY <2>1 DEF Wanted
    <2> QED BY <1>1, <2>2, <2>3, InjectedIsSmaller
<1>4. ASSUME \A k \in ToSet(exp) :
                Cardinality(Wanted(k, exp)) <= Cardinality(Reported(k, rpt))
      PROVE  Found(exp, rpt)
    <2> DEFINE Ok(k, f) == \A a, b \in Wanted(k, exp) : f[a] = f[b] => a = b
               fs == [k \in ToSet(exp) |->
                        CHOOSE f \in [Wanted(k, exp) -> Reported(k, rpt)] : Ok(k, f)]
               m == [i \in DOMAIN exp |-> fs[exp[i]][i]]
    <2>1. ASSUME NEW k \in ToSet(exp) PROVE
          fs[k] \in [Wanted(k, exp) -> Reported(k, rpt)] /\ Ok(k, fs[k])
        <3>1. \E f \in [Wanted(k, exp) -> Reported(k, rpt)] : Ok(k, f)
            BY <1>1, <1>4, LargerTakesAll
        <3> QED BY <3>1
    <2>2. \A i \in DOMAIN exp : exp[i] \in ToSet(exp) /\ i \in Wanted(exp[i], exp)
        BY DEF ToSet, Wanted
    <2> HIDE DEF fs
    <2>3. \A i \in DOMAIN exp : m[i] \in Reported(exp[i], rpt)
        BY <2>1, <2>2
    <2>4. m \in [DOMAIN exp -> DOMAIN rpt]
        BY <2>3 DEF Reported, Sinks
    <2>5. \A i, j \in DOMAIN exp : m[i] = m[j] => i = j
        <3> SUFFICES ASSUME NEW i \in DOMAIN exp, NEW j \in DOMAIN exp, m[i] = m[j]
                     PROVE  i = j
            OBVIOUS
        <3>1. exp[i] = exp[j]
            BY <2>3 DEF Reported
        <3> QED BY <3>1, <2>1, <2>2
    <2>6. \A i \in DOMAIN exp :
              /\ rpt[m[i]].valid
              /\ ToSet(rpt[m[i]].steps) \ {NoLine} # {}
              /\ SinkOf(rpt[m[i]]) = exp[i]
        BY <2>3 DEF Reported, Sinks
    <2> HIDE DEF m
    <2> QED BY <2>4, <2>5, <2>6 DEF Found
<1>5. Missing(exp, rpt) = {} <=>
      \A k \in ToSet(exp) :
          Cardinality(Wanted(k, exp)) <= Cardinality(Reported(k, rpt))
    BY <1>2 DEF Missing
<1> QED BY <1>3, <1>4, <1>5

-------------------------------------------------------------------------------
(* The inductive invariant *)

ReportFile == {NoFile, Corrupt} \cup Report
Row == [case : Case, ok : BOOLEAN]

MainTypes ==
    /\ pc \in {"select", "collect", "aborting", "summarised", "exited"}
    /\ jobs \in JobsChoices /\ only \subseteq Name /\ selected \subseteq Case
    /\ results \in Seq(Row)
    /\ exitCode \in -1..2

WorkerTypes ==
    /\ st \in [Case -> {"queued", "analysing", "exited", "done"}]
    /\ rc \in [Case -> {0, 1}]
    /\ outcome \in [Case -> {"none", "pass", "fail", "raised"}]
    /\ report \in [Project -> ReportFile \cup OldReport]
    /\ own \in [Case -> ReportFile]

\* A case has an outcome when it is done, an analyzer only if it has a bitcode,
\* and no report of its own before it starts.
Workers ==
    \A c \in Case :
        /\ outcome[c] = "none" <=> st[c] # "done"
        /\ st[c] \in {"analysing", "exited"} => c \in HasBc
        /\ st[c] = "queued" => own[c] = NoFile

\* The collected results are those of different finished cases.
Rows ==
    /\ \A i \in DOMAIN results :
          /\ results[i].case \in selected
          /\ st[results[i].case] = "done"
          /\ outcome[results[i].case] # "raised"
          /\ results[i].ok <=> outcome[results[i].case] = "pass"
    /\ \A i, j \in DOMAIN results : results[i].case = results[j].case => i = j

SomeRaised == \E c \in selected : outcome[c] = "raised"

\* Started and not collected yet.
Open(c) == c \in selected /\ st[c] # "queued" /\ c \notin Collected

\* What the main thread knows of the workers: without a pool one case at a
\* time is open, and the process ends only when none is under way.
Main ==
    /\ pc = "select" => selected = {} /\ results = <<>> /\ \A c \in Case : st[c] = "queued"
    /\ ~(jobs > 1) => \A c, d \in Case : Open(c) /\ Open(d) => c = d
    /\ pc = "aborting" => SomeRaised
    /\ pc \in {"summarised", "exited"} => Running = {}
    /\ pc = "summarised" =>
          /\ Collected = selected
          /\ exitCode = 0 <=> \A i \in DOMAIN results : results[i].ok
    /\ pc = "exited" => selected = {} \/ (exitCode = 1 /\ SomeRaised)

IInv == MainTypes /\ WorkerTypes /\ Workers /\ Rows /\ Main

LEMMA InitIInv == Init => IInv
<1> SUFFICES ASSUME Init PROVE IInv
    OBVIOUS
<1>1. MainTypes
    BY DEF Init, MainTypes
<1>2. WorkerTypes
    BY DEF Init, WorkerTypes, ReportFile
<1>3. Workers /\ Rows
    BY DEF Init, Workers, Rows
<1>4. Main
    BY DEF Init, Main, Open
<1> QED BY <1>1, <1>2, <1>3, <1>4 DEF IInv

\* A step that leaves the workers and the results alone.
LEMMA SelectKeepsIInv == IInv /\ Select => IInv'
<1> SUFFICES ASSUME IInv, Select PROVE IInv'
    OBVIOUS
<1> USE DEF IInv, args, worker
<1>1. MainTypes'
    BY DEF Select, MainTypes
<1>2. WorkerTypes' /\ Workers'
    BY DEF Select, WorkerTypes, Workers
<1>3. Rows'
    BY DEF Select, Main, Rows
<1>4. Main'
    BY DEF Select, Main, MainTypes, Open, Running, Collected
<1> QED BY <1>1, <1>2, <1>3, <1>4

LEMMA StartKeepsIInv ==
    ASSUME IInv, NEW c \in Case, Start(c) \/ StartRaises(c) PROVE IInv'
<1> USE DEF IInv, args, worker
<1>1. MainTypes'
    BY DEF Start, StartRaises, IsNext, MainTypes
<1>2. WorkerTypes'
    BY DEF Start, StartRaises, IsNext, WorkerTypes
<1>3. Workers'
    BY DEF Start, StartRaises, IsNext, Workers, WorkerTypes
<1>4. Rows'
    BY DEF Start, StartRaises, IsNext, Rows, WorkerTypes, MainTypes
<1>5. Collected' = Collected /\ selected' = selected /\ jobs' = jobs /\ pc' = pc
    BY DEF Start, StartRaises, IsNext, Collected
<1>6. SomeRaised => SomeRaised'
    BY DEF Start, StartRaises, IsNext, SomeRaised, MainTypes, WorkerTypes, Workers
<1>7. \A d, e \in Case : ~(jobs > 1) /\ Open(d)' /\ Open(e)' => d = e
    BY <1>5 DEF Start, StartRaises, IsNext, Free, Open, WorkerTypes
<1> QED BY <1>1, <1>2, <1>3, <1>4, <1>5, <1>6, <1>7 DEF Start, StartRaises, IsNext, Main

\* A step of a case that is under way.
LEMMA RunningKeepsIInv ==
    ASSUME IInv, NEW c \in Case, WriteReport(c) \/ AnalyzerExit(c) \/ Finish(c)
    PROVE  IInv'
<1> USE DEF IInv, args, worker
<1>0. c \in selected /\ st[c] \in {"analysing", "exited"}
    BY DEF WriteReport, AnalyzerExit, Finish
<1>1. MainTypes'
    BY DEF WriteReport, AnalyzerExit, Finish, MainTypes
<1>2. WorkerTypes'
    BY DEF WriteReport, AnalyzerExit, Finish, WorkerTypes, ReportFile
<1>3. Workers'
    BY DEF WriteReport, AnalyzerExit, Finish, Workers, WorkerTypes
<1>4. \A d \in Case : st[d] \in {"queued", "done"} => st'[d] = st[d] /\ outcome'[d] = outcome[d]
    BY DEF WriteReport, AnalyzerExit, Finish, WorkerTypes
<1>5. UNCHANGED <<pc, args, results, exitCode>> /\ Collected' = Collected
    BY DEF WriteReport, AnalyzerExit, Finish, Collected
<1>6. Rows'
    BY <1>4, <1>5 DEF Rows, MainTypes
<1>7. SomeRaised => SomeRaised'
    BY <1>4, <1>5 DEF SomeRaised, Workers, MainTypes
<1>8. \A d \in Case : Open(d)' => Open(d)
    BY <1>4, <1>5 DEF Open, WorkerTypes
<1>9. pc \notin {"select", "summarised", "exited"}
    BY <1>0 DEF Main, Running
<1> QED BY <1>1, <1>2, <1>3, <1>5, <1>6, <1>7, <1>8, <1>9 DEF Main

LEMMA CollectKeepsIInv == ASSUME IInv, NEW c \in Case, Collect(c) PROVE IInv'
<1> USE DEF IInv, args, worker
<1> DEFINE row == [case |-> c, ok |-> outcome[c] = "pass"]
           n == Len(results)
<1>1. row \in Row
    BY DEF Row
<1>2. results' = Append(results, row)
    BY DEF Collect
<1>3. /\ n \in Nat /\ DOMAIN results = 1..n /\ DOMAIN results' = 1..(n + 1)
      /\ \A i \in 1..n : results'[i] = results[i]
      /\ results'[n + 1] = row
      /\ results' \in Seq(Row)
    BY <1>1, <1>2 DEF MainTypes
<1>4. row.case = c /\ (row.ok <=> outcome[c] = "pass")
    OBVIOUS
<1> HIDE DEF row, n
<1>5. MainTypes'
    BY <1>3 DEF Collect, MainTypes
<1>6. WorkerTypes' /\ Workers'
    BY DEF Collect, WorkerTypes, Workers
<1>7. Collected' = Collected \cup {c}
    BY <1>3, <1>4 DEF Collected
<1>8. Rows'
    BY <1>3, <1>4 DEF Collect, Rows, Collected
<1>9. Main'
    BY <1>7 DEF Collect, Main, Open
<1> QED BY <1>5, <1>6, <1>8, <1>9

\* A step of the main thread that ends, or begins to end, the process.
LEMMA EndingKeepsIInv ==
    ASSUME IInv, Abort \/ Summarise \/ (\E c \in Case : CollectRaised(c))
    PROVE  IInv'
<1> USE DEF IInv, args, worker
<1>1. MainTypes'
    BY DEF Abort, Summarise, CollectRaised, MainTypes
<1>2. UNCHANGED <<args, worker, results>>
    BY DEF Abort, Summarise, CollectRaised
<1>3. WorkerTypes' /\ Workers' /\ Rows'
    BY <1>2 DEF WorkerTypes, Workers, Rows
<1>4. /\ Running' = Running /\ Collected' = Collected /\ SomeRaised' = SomeRaised
      /\ \A c \in Case : Open(c)' = Open(c)
    BY <1>2 DEF Running, Collected, SomeRaised, Open
<1>5. ASSUME Abort PROVE Running = {}
    <2>1. CASE jobs > 1
        BY <1>5, <2>1 DEF Abort, Running
    <2>2. CASE ~(jobs > 1)
        <3>1. PICK c \in selected : outcome[c] = "raised"
            BY <1>5 DEF Abort, Main, SomeRaised
        <3>2. c \in Case /\ Open(c) /\ st[c] = "done"
            BY <3>1 DEF Open, Rows, Collected, Workers, MainTypes
        <3>3. \A d \in Running : d \in Case /\ Open(d)
            BY DEF Running, Open, Rows, Collected, MainTypes
        <3> QED BY <2>2, <3>2, <3>3 DEF Main, Running
    <2> QED BY <2>1, <2>2
<1>6. ASSUME Summarise PROVE Running = {}
    BY <1>6 DEF Summarise, Running, Rows, Collected
<1>7. Main'
    <2>1. CASE Abort
        BY <1>2, <1>4, <1>5, <2>1 DEF Abort, Main
    <2>2. CASE Summarise
        BY <1>2, <1>4, <1>6, <2>2 DEF Summarise, Main
    <2>3. CASE \E c \in Case : CollectRaised(c)
        BY <1>2, <1>4, <2>3 DEF CollectRaised, Main, SomeRaised
    <2> QED BY <2>1, <2>2, <2>3
<1> QED BY <1>1, <1>3, <1>7

\* Every step keeps the invariant.
LEMMA NextKeepsIInv == IInv /\ [Next]_vars => IInv'
<1> SUFFICES ASSUME IInv, [Next]_vars PROVE IInv'
    OBVIOUS
<1>1. CASE Harness
    BY <1>1, SelectKeepsIInv, StartKeepsIInv, RunningKeepsIInv, CollectKeepsIInv,
       EndingKeepsIInv DEF Harness
<1>2. CASE \E c \in Case : WriteReport(c) \/ AnalyzerExit(c)
    BY <1>2, RunningKeepsIInv
<1>3. CASE UNCHANGED vars
    <2>1. (MainTypes /\ WorkerTypes)' /\ Workers' /\ Rows'
        BY <1>3 DEF IInv, vars, args, worker, MainTypes, WorkerTypes, Workers, Rows
    <2>2. Main'
        BY <1>3 DEF IInv, vars, args, worker, Main, Open, Running, Collected, SomeRaised
    <2> QED BY <2>1, <2>2 DEF IInv
<1> QED BY <1>1, <1>2, <1>3 DEF Next, Exited

THEOREM Invariant == Spec => []IInv
BY InitIInv, NextKeepsIInv, PTL DEF Spec

-------------------------------------------------------------------------------
(* What follows from it *)

\* There are as many results as cases with one, and at most one per case.
LEMMA ResultsAreCounted ==
    ASSUME IInv
    PROVE  Len(results) = Cardinality(Collected) /\ Len(results) <= N
<1> DEFINE n == Len(results)
           f == [i \in 1..n |-> results[i].case]
<1>1. n \in Nat /\ DOMAIN results = 1..n
    BY DEF IInv, MainTypes
<1>2. f \in Bijection(1..n, Collected)
    <2>1. f \in [1..n -> Collected]
        BY <1>1 DEF Collected
    <2>2. \A i, j \in 1..n : f[i] = f[j] => i = j
        BY <1>1 DEF IInv, Rows
    <2>3. \A c \in Collected : \E i \in 1..n : f[i] = c
        BY <1>1 DEF Collected
    <2> HIDE DEF n, f
    <2> QED BY <2>1, <2>2, <2>3, Fun_IsBij
<1>3. n = Cardinality(Collected)
    <2>1. ExistsBijection(1..n, Collected)
        BY <1>2, Fun_ExistsBij
    <2> HIDE DEF n
    <2> QED BY <1>1, <2>1, FS_CountingElements
<1>4. Collected \in SUBSET Case
    BY DEF IInv, MainTypes, Rows, Collected
<1>5. IsFiniteSet(Case) /\ Cardinality(Case) = N
    <2>1. N \in Nat /\ 1 \in Int /\ N \in Int
        BY CasesAssumption
    <2>2. IsFiniteSet(1..N) /\ Cardinality(1..N) = IF 1 > N THEN 0 ELSE N - 1 + 1
        BY <2>1, FS_Interval
    <2> QED BY <2>1, <2>2 DEF Case
<1>6. Cardinality(Collected) <= N
    BY <1>4, <1>5, FS_Subset
<1> QED BY <1>3, <1>6

\* run_bug_regression.py keeps its variables in their types; in particular it
\* never collects more results than there are cases.
THEOREM TypeCorrect == Spec => []TypeOK
<1>1. ASSUME IInv PROVE TypeOK
    <2>1. \A i \in DOMAIN results : results[i] \in Row
        BY <1>1 DEF IInv, MainTypes
    <2>2. \A i \in DOMAIN results : results[i].case \in Case /\ results[i].ok \in BOOLEAN
        BY <2>1 DEF Row
    <2>3. DOMAIN report = Project /\ DOMAIN own = Case
        BY <1>1 DEF IInv, WorkerTypes
    <2> QED BY <1>1, <2>2, <2>3, ResultsAreCounted DEF IInv, MainTypes, WorkerTypes, TypeOK
<1> QED BY <1>1, Invariant, PTL

\* No analyzer outlives the process, whether the run is summed up, selects
\* nothing or is ended by the exception of a case.
THEOREM NoAnalyzerIsLeftBehind == Spec => []NoOrphans
<1>1. IInv => NoOrphans
    BY DEF IInv, Main, NoOrphans
<1> QED BY <1>1, Invariant, PTL

-------------------------------------------------------------------------------
(* The exit status. Two cases of the same project would read each other's    *)
(* report; the committed cases have a project of their own.                  *)

OwnReportFile == \A c, d \in Case : ProjectOf[c] = ProjectOf[d] => c = d

\* In a fresh output directory the file a case reads is the one its own
\* analyzer wrote, and its outcome is the verdict on that.
Verdicts ==
    ~reused => \A c \in Case :
        /\ report[ProjectOf[c]] = own[c]
        /\ st[c] = "done" => (outcome[c] = "pass" <=> Good(c))

LEMMA InitVerdicts == Init => Verdicts
BY DEF Init, Verdicts, Project

LEMMA NextVerdicts ==
    ASSUME OwnReportFile, IInv, Verdicts, [Next]_vars
    PROVE  Verdicts'
<1> SUFFICES ASSUME ~reused, reused' = reused PROVE Verdicts'
    <2>1. reused' = reused
        BY DEF Next, Harness, Exited, vars, args, Select, Start, StartRaises, Finish, Collect,
           CollectRaised, Abort, Summarise, WriteReport, AnalyzerExit
    <2> QED BY <2>1 DEF Verdicts
<1> USE DEF IInv, args, worker
<1>1. ASSUME NEW c \in Case, Start(c) \/ StartRaises(c) PROVE Verdicts'
    BY <1>1 DEF Start, StartRaises, IsNext, Verdicts, Good, WorkerTypes, Workers
<1>2. ASSUME NEW c \in Case, WriteReport(c) PROVE Verdicts'
    <2>1. \A d \in Case : ProjectOf[d] \in Project /\ (ProjectOf[d] = ProjectOf[c] => d = c)
        BY DEF Project, OwnReportFile
    <2>2. \A d \in Case : report'[ProjectOf[d]] = own'[d]
        BY <1>2, <2>1 DEF WriteReport, Verdicts, WorkerTypes
    <2>3. \A d \in Case : st[d] = "done" => own'[d] = own[d]
        BY <1>2 DEF WriteReport, WorkerTypes
    <2> QED BY <1>2, <2>2, <2>3 DEF WriteReport, Verdicts, Good
<1>3. ASSUME NEW c \in Case, AnalyzerExit(c) PROVE Verdicts'
    BY <1>3 DEF AnalyzerExit, Verdicts, Good, WorkerTypes
<1>4. ASSUME NEW c \in Case, Finish(c) PROVE Verdicts'
    <2>1. /\ UNCHANGED <<rc, own, report>> /\ st'[c] = "done"
          /\ \A d \in Case : d # c => st'[d] = st[d] /\ outcome'[d] = outcome[d]
        BY <1>4 DEF Finish, WorkerTypes
    <2>2. own[c] = report[ProjectOf[c]] /\ own[c] \in ReportFile /\ c \in HasBc
        BY <1>4 DEF Finish, Verdicts, WorkerTypes, Workers
    <2>3. own[c] \in Report =>
              (Missing(Expected[c], own[c]) = {} <=> Found(Expected[c], own[c]))
        BY NothingMissingIsFound, CasesAssumption, ReportsAssumption DEF Case
    <2>4. outcome'[c] = "pass" <=>
              rc[c] = 0 /\ own[c] \in Report /\ Missing(Expected[c], own[c]) = {}
        BY <1>4, <2>2, ReportsAssumption DEF Finish, WorkerTypes, ReportFile
    <2>5. own[c] \in Report <=> own[c] \notin {NoFile, Corrupt}
        BY <2>2, ReportsAssumption DEF ReportFile
    <2>6. outcome'[c] = "pass" <=> Good(c)'
        BY <2>1, <2>2, <2>3, <2>4, <2>5 DEF Good
    <2>7. \A d \in Case : d # c => (Good(d)' <=> Good(d))
        BY <2>1 DEF Good
    <2> QED BY <2>1, <2>6, <2>7 DEF Verdicts
<1>5. CASE UNCHANGED worker
    BY <1>5 DEF Verdicts, Good
<1>6. UNCHANGED worker \/ \E c \in Case :
          Start(c) \/ StartRaises(c) \/ WriteReport(c) \/ AnalyzerExit(c) \/ Finish(c)
    BY DEF Next, Harness, Exited, vars, Select, Collect, CollectRaised, Abort, Summarise
<1> QED BY <1>1, <1>2, <1>3, <1>4, <1>5, <1>6

\* With a fresh output directory and a report file per case, the process ends
\* with status 0 exactly when every selected case's own report has all its
\* expected sinks, in whatever order the analyzers run and finish.
THEOREM ExitStatusIsCorrect ==
    ASSUME OwnReportFile
    PROVE  Spec => []ExitStatusIsRight
<1>1. ASSUME IInv, Verdicts PROVE ExitStatusIsRight
    <2> SUFFICES ASSUME pc \in {"summarised", "exited"}, selected # {}, ~reused
                 PROVE  exitCode = 0 <=> \A c \in selected : Good(c)
        BY DEF ExitStatusIsRight
    <2> USE <1>1 DEF IInv
    <2>1. \A c \in selected : outcome[c] # "none" => (outcome[c] = "pass" <=> Good(c))
        BY DEF Verdicts, Workers, MainTypes
    <2>2. CASE pc = "summarised"
        <3>1. \A c \in selected : \E i \in DOMAIN results : results[i].case = c
            BY <2>2 DEF Main, Collected
        <3>2. \A i \in DOMAIN results : results[i].case \in selected /\
                  (results[i].ok <=> Good(results[i].case))
            BY DEF Rows, Verdicts, MainTypes
        <3>3. exitCode = 0 <=> \A i \in DOMAIN results : results[i].ok
            BY <2>2 DEF Main
        <3> QED BY <3>1, <3>2, <3>3
    <2>3. CASE pc = "exited"
        BY <2>1, <2>3 DEF Main, SomeRaised
    <2> QED BY <2>2, <2>3
<1>2. IInv /\ Verdicts /\ [Next]_vars => Verdicts'
    BY NextVerdicts
<1> QED BY <1>1, <1>2, InitVerdicts, Invariant, PTL DEF Spec

================================================================================
