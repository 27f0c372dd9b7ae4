------------------------------ MODULE GatesProofs ------------------------------
(***************************************************************************)
(* Proofs about Gates, for any table of gates whose fixtures meet          *)
(* FixtureAssumption and any reports the fixtures allow: what a gate       *)
(* collects is where the traces end, so its exit status is the verdict.    *)
(***************************************************************************)
EXTENDS Gates, TLAPS

Runs(g) == Len(TableOf[g].need)

\* A trace ends in a function of the fixture, and all its steps are linked
\* to that function.
LEMMA TraceShape ==
    ASSUME NEW fixture, NEW t \in Traces(fixture)
    PROVE  /\ t.end \in fixture.ends
           /\ t.first \in Linked(fixture, t.end)
           /\ t.end \in t.steps /\ t.steps \subseteq Linked(fixture, t.end)
<1>1. PICK f \in fixture.ends : t \in TracesTo(fixture, f)
  BY DEF Traces
<1>2. PICK h \in Linked(fixture, f), S \in SUBSET Linked(fixture, f) :
        t = [end |-> f, first |-> h, steps |-> S \cup {f, h}]
  BY <1>1 DEF TracesTo
<1>3. f \in Linked(fixture, f)
  BY DEF Linked
<1> QED
  BY <1>2, <1>3

\* What a gate finds in a report of its fixture: every watched function in
\* which a trace ends, of those that must be absent no other, and another one
\* only in a trace that ends in a function the gate does not watch.
LEMMA FoundIsEnd ==
    ASSUME NEW g \in DOMAIN TableOf, NEW i \in 1..Runs(g),
           NEW rpt \in SUBSET Reportable(TableOf[g].fixture[i])
    PROVE  /\ Watched(g, i) \cap Ends(rpt) \subseteq Funcs(g, i, rpt)
           /\ TableOf[g].absent[i] \cap Funcs(g, i, rpt) \subseteq Ends(rpt)
           /\ \A name \in Funcs(g, i, rpt) : name \notin Ends(rpt) =>
                 \E t \in rpt : t.end \notin Watched(g, i) /\ name \in t.steps
<1> DEFINE fixture == TableOf[g].fixture[i]
<1>1. ASSUME NEW t \in rpt, t.end \in Watched(g, i)
      PROVE  t.end \in Funcs(g, i, rpt)
  <2>1. t.end # None
    BY <1>1, SentinelAssumption DEF Runs
  <2>2. t \in Traces(fixture)
    BY <2>1 DEF Reportable, Nameless
  <2>3. /\ t.end \in fixture.ends /\ t.first \in Linked(fixture, t.end)
        /\ t.end \in t.steps
    BY <2>2, TraceShape
  <2>6. \A h \in Linked(fixture, t.end) : h # t.end => TableOf[g].steps # "first"
    <3>1. \A f \in fixture.ends : \A h \in Linked(fixture, f) :
              h # f => TableOf[g].steps # "first"
      BY FixtureAssumption DEF Runs
    <3> QED
      BY <2>3, <3>1
  <2>4. TableOf[g].steps = "first" => t.first = t.end
    BY <2>3, <2>6
  <2>5. t.end \in Counted(g, t)
    BY <2>3, <2>4 DEF Counted
  <2> QED
    BY <1>1, <2>5 DEF Funcs, Fits
<1>2. ASSUME NEW name \in Funcs(g, i, rpt)
      PROVE  /\ name \in Watched(g, i)
             /\ \E t \in rpt :
                   /\ name \in t.steps
                   /\ name # t.end => name \notin TableOf[g].absent[i] /\ t.end \notin Watched(g, i)
  <2>1. PICK t \in rpt : \E step \in Counted(g, t) : Fits(g, name, step)
    BY DEF Funcs
  <2>2. name \in Watched(g, i)
    BY DEF Funcs
  <2>3. t.steps # {}
    BY <2>1 DEF Counted
  <2>4. t \in Traces(fixture)
    BY <2>3 DEF Reportable, Nameless
  <2>5. t.end \in fixture.ends /\ t.steps \subseteq Linked(fixture, t.end)
    BY <2>4, TraceShape
  <2>6. \A h \in t.steps :
          /\ h # t.end => /\ h \notin TableOf[g].absent[i]
                         /\ {t.end, h} \cap Watched(g, i) # {t.end, h}
          /\ TableOf[g].part => <<name, h>> \notin NameInside
    BY <2>2, <2>5, FixtureAssumption DEF Runs
  <2>7. Counted(g, t) \subseteq t.steps
    BY DEF Counted
  <2>8. name \in t.steps
    BY <2>1, <2>6, <2>7 DEF Fits
  <2>9. name # t.end => name \notin TableOf[g].absent[i] /\ t.end \notin Watched(g, i)
    BY <2>2, <2>6, <2>8
  <2> QED
    BY <2>2, <2>8, <2>9
<1>3. Watched(g, i) \cap Ends(rpt) \subseteq Funcs(g, i, rpt)
  BY <1>1 DEF Ends
<1>4. ASSUME NEW name \in Funcs(g, i, rpt), name \notin Ends(rpt)
      PROVE  /\ name \notin TableOf[g].absent[i]
             /\ \E t \in rpt : t.end \notin Watched(g, i) /\ name \in t.steps
  <2>1. PICK t \in rpt :
          /\ name \in t.steps
          /\ name # t.end => name \notin TableOf[g].absent[i] /\ t.end \notin Watched(g, i)
    BY <1>2
  <2>2. name # t.end
    BY <1>4 DEF Ends
  <2>3. name \notin TableOf[g].absent[i] /\ t.end \notin Watched(g, i)
    BY <2>1, <2>2
  <2> QED
    BY <2>1, <2>3
<1> QED
  BY <1>3, <1>4

-------------------------------------------------------------------------------
\* What a gate knows of the runs it has made.
Collected ==
    /\ found \in Seq([funcs : SUBSET UNION {UNION {Watched(g, i) : i \in 1..Runs(g)} :
                                              g \in DOMAIN TableOf},
                      quiet : BOOLEAN])
    /\ reports \in Seq(SUBSET UNION {UNION {Reportable(TableOf[g].fixture[i]) : i \in 1..Runs(g)} :
                                       g \in DOMAIN TableOf})
    /\ Len(reports) = Len(found)
    /\ Looking => Len(found) <= Runs(gate)
    /\ Looking => \A i \in 1..Len(found) :
          /\ reports[i] \subseteq Reportable(T.fixture[i])
          /\ found[i].funcs = Funcs(gate, i, reports[i])
          /\ reports[i] = {} => found[i].quiet

\* Where it is: runs are still missing, or all have been made.
Placed ==
    /\ gate \in Gate \cup {None}
    /\ pc \in {"idle", "extract", "analyse", "judge", "done"}
    /\ pc # "idle" => gate \in Gate
    /\ pc = "idle" => found = <<>>
    /\ pc \in {"idle", "extract", "analyse"} => stat = None
    /\ pc \in {"extract", "analyse"} /\ Looking => Len(found) < Runs(gate)
    /\ pc = "judge" /\ Looking => Len(found) = Runs(gate)
    /\ pc = "judge" /\ gate = Robin =>
          \E line, json \in Stat \cup {None} : stat = [line |-> line, json |-> json]
    /\ exit \in {None, 0, 1, 2}

IInv == Placed /\ Collected /\ ExitIsVerdict

LEMMA InitIInv == Init => IInv
<1> SUFFICES ASSUME Init PROVE IInv
  OBVIOUS
<1>1. ~Looking
  BY SentinelAssumption DEF Init, Looking, Gate
<1>2. found = <<>> /\ reports = <<>> /\ Len(found) = 0 /\ Len(reports) = 0
  BY DEF Init
<1>3. Collected
  BY <1>1, <1>2 DEF Collected
<1> QED
  BY <1>1, <1>3 DEF Init, IInv, Placed, ExitIsVerdict

\* A gate that dies has not made all its runs.
LEMMA DieIInv ==
    ASSUME IInv, Die, pc \in {"extract", "analyse"}
    PROVE  IInv'
<1>1. gate' = gate /\ found' = found /\ reports' = reports /\ stat' = stat
      /\ pc' = "done" /\ exit' = 1
  BY DEF Die
<1>2. Collected'
  BY <1>1 DEF IInv, Collected, Looking, T
<1>3. ~WellReported'
  <2>1. CASE gate = Robin
    BY <1>1, <2>1 DEF IInv, Placed, WellReported
  <2>2. CASE gate # Robin
    <3>1. Looking /\ Len(reports) < Runs(gate)
      BY <2>2 DEF IInv, Placed, Collected, Looking, Gate
    <3>2. Len(reports) # Len(T.need)
      BY <3>1, TableAssumption DEF IInv, Collected, Runs, T, Looking
    <3> QED
      BY <1>1, <2>2, <3>2 DEF WellReported, T
  <2> QED BY <2>1, <2>2
<1>4. Placed' /\ ExitIsVerdict'
  BY <1>1, <1>3 DEF IInv, Placed, ExitIsVerdict, Looking
<1> QED
  BY <1>2, <1>4 DEF IInv

\* A report is collected: one more run has been made.
LEMMA CollectIInv ==
    ASSUME IInv, pc = "analyse", Looking, Collect
    PROVE  IInv'
<1> DEFINE i == Len(found) + 1
<1>1. gate \in DOMAIN TableOf /\ gate # Robin /\ Len(found) < Runs(gate)
      /\ Runs(gate) \in Nat /\ Len(found) \in Nat
  BY TableAssumption DEF IInv, Placed, Collected, Looking, Runs
<1>2. i \in 1..Runs(gate)
  BY <1>1
<1>a. PICK rpt \in SUBSET Reportable(T.fixture[i]) :
        /\ reports' = Append(reports, rpt)
        /\ \E quiet \in {rpt = {}, TRUE} :
              found' = Append(found, [funcs |-> Funcs(gate, i, rpt), quiet |-> quiet])
  BY Zenon DEF Collect
<1>b. PICK quiet \in {rpt = {}, TRUE} :
        found' = Append(found, [funcs |-> Funcs(gate, i, rpt), quiet |-> quiet])
  BY <1>a, Zenon
<1>3. /\ rpt \subseteq Reportable(T.fixture[i]) /\ quiet \in {rpt = {}, TRUE}
      /\ reports' = Append(reports, rpt)
      /\ found' = Append(found, [funcs |-> Funcs(gate, i, rpt), quiet |-> quiet])
  BY <1>a, <1>b, Zenon
<1>4. /\ gate' = gate /\ stat' = stat /\ exit' = exit
      /\ pc' = IF i = Runs(gate) THEN "judge" ELSE Before(gate)
  BY DEF Collect, Runs, T
<1>5. /\ Len(found') = i /\ Len(reports') = i
      /\ found'[i] = [funcs |-> Funcs(gate, i, rpt), quiet |-> quiet] /\ reports'[i] = rpt
      /\ \A j \in 1..Len(found) : found'[j] = found[j] /\ reports'[j] = reports[j]
  BY <1>3 DEF IInv, Collected
<1>6. /\ found' \in Seq([funcs : SUBSET UNION {UNION {Watched(g, j) : j \in 1..Runs(g)} :
                                              g \in DOMAIN TableOf},
                         quiet : BOOLEAN])
  <2>1. Funcs(gate, i, rpt) \subseteq
          UNION {UNION {Watched(g, j) : j \in 1..Runs(g)} : g \in DOMAIN TableOf}
    BY <1>1, <1>2 DEF Funcs
  <2>2. quiet \in BOOLEAN
    BY <1>3, Zenon
  <2> QED
    BY <1>3, <2>1, <2>2 DEF IInv, Collected
<1>7. reports' \in Seq(SUBSET UNION {UNION {Reportable(TableOf[g].fixture[j]) : j \in 1..Runs(g)} :
                                       g \in DOMAIN TableOf})
  <2>1. rpt \subseteq UNION {UNION {Reportable(TableOf[g].fixture[j]) : j \in 1..Runs(g)} :
                               g \in DOMAIN TableOf}
    BY <1>1, <1>2, <1>3 DEF T
  <2> QED
    BY <1>3, <2>1 DEF IInv, Collected
<1>8. \A j \in 1..Len(found') :
          /\ reports'[j] \subseteq Reportable(T'.fixture[j])
          /\ found'[j].funcs = Funcs(gate', j, reports'[j])
          /\ reports'[j] = {} => found'[j].quiet
  <2>1. T' = T
    BY <1>4 DEF T
  <2> SUFFICES ASSUME NEW j \in 1..i
               PROVE  /\ reports'[j] \subseteq Reportable(T.fixture[j])
                      /\ found'[j].funcs = Funcs(gate, j, reports'[j])
                      /\ reports'[j] = {} => found'[j].quiet
    BY <1>4, <1>5, <2>1
  <2>2. CASE j = i
    <3>1. rpt = {} => quiet
      BY <1>3, Zenon
    <3> QED
      BY <1>3, <1>5, <2>2, <3>1
  <2>3. CASE j # i
    <3>1. j \in 1..Len(found)
      BY <1>1, <2>3
    <3> QED
      BY <1>5, <3>1 DEF IInv, Collected
  <2> QED BY <2>2, <2>3
<1>9. Collected'
  BY <1>1, <1>2, <1>4, <1>5, <1>6, <1>7, <1>8 DEF Collected, Looking
<1>10. Placed' /\ ExitIsVerdict'
  BY <1>1, <1>2, <1>4, <1>5 DEF IInv, Placed, ExitIsVerdict, Before, Looking
<1> QED
  BY <1>9, <1>10 DEF IInv

\* The comparison of a gate that has made all its runs is the verdict, unless
\* a trace misleads it.
LEMMA JudgeIInv ==
    ASSUME IInv, Judge
    PROVE  IInv'
<1>1. /\ gate \in DOMAIN TableOf /\ gate # Robin /\ Runs(gate) = Len(T.need)
      /\ Len(found) = Runs(gate) /\ Len(reports) = Runs(gate)
      /\ DOMAIN found = 1..Runs(gate) /\ DOMAIN reports = 1..Runs(gate)
  BY TableAssumption DEF IInv, Placed, Collected, Judge, Looking, Runs, T
<1>2. ASSUME NEW i \in 1..Runs(gate)
      PROVE  /\ reports[i] \subseteq Reportable(T.fixture[i])
             /\ reports[i] = {} => found[i].quiet
             /\ T.need[i] \cap Ends(reports[i]) \subseteq found[i].funcs
             /\ T.absent[i] \cap found[i].funcs = T.absent[i] \cap Ends(reports[i])
             /\ \A name \in found[i].funcs : name \notin Ends(reports[i]) =>
                   \E t \in reports[i] : t.end \notin Watched(gate, i) /\ name \in t.steps
  <2>1. /\ reports[i] \subseteq Reportable(T.fixture[i])
        /\ found[i].funcs = Funcs(gate, i, reports[i])
        /\ reports[i] = {} => found[i].quiet
    BY <1>1 DEF IInv, Collected, Looking
  <2>2. T.need[i] \subseteq Watched(gate, i) /\ T.absent[i] \subseteq Watched(gate, i)
    BY DEF Watched, T
  <2> QED
    BY <1>1, <2>1, <2>2, FoundIsEnd DEF T
<1>3. Clean => WellReported \/ Misled
  <2> SUFFICES ASSUME Clean, ~Misled PROVE WellReported
    OBVIOUS
  <2>1. ASSUME NEW i \in 1..Runs(gate)
        PROVE  /\ T.need[i] \subseteq Ends(reports[i])
               /\ T.absent[i] \cap Ends(reports[i]) = {}
               /\ T.cut => Nameless \notin reports[i]
    <3>1. T.need[i] \subseteq found[i].funcs /\ T.absent[i] \cap found[i].funcs = {}
      BY <1>1 DEF Clean
    <3>2. \A t \in reports[i] : t.end \in Watched(gate, i) \/ (~T.cut /\ t.steps \cap T.need[i] = {})
      BY <1>1 DEF Misled, Looking
    <3>3. T.need[i] \subseteq Ends(reports[i])
      BY <1>2, <3>1, <3>2
    <3>4. Nameless.end \notin Watched(gate, i)
      BY <1>1, SentinelAssumption DEF Nameless, Runs
    <3> QED
      BY <1>2, <3>1, <3>2, <3>3, <3>4
  <2> QED
    BY <1>1, <2>1 DEF WellReported
<1>a. WellReported => Clean
  <2> SUFFICES ASSUME WellReported, NEW i \in 1..Runs(gate)
               PROVE  /\ T.need[i] \subseteq found[i].funcs
                      /\ T.absent[i] \cap found[i].funcs = {}
                      /\ T.cut => found[i].quiet
    BY <1>1 DEF Clean
  <2>1. /\ T.need[i] \subseteq Ends(reports[i])
        /\ T.absent[i] \cap Ends(reports[i]) = {}
        /\ T.cut => Nameless \notin reports[i]
    BY <1>1 DEF WellReported
  <2>2. ASSUME T.cut PROVE found[i].quiet
    <3>1. T.fixture[i].ends \subseteq T.absent[i]
      BY <1>1, <2>2, FixtureAssumption DEF Runs, T
    <3>2. reports[i] \subseteq Traces(T.fixture[i])
      BY <1>2, <2>1, <2>2 DEF Reportable
    <3>3. Ends(reports[i]) \subseteq T.fixture[i].ends
      BY <3>2, TraceShape DEF Ends
    <3>4. reports[i] = {}
      BY <2>1, <3>1, <3>3 DEF Ends
    <3> QED
      BY <1>2, <3>4
  <2> QED
    BY <1>2, <2>1, <2>2
<1>4. /\ gate' = gate /\ found' = found /\ reports' = reports /\ stat' = stat
      /\ pc' = "done" /\ exit' = IF Clean THEN 0 ELSE 1
  BY DEF Judge
<1>5. (WellReported' <=> WellReported) /\ (Misled' <=> Misled)
  BY <1>4 DEF WellReported, Misled, Looking, Watched, T, Ends
<1>6. Collected'
  BY <1>4 DEF IInv, Collected, Looking, T
<1>7. Placed'
  <2>1. exit' \in {0, 1}
    BY <1>4, Zenon
  <2>2. gate' \in Gate /\ pc' = "done"
    BY <1>1, <1>4 DEF Gate
  <2> QED
    BY <2>1, <2>2 DEF Placed
<1>8. (WellReported' => exit' = 0) /\ (exit' = 0 => WellReported' \/ Misled')
  BY <1>3, <1>a, <1>4, <1>5
<1>9. ExitIsVerdict'
  BY <1>8 DEF ExitIsVerdict
<1> QED
  BY <1>6, <1>7, <1>9 DEF IInv

\* A gate that has not started has nothing collected.
LEMMA IdleIsEmpty ==
    ASSUME IInv, pc = "idle"
    PROVE  found = <<>> /\ reports = <<>> /\ stat = None
<1>1. found = <<>> /\ stat = None
  BY DEF IInv, Placed
<1>2. reports \in Seq(SUBSET UNION {UNION {Reportable(TableOf[g].fixture[i]) : i \in 1..Runs(g)} :
                                       g \in DOMAIN TableOf})
      /\ Len(reports) = Len(found)
  BY DEF IInv, Collected
<1> QED
  BY <1>1, <1>2

\* Every step keeps the invariant.
LEMMA NextIInv ==
    ASSUME IInv, [Next]_vars
    PROVE  IInv'
<1>1. CASE Start
  <2>1. PICK g \in Gate : gate' = g /\ pc' = Before(g)
    BY <1>1 DEF Start
  <2>2. /\ found = <<>> /\ found' = <<>> /\ reports' = reports /\ reports = <<>>
        /\ stat' = None /\ exit' = exit /\ pc' \in {"extract", "analyse"}
    <3>1. /\ found' = found /\ reports' = reports /\ stat' = stat /\ exit' = exit
          /\ pc = "idle" /\ pc' \in {"extract", "analyse"}
      BY <1>1, <2>1, Zenon DEF Start, Before
    <3> QED
      BY <3>1, IdleIsEmpty
  <2>3. g \in DOMAIN TableOf => Runs(g) \in Nat \ {0}
    BY TableAssumption DEF Runs
  <2>4. Collected'
    BY <2>1, <2>2, <2>3 DEF IInv, Collected, Looking
  <2> QED
    BY <2>1, <2>2, <2>3, <2>4 DEF IInv, Placed, ExitIsVerdict, Looking
<1>2. CASE Usage
  <2>a. PICK g \in Gate :
          gate' = g /\ exit' = IF g # Robin /\ TableOf[g].given THEN 2 ELSE 1
    BY <1>2, Zenon DEF Usage
  <2>b. exit' \in {1, 2} /\ gate' \in Gate
    BY <2>a, Zenon
  <2>c. /\ pc = "idle" /\ pc' = "done"
        /\ found' = found /\ reports' = reports /\ stat' = stat
    BY <1>2, Zenon DEF Usage
  <2>d. found = <<>> /\ reports = <<>> /\ stat = None
    BY <2>c, IdleIsEmpty
  <2>1. /\ found = <<>> /\ found' = <<>> /\ reports' = reports /\ reports = <<>>
        /\ stat' = None /\ exit' \in {1, 2} /\ pc' = "done" /\ gate' \in Gate
    BY <2>b, <2>c, <2>d
  <2>2. gate' # Robin => gate' \in DOMAIN TableOf /\ Runs(gate') \in Nat \ {0}
    BY <2>1, TableAssumption DEF Runs, Gate
  <2>3. ~WellReported'
    BY <2>1, <2>2 DEF WellReported, T, Runs
  <2>4. Robin \notin DOMAIN TableOf
    BY TableAssumption
  <2>5. Collected'
    BY <2>1, <2>2, <2>4 DEF IInv, Collected, Looking
  <2> QED
    BY <2>1, <2>3, <2>5 DEF IInv, Placed, ExitIsVerdict, Looking
<1>3. CASE Extract
  BY <1>3 DEF Extract, IInv, Placed, Collected, ExitIsVerdict, Looking, T
<1>4. CASE ExtractFails \/ AnalyzerFails \/ Timeout
  BY <1>4, DieIInv DEF ExtractFails, AnalyzerFails, Timeout
<1>5. CASE AnalyzerOk
  BY <1>5, CollectIInv DEF AnalyzerOk
<1>6. CASE ReadGiven
  BY <1>6, CollectIInv, DieIInv DEF ReadGiven
<1>7. CASE StatRun
  <2>1. ~Looking
    BY <1>7, TableAssumption DEF StatRun, Looking
  <2> QED
    BY <1>7, <2>1 DEF StatRun, IInv, Placed, Collected, ExitIsVerdict, Looking
<1>8. CASE Judge
  BY <1>8, JudgeIInv
<1>9. CASE JudgeStat
  <2>1. ~Looking /\ gate = Robin /\ stat # None
    BY <1>9, TableAssumption, SentinelAssumption DEF JudgeStat, Looking, IInv, Placed
  <2> QED
    BY <1>9, <2>1 DEF JudgeStat, IInv, Placed, Collected, ExitIsVerdict, WellReported, Looking
<1>10. CASE UNCHANGED vars
  BY <1>10 DEF vars, IInv, Placed, Collected, ExitIsVerdict, WellReported, Misled, Looking,
     Watched, T
<1> QED
  BY <1>1, <1>2, <1>3, <1>4, <1>5, <1>6, <1>7, <1>8, <1>9, <1>10
     DEF Next, Script, Exited

\* The exit status of a gate is 0 when each trace it wants ends in its function
\* and none ends in a function it must leave alone, and else only when a trace
\* that ends in a function it does not watch misleads it.
THEOREM ExitStatusIsVerdict == Spec => []ExitIsVerdict
<1>1. Spec => []IInv
  BY InitIInv, NextIInv, PTL DEF Spec
<1>2. IInv => ExitIsVerdict
  BY DEF IInv
<1> QED
  BY <1>1, <1>2, PTL

\* Every variable holds values of its type.
THEOREM TypeCorrect == Spec => []TypeOK
<1>1. Spec => []IInv
  BY InitIInv, NextIInv, PTL DEF Spec
<1>2. IInv => TypeOK
  BY DEF IInv, Placed, Collected, TypeOK, Runs, T
<1> QED
  BY <1>1, <1>2, PTL

-------------------------------------------------------------------------------
(* The gates of the repository. *)

RepoTable == INSTANCE GateTable

\* What the first run of a gate needs or must not find, as far as the unfixed
\* analyzer gets it wrong.
LEMMA UnfixedIsWrong ==
    ASSUME TableOf = RepoTable!Table,
           NEW g \in DOMAIN TableOf, g # "local_field_suite"
    PROVE  \/ ~(TableOf[g].need[1] \subseteq Unfixed(g)[1])
           \/ TableOf[g].absent[1] \cap Unfixed(g)[1] # {}
<1>0. g \in {"ll_arg_type_filter", "local_field_leak", "npd_libmeta_null_sources",
             "uaf_field_use", "uaf_wrapper_memcpy", "fdl_loop_break"}
  BY DEF RepoTable!Table
<1> USE DEF RepoTable!Table, RepoTable!OneRun, Unfixed
<1>1. CASE g = "ll_arg_type_filter"
  <2>1. "maybe" \in TableOf[g].need[1] /\ "maybe" \notin Unfixed(g)[1]
    BY <1>1 DEF RepoTable!LlArgTypeFilter
  <2> QED BY <2>1
<1>2. CASE g = "local_field_leak"
  <2>1. "leak_field" \in TableOf[g].need[1] /\ "leak_field" \notin Unfixed(g)[1]
    BY <1>2 DEF RepoTable!LocalFieldLeak
  <2> QED BY <2>1
<1>3. CASE g = "npd_libmeta_null_sources"
  <2>1. "getenv_unchecked" \in TableOf[g].need[1] /\ "getenv_unchecked" \notin Unfixed(g)[1]
    BY <1>3 DEF RepoTable!NpdNullSources
  <2> QED BY <2>1
<1>4. CASE g = "uaf_field_use"
  <2>1. "f_field" \in TableOf[g].need[1] /\ "f_field" \notin Unfixed(g)[1]
    BY <1>4 DEF RepoTable!UafFieldUse
  <2> QED BY <2>1
<1>5. CASE g = "uaf_wrapper_memcpy"
  <2>1. "use_after" \in TableOf[g].need[1] /\ "use_after" \notin Unfixed(g)[1]
    BY <1>5 DEF RepoTable!UafWrapperMemcpy
  <2> QED BY <2>1
<1>6. CASE g = "fdl_loop_break"
  <2>1. "not_a_leak" \in TableOf[g].absent[1] /\ "not_a_leak" \in Unfixed(g)[1]
    BY <1>6 DEF RepoTable!FdlLoopBreak
  <2> QED BY <2>1
<1> QED
  BY <1>0, <1>1, <1>2, <1>3, <1>4, <1>5, <1>6

\* The unfixed analyzer reports no function that a gate does not watch.
LEMMA UnfixedIsWatched ==
    ASSUME TableOf = RepoTable!Table,
           NEW g \in DOMAIN TableOf, g # "local_field_suite",
           NEW i \in DOMAIN Unfixed(g)
    PROVE  Unfixed(g)[i] \subseteq Watched(g, i)
<1>1. g \in {"ll_arg_type_filter", "local_field_leak", "npd_libmeta_null_sources",
             "uaf_field_use", "uaf_wrapper_memcpy", "fdl_loop_break"}
  BY DEF RepoTable!Table
<1> USE DEF RepoTable!Table, RepoTable!OneRun, Unfixed, Watched
<1>2. CASE g = "ll_arg_type_filter"
  BY <1>2 DEF RepoTable!LlArgTypeFilter
<1>3. CASE g = "local_field_leak"
  BY <1>3
<1>4. CASE g = "npd_libmeta_null_sources"
  BY <1>4 DEF RepoTable!NpdNullSources
<1>5. CASE g = "uaf_field_use"
  BY <1>5 DEF RepoTable!UafFieldUse
<1>6. CASE g = "uaf_wrapper_memcpy"
  <2>1. i = 1 /\ Unfixed(g)[i] = {"copy_freed"}
    BY <1>6
  <2>2. TableOf[g].need[1] = {"copy_freed", "use_after"}
    BY <1>6 DEF RepoTable!UafWrapperMemcpy
  <2> QED BY <2>1, <2>2
<1>7. CASE g = "fdl_loop_break"
  <2>1. i = 1 /\ Unfixed(g)[i] = TableOf[g].need[1] \cup {"not_a_leak"}
    BY <1>7
  <2>2. "not_a_leak" \in TableOf[g].absent[1]
    BY <1>7 DEF RepoTable!FdlLoopBreak
  <2> QED BY <2>1, <2>2
<1> QED
  BY <1>1, <1>2, <1>3, <1>4, <1>5, <1>6, <1>7

\* The docstrings of the scripts: for the gates of the repository, the analyzer
\* as it was before its fix does not get through, with any number of other
\* functions it may report and any statistics.
THEOREM UnfixedIsRejected ==
    ASSUME TableOf = RepoTable!Table
    PROVE  Spec => []RejectsUnfixed
<1>1. IInv => RejectsUnfixed
  <2> SUFFICES ASSUME IInv, pc = "done", Looking, gate # "local_field_suite",
                      [i \in DOMAIN reports |-> Ends(reports[i])] = Unfixed(gate)
               PROVE  exit # 0
    BY DEF RejectsUnfixed
  <2>1. gate \in DOMAIN TableOf /\ gate # Robin
    BY TableAssumption DEF Looking
  <2>6. ~Misled
    <3> SUFFICES ASSUME NEW i \in DOMAIN reports, NEW t \in reports[i]
                 PROVE  t.end \in Watched(gate, i)
      BY DEF Misled
    <3>1. i \in DOMAIN Unfixed(gate) /\ t.end \in Unfixed(gate)[i]
      <4>1. Unfixed(gate)[i] = Ends(reports[i])
        OBVIOUS
      <4> QED
        BY <4>1 DEF Ends
    <3> QED
      BY <2>1, <3>1, UnfixedIsWatched
  <2>2. SUFFICES ASSUME WellReported PROVE FALSE
    BY <2>6 DEF IInv, ExitIsVerdict
  <2>3. /\ Len(reports) = Len(T.need) /\ 1 \in 1..Len(T.need)
        /\ DOMAIN reports = 1..Len(reports)
    BY <2>1, <2>2, TableAssumption DEF WellReported, T, IInv, Collected
  <2>4. Ends(reports[1]) = Unfixed(gate)[1]
    BY <2>3
  <2>5. T.need[1] \subseteq Ends(reports[1]) /\ T.absent[1] \cap Ends(reports[1]) = {}
    BY <2>1, <2>2, <2>3 DEF WellReported
  <2> QED
    BY <2>1, <2>4, <2>5, UnfixedIsWrong DEF T
<1>2. Spec => []IInv
  BY InitIInv, NextIInv, PTL DEF Spec
<1> QED
  BY <1>1, <1>2, PTL
===============================================================================
