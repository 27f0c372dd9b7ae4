----------------------------- MODULE RunBenchProofs -----------------------------
(***************************************************************************)
(* Proofs about RunBench, for every set of projects and samples and every  *)
(* analyzer that may fail, lie or write nothing: the exit status tells     *)
(* whether a row failed, the summaries are complete, and an "ok" is earned *)
(* by the two reports of the sample.                                       *)
(***************************************************************************)
EXTENDS RunBench, FiniteSetTheorems, TLAPS

-------------------------------------------------------------------------------
(* The inductive invariant *)

Benched == Wanted \cap HasOld

RowType == [sample : Sample \cup {Caller, "old"}, status : Status]
File == Report \cup OldReport \cup {NoFile}

RunType == [incRc : {0, 1}, scrRc : {0, 1}, workset : (SUBSET Func) \cup {NoFile},
            loaded : {"?", "0", "1"}, recheck : {"0", "1"},
            incJson : File, scrJson : File, fresh : BOOLEAN]

\* The places where no project is under way.
Outside == {"preflight", "died", "projects", "done"}

ControlTypes ==
    /\ pc \in Outside \cup {"store", "caller", "inc", "scratch", "judge", "samples"}
    /\ todoP \subseteq Project /\ proj \in Project \cup {None}
    /\ todo \subseteq Sample /\ sample \in Sample \cup {Caller, None}
    /\ DOMAIN module = Func /\ DOMAIN store = Func /\ DOMAIN base = Func
    /\ FAIL \in {0, 1}

DataTypes ==
    /\ run \in RunType
    /\ summary \in [Project -> Seq(RowType)]

\* Where the loops are: a project under way is one that is benched, and one
\* of its samples is in the analyzers' hands.
Place ==
    /\ pc \notin Outside =>
          proj \in Benched \ todoP /\ todo \subseteq SamplesOf[proj]
    /\ pc \in {"inc", "scratch", "judge"} => sample \in SamplesOf[proj] \cup {Caller}
    /\ pc = "done" => todoP = {}

\* FAIL is set iff a project that was started has a row that fails the run.
Failing(p) == \E i \in DOMAIN summary[p] : summary[p][i].status \in StatusesThatFail
FailKnown  == FAIL = 1 <=> \E p \in Benched \ todoP : Failing(p)

\* The summary of p has the caller sample and the samples in S, each once.
Has(p, S) ==
    /\ Len(summary[p]) = Cardinality(S) + 1
    /\ summary[p][1].sample = Caller
    /\ {summary[p][i].sample : i \in DOMAIN summary[p]} = S \cup {Caller}

Summed(p) == summary[p] = <<Row("old", "store_fail")>> \/ Has(p, SamplesOf[p])

\* How far the summaries are, at every place of the two loops.
Progress ==
    /\ \A p \in Benched \ todoP :
          pc \in Outside \/ p # proj => Summed(p)
    /\ pc \in {"store", "caller"} =>
          summary[proj] = <<>> /\ todo = SamplesOf[proj]
    /\ pc \in {"inc", "scratch", "judge"} =>
          \/ summary[proj] = <<>> /\ todo = SamplesOf[proj] /\ sample = Caller
          \/ /\ sample \in SamplesOf[proj] \ todo
             /\ Has(proj, SamplesOf[proj] \ (todo \cup {sample}))
    /\ pc = "samples" => Has(proj, SamplesOf[proj] \ todo)

\* What is known of the sample in the analyzers' hands.
RunKnown ==
    /\ pc \notin {"scratch", "judge"} => run = NoRun
    /\ pc \in {"scratch", "judge"} => run.workset \in {WorkSet(base, module), NoFile}
    /\ pc \in {"scratch", "judge"} /\ run.fresh => run.incJson \in Report
    /\ pc = "judge" /\ run.fresh => run.scrJson \in Report

IInv == ControlTypes /\ DataTypes /\ Place /\ FailKnown /\ Progress /\ RunKnown

LEMMA NoRunType == NoRun \in RunType
<1>1. NoFile \in (SUBSET Func) \cup {NoFile} /\ NoFile \in File
    BY DEF File
<1> QED BY <1>1 DEF NoRun, RunType

LEMMA WorkSetType == \A s, m : WorkSet(s, m) \subseteq Func /\ DOMAIN WriteBack(s, m) = Func
BY DEF WorkSet, Dirty, CallersOf, WriteBack

\* What a row more does to the summaries.
LEMMA AppendRowAdds ==
    ASSUME DataTypes, proj \in Project, UNCHANGED proj, NEW name, NEW status, AppendRow(name, status),
           Row(name, status) \in RowType
    PROVE  /\ summary' \in [Project -> Seq(RowType)]
           /\ \A p \in Project : p # proj => summary'[p] = summary[p]
           /\ Len(summary[proj]) \in Nat
           /\ DOMAIN summary[proj] = 1..Len(summary[proj])
           /\ Len(summary'[proj]) = Len(summary[proj]) + 1
           /\ DOMAIN summary'[proj] = 1..(Len(summary[proj]) + 1)
           /\ \A i \in 1..Len(summary[proj]) : summary'[proj][i] = summary[proj][i]
           /\ summary'[proj][Len(summary[proj]) + 1] = Row(name, status)
           /\ summary'[proj] = Append(summary[proj], Row(name, status))
<1> DEFINE row == Row(name, status)
<1>1. summary[proj] \in Seq(RowType)
    BY DEF DataTypes
<1>2. summary' = [summary EXCEPT ![proj] = Append(summary[proj], row)]
    BY DEF AppendRow
<1> HIDE DEF row
<1>3. summary'[proj] = Append(summary[proj], row)
    BY <1>2 DEF DataTypes
<1>4. Append(summary[proj], row) \in Seq(RowType)
    BY <1>1 DEF row
<1>5. summary' \in [Project -> Seq(RowType)]
    BY <1>2, <1>4 DEF DataTypes
<1>6. \A p \in Project : p # proj => summary'[p] = summary[p]
    BY <1>2 DEF DataTypes
<1>7. /\ Len(summary[proj]) \in Nat
      /\ DOMAIN summary[proj] = 1..Len(summary[proj])
      /\ Len(summary'[proj]) = Len(summary[proj]) + 1
      /\ DOMAIN summary'[proj] = 1..(Len(summary[proj]) + 1)
      /\ \A i \in 1..Len(summary[proj]) : summary'[proj][i] = summary[proj][i]
      /\ summary'[proj][Len(summary[proj]) + 1] = row
    BY <1>1, <1>3
<1> QED BY <1>3, <1>5, <1>6, <1>7 DEF row

\* A failing row, and no other, makes its project fail.
LEMMA AppendRowFails ==
    ASSUME DataTypes, proj \in Project, UNCHANGED proj, NEW name, NEW status, AppendRow(name, status),
           Row(name, status) \in RowType
    PROVE  /\ Failing(proj)' <=> Failing(proj) \/ status \in StatusesThatFail
           /\ \A p \in Project : p # proj => (Failing(p)' <=> Failing(p))
<1>1. Row(name, status).status = status
    BY DEF Row
<1>2. \A p \in Project : p # proj => summary'[p] = summary[p]
    BY AppendRowAdds
<1> DEFINE n == Len(summary[proj])
<1>3. /\ n \in Nat /\ DOMAIN summary[proj] = 1..n /\ DOMAIN summary'[proj] = 1..(n + 1)
      /\ \A i \in 1..n : summary'[proj][i] = summary[proj][i]
      /\ summary'[proj][n + 1].status = status
    BY <1>1, AppendRowAdds
<1> HIDE DEF n
<1>4. Failing(proj)' <=> Failing(proj) \/ status \in StatusesThatFail
    BY <1>3 DEF Failing
<1>5. \A p \in Project : p # proj => (Failing(p)' <=> Failing(p))
    BY <1>2 DEF Failing
<1> QED BY <1>4, <1>5

\* The first row of a summary, and one that follows.
LEMMA FirstRow ==
    ASSUME DataTypes, proj \in Project, UNCHANGED proj, NEW status, AppendRow(Caller, status),
           Row(Caller, status) \in RowType, summary[proj] = <<>>
    PROVE  Has(proj, {})'
<1>1. Row(Caller, status).sample = Caller
    BY DEF Row
<1>2. Cardinality({}) = 0
    BY FS_EmptySet
<1>3. Len(summary[proj]) = 0
    OBVIOUS
<1>4. Len(summary'[proj]) = 1 /\ DOMAIN summary'[proj] = 1..1 /\ summary'[proj][1].sample = Caller
    BY <1>1, <1>3, AppendRowAdds
<1>5. {summary'[proj][i].sample : i \in DOMAIN summary'[proj]} = {} \cup {Caller}
    BY <1>4
<1> QED BY <1>2, <1>4, <1>5 DEF Has

LEMMA AnotherRow ==
    ASSUME DataTypes, proj \in Project, UNCHANGED proj, NEW name, NEW status, AppendRow(name, status),
           Row(name, status) \in RowType, NEW S, IsFiniteSet(S), name \notin S, Has(proj, S)
    PROVE  Has(proj, S \cup {name})'
<1> DEFINE n == Len(summary[proj])
<1>1. Row(name, status).sample = name
    BY DEF Row
<1>2. Cardinality(S) \in Nat /\ Cardinality(S \cup {name}) = Cardinality(S) + 1
    BY FS_AddElement, FS_CardinalityType
<1>3. /\ n \in Nat /\ n >= 1 /\ Len(summary'[proj]) = n + 1
      /\ DOMAIN summary[proj] = 1..n /\ DOMAIN summary'[proj] = 1..(n + 1)
      /\ \A i \in 1..n : summary'[proj][i] = summary[proj][i]
      /\ summary'[proj][n + 1].sample = name
    BY <1>1, <1>2, AppendRowAdds DEF Has
<1> HIDE DEF n
<1>4. Len(summary'[proj]) = Cardinality(S \cup {name}) + 1
    BY <1>2, <1>3 DEF Has, n
<1>5. summary'[proj][1].sample = Caller
    BY <1>3 DEF Has
<1>6. {summary'[proj][i].sample : i \in DOMAIN summary'[proj]}
        = {summary[proj][i].sample : i \in DOMAIN summary[proj]} \cup {name}
    BY <1>3
<1> QED BY <1>4, <1>5, <1>6 DEF Has

-------------------------------------------------------------------------------
(* Every step keeps the invariant: one lemma for each part of the script. *)

\* Rows that stay say the same.
LEMMA SameSummary ==
    ASSUME summary' = summary
    PROVE  /\ \A p : Summed(p)' <=> Summed(p)
           /\ \A p, S : Has(p, S)' <=> Has(p, S)
           /\ \A p : Failing(p)' <=> Failing(p)
BY DEF Summed, Has, Failing

LEMMA OtherSummaries ==
    ASSUME NEW q, \A p \in Project : p # q => summary'[p] = summary[p]
    PROVE  \A p \in Project : p # q => (Summed(p)' <=> Summed(p))
<1> SUFFICES ASSUME NEW p \in Project, p # q PROVE Summed(p)' <=> Summed(p)
    OBVIOUS
<1> QED BY DEF Summed, Has

LEMMA InitIInv == Init => IInv
<1> SUFFICES ASSUME Init PROVE IInv
    OBVIOUS
<1>1. ControlTypes
    BY ModulesAssumption DEF Init, ControlTypes, EmptyStore, Outside
<1>2. DataTypes
    <2>1. <<>> \in Seq(RowType) /\ <<Row(Caller, "ok")>> \in Seq(RowType)
        BY DEF Row, RowType, Status
    <2> QED BY <2>1, NoRunType DEF Init, DataTypes
<1>3. Place /\ Progress /\ RunKnown
    BY SamplesAssumption DEF Init, Place, Progress, RunKnown, Benched, Outside
<1>4. FailKnown
    BY SamplesAssumption DEF Init, FailKnown, Benched
<1> QED BY <1>1, <1>2, <1>3, <1>4 DEF IInv

\* The checks, the loop over the projects, and its end.
LEMMA LoopKeepsIInv ==
    ASSUME IInv, ToolsFound \/ ToolMissing \/ SkipProject \/ Exit PROVE IInv'
<1> USE DEF IInv, place
<1>1. /\ pc \in Outside /\ pc' \in Outside
      /\ (pc' = "done" => todoP' = {}) /\ todoP' \subseteq todoP
      /\ UNCHANGED <<proj, todo, sample, module, store, run, FAIL, summary, base>>
      /\ (Benched \ todoP)' = Benched \ todoP
    BY DEF ToolsFound, ToolMissing, SkipProject, Exit, Outside, Benched
<1>2. ControlTypes' /\ DataTypes'
    BY <1>1 DEF ControlTypes, DataTypes
<1>3. Place' /\ RunKnown'
    BY <1>1 DEF Place, RunKnown, Outside
<1>4. FailKnown'
    BY <1>1, SameSummary DEF FailKnown
<1>5. Progress'
    BY <1>1, SameSummary DEF Progress, Outside
<1> QED BY <1>2, <1>3, <1>4, <1>5

LEMMA StartProjectKeepsIInv == ASSUME IInv, StartProject PROVE IInv'
<1> USE DEF IInv, place
<1>1. PICK p \in todoP \cap Wanted \cap HasOld :
          /\ todoP' = todoP \ {p} /\ proj' = p /\ todo' = SamplesOf[p]
          /\ summary' = [summary EXCEPT ![p] = <<>>]
    BY DEF StartProject
<1>2. p \in Project /\ p \in Benched /\ SamplesOf[p] \subseteq Sample
    BY SamplesAssumption DEF Benched
<1>3. summary'[p] = <<>> /\ \A q \in Project : q # p => summary'[q] = summary[q]
    BY <1>1, <1>2 DEF DataTypes
<1>4. ControlTypes'
    BY <1>1, <1>2 DEF StartProject, ControlTypes, EmptyStore, Outside
<1>5. DataTypes'
    <2>1. <<>> \in Seq(RowType)
        OBVIOUS
    <2> QED BY <1>1, <1>2, <2>1 DEF StartProject, DataTypes
<1>6. Place' /\ RunKnown'
    BY <1>1, <1>2 DEF StartProject, Place, RunKnown, Outside
<1>7. (Benched \ todoP)' = (Benched \ todoP) \cup {p} /\ Benched \subseteq Project
    BY <1>1, <1>2, SamplesAssumption DEF Benched
<1>8. FailKnown'
    <2>1. ~Failing(p)'
        BY <1>3 DEF Failing
    <2>2. \A q \in Project : q # p => (Failing(q)' <=> Failing(q))
        BY <1>3 DEF Failing
    <2>3. p \notin Benched \ todoP /\ FAIL' = FAIL
        BY <1>1 DEF StartProject
    <2> QED BY <1>7, <2>1, <2>2, <2>3 DEF FailKnown
<1>9. Progress'
    BY <1>1, <1>3, <1>7, OtherSummaries DEF StartProject, Progress, Outside
<1> QED BY <1>4, <1>5, <1>6, <1>8, <1>9

\* Steps that write no row.
LEMMA QuietKeepsIInv ==
    ASSUME IInv, StoreOk \/ BenchCaller \/ NextSample \/ ProjectDone
    PROVE  IInv'
<1> USE DEF IInv, place
<1>1. pc \notin Outside /\ UNCHANGED <<todoP, proj, run, FAIL, summary>>
    BY DEF StoreOk, BenchCaller, NextSample, ProjectDone, Outside
<1>2. SamplesOf[proj] \subseteq Sample /\ proj \in Project
    BY <1>1, SamplesAssumption DEF Place, Benched
<1>3. DOMAIN module' = Func
    BY <1>2, ModulesAssumption DEF StoreOk, BenchCaller, NextSample, ProjectDone, ControlTypes
<1>4. DOMAIN store' = Func /\ base' = base
    BY ModulesAssumption DEF StoreOk, BenchCaller, NextSample, ProjectDone, ControlTypes, EmptyStore
<1>5. ControlTypes'
    BY <1>1, <1>3, <1>4 DEF StoreOk, BenchCaller, NextSample, ProjectDone, ControlTypes, Outside
<1>6. DataTypes' /\ FailKnown'
    BY <1>1, SameSummary DEF DataTypes, FailKnown
<1>7. Place'
    BY <1>1 DEF StoreOk, BenchCaller, NextSample, ProjectDone, Place, Outside
<1>8. RunKnown'
    BY <1>1 DEF StoreOk, BenchCaller, NextSample, ProjectDone, RunKnown
<1>9. Progress'
    <2>1. CASE StoreOk
        BY <1>1, <2>1, SameSummary DEF StoreOk, Progress, Outside
    <2>2. CASE BenchCaller
        BY <1>1, <2>2, SameSummary DEF BenchCaller, Progress, Outside
    <2>3. CASE NextSample
        <3>1. PICK s \in todo : todo' = todo \ {s} /\ sample' = s
            BY <2>3 DEF NextSample
        <3>2. SamplesOf[proj] \ (todo' \cup {s}) = SamplesOf[proj] \ todo
              /\ s \in SamplesOf[proj] \ todo'
            BY <1>1, <3>1 DEF Place
        <3> QED BY <1>1, <2>3, <3>1, <3>2, SameSummary DEF NextSample, Progress, Outside
    <2>4. CASE ProjectDone
        <3>1. SamplesOf[proj] \ todo = SamplesOf[proj]
            BY <2>4 DEF ProjectDone
        <3> QED BY <1>1, <2>4, <3>1, SameSummary DEF ProjectDone, Progress, Summed, Outside
    <2> QED BY <2>1, <2>2, <2>3, <2>4
<1> QED BY <1>5, <1>6, <1>7, <1>8, <1>9

\* The two analyzer runs of a sample.
LEMMA RunKeepsIInv ==
    ASSUME IInv, IncOk \/ IncFail \/ ScratchOk \/ ScratchFail
    PROVE  IInv'
<1> USE DEF IInv, place
<1>1. /\ pc \in {"inc", "scratch"} /\ pc' \in {"scratch", "judge"}
      /\ UNCHANGED <<todoP, proj, todo, sample, module, FAIL, summary>>
    BY DEF IncOk, IncFail, ScratchOk, ScratchFail
<1>2. ControlTypes'
    BY <1>1, WorkSetType DEF IncOk, IncFail, ScratchOk, ScratchFail, ControlTypes, Outside
<1>3. \A written \in BOOLEAN : \A rpt \in ReportFile(written) :
          rpt \in File /\ (written => rpt \in Report)
    BY DEF File, ReportFile
<1>4. /\ WorkSet(store, module) \in (SUBSET Func) \cup {NoFile}
      /\ NoFile \in (SUBSET Func) \cup {NoFile}
    BY WorkSetType
<1>5. run' \in RunType /\ RunKnown'
    <2>1. CASE IncOk
        <3>1. PICK loaded \in {"?", "0", "1"}, recheck \in {"0", "1"},
                   workset \in {WorkSet(store, module), NoFile},
                   written \in BOOLEAN : \E rpt \in ReportFile(written) :
             run' = [run EXCEPT !.loaded = loaded, !.recheck = recheck,
                                !.workset = workset, !.incJson = rpt,
                                !.fresh = written]
            BY <2>1 DEF IncOk
        <3>2. PICK rpt \in ReportFile(written) :
             run' = [run EXCEPT !.loaded = loaded, !.recheck = recheck,
                                !.workset = workset, !.incJson = rpt,
                                !.fresh = written]
            BY <3>1
        <3>3. rpt \in File /\ (written => rpt \in Report)
            BY <1>3, <3>2
        <3>4. run' \in RunType
            BY <1>4, <3>1, <3>2, <3>3 DEF DataTypes, RunType
        <3>5. run'.workset = workset /\ run'.incJson = rpt /\ run'.fresh = written
            BY <3>2 DEF DataTypes, RunType
        <3>6. base' = store /\ pc' = "scratch"
            BY <2>1 DEF IncOk
        <3> QED BY <1>1, <3>1, <3>3, <3>4, <3>5, <3>6 DEF RunKnown
    <2>2. CASE IncFail
        <3>1. run' = [run EXCEPT !.incRc = 1, !.fresh = FALSE] /\ run = NoRun
              /\ pc' = "scratch"
            BY <2>2 DEF IncFail, RunKnown
        <3>2. run' \in RunType
            BY <3>1 DEF DataTypes, RunType
        <3>3. run'.workset = NoFile /\ ~run'.fresh
            BY <3>1 DEF NoRun
        <3> QED BY <3>1, <3>2, <3>3 DEF RunKnown
    <2>3. CASE ScratchOk
        <3>1. PICK written \in BOOLEAN : \E rpt \in ReportFile(written) :
             run' = [run EXCEPT !.scrJson = rpt, !.fresh = run.fresh /\ written]
            BY <2>3 DEF ScratchOk
        <3>2. PICK rpt \in ReportFile(written) :
             run' = [run EXCEPT !.scrJson = rpt, !.fresh = run.fresh /\ written]
            BY <3>1
        <3>3. rpt \in File /\ (written => rpt \in Report)
            BY <1>3, <3>2
        <3> DEFINE new == run.fresh /\ written
        <3>4. new \in BOOLEAN /\ (new => run.fresh /\ written)
            BY Zenon
        <3>5. run' = [run EXCEPT !.scrJson = rpt, !.fresh = new]
            BY <3>2
        <3> HIDE DEF new
        <3>6. /\ run' \in RunType
              /\ run'.workset = run.workset /\ run'.incJson = run.incJson
              /\ run'.scrJson = rpt /\ run'.fresh = new
            BY <3>3, <3>4, <3>5 DEF DataTypes, RunType
        <3>7. pc = "scratch" /\ pc' = "judge" /\ base' = base
            BY <2>3 DEF ScratchOk
        <3> QED BY <1>1, <3>3, <3>4, <3>6, <3>7 DEF RunKnown
    <2>4. CASE ScratchFail
        <3>1. /\ run' = [run EXCEPT !.scrRc = 1, !.fresh = FALSE] /\ base' = base
              /\ pc = "scratch" /\ pc' = "judge"
            BY <2>4 DEF ScratchFail
        <3>2. run' \in RunType /\ run'.workset = run.workset /\ ~run'.fresh
            BY <3>1 DEF DataTypes, RunType
        <3> QED BY <1>1, <3>1, <3>2 DEF RunKnown
    <2> QED BY <2>1, <2>2, <2>3, <2>4
<1>6. DataTypes'
    BY <1>1, <1>5 DEF DataTypes
<1>7. FailKnown' /\ Place' /\ Progress'
    <2>1. (Benched \ todoP)' = Benched \ todoP
        BY <1>1 DEF Benched
    <2> QED BY <1>1, <2>1, SameSummary DEF FailKnown, Place, Progress, Outside
<1> QED BY <1>2, <1>5, <1>6, <1>7

\* Rows that end a project, or follow the store or a sample.
LEMMA RowKeepsIInv ==
    ASSUME IInv, StoreFail \/ NoCallerBc \/ Judge
    PROVE  IInv'
<1> USE DEF IInv, place
<1>1. /\ pc \in {"store", "caller", "judge"} /\ pc' \in {"projects", "samples"}
      /\ UNCHANGED <<todoP, proj, todo, sample, module, store>>
      /\ DOMAIN base' = Func /\ run' = NoRun /\ FAIL' \in {0, 1}
    BY DEF StoreFail, NoCallerBc, Judge, ControlTypes, EmptyStore, RunKnown
<1>2. /\ proj \in Project /\ proj \in Benched \ todoP /\ Benched \subseteq Project
      /\ SamplesOf[proj] \subseteq Sample /\ todo \subseteq SamplesOf[proj]
      /\ IsFiniteSet(Sample)
    BY <1>1, SamplesAssumption DEF Place, Benched, Outside
<1>3. ControlTypes'
    BY <1>1 DEF ControlTypes, Outside
<1>4. Place' /\ RunKnown'
    BY <1>1, <1>2 DEF Place, RunKnown, Benched, Outside
<1>5. PICK name, status :
          /\ AppendRow(name, status) /\ Row(name, status) \in RowType
          /\ FAIL' = 1 <=> FAIL = 1 \/ status \in StatusesThatFail
          /\ pc = "store" => name = "old" /\ status = "store_fail" /\ pc' = "projects"
          /\ pc = "caller" => name = Caller /\ pc' = "samples"
          /\ pc = "judge" => name = sample /\ pc' = "samples"
    <2>1. CASE StoreFail
        <3>1. Row("old", "store_fail") \in RowType
            BY DEF Row, RowType, Status, StatusesThatFail
        <3> QED BY <2>1, <3>1 DEF StoreFail, StatusesThatFail
    <2>2. CASE NoCallerBc
        <3>1. Row(Caller, "no_cone_bug") \in RowType
            BY DEF Row, RowType, Status
        <3> QED BY <2>2, <3>1 DEF NoCallerBc, StatusesThatFail
    <2>3. CASE Judge
        <3>1. Verdict(run) = "ok" \/ Verdict(run) \in StatusesThatFail
            BY DEF Verdict, StatusesThatFail
        <3>2. sample \in Sample \cup {Caller}
            BY <1>2, <2>3 DEF Judge, Place
        <3>3. Row(sample, Verdict(run)) \in RowType
            BY <3>1, <3>2 DEF Row, RowType, Status
        <3>4. "ok" \notin StatusesThatFail
            BY DEF StatusesThatFail
        <3> HIDE DEF StatusesThatFail
        <3> QED BY <2>3, <3>1, <3>3, <3>4 DEF Judge, ControlTypes
    <2> QED BY <2>1, <2>2, <2>3
<1>6. DataTypes'
    BY <1>1, <1>2, <1>5, AppendRowAdds, NoRunType DEF DataTypes
<1>7. (Benched \ todoP)' = Benched \ todoP
    BY <1>1 DEF Benched
<1>8. FailKnown'
    <2>1. Failing(proj)' <=> Failing(proj) \/ status \in StatusesThatFail
        BY <1>1, <1>2, <1>5, AppendRowFails
    <2>2. \A p \in Project : p # proj => (Failing(p)' <=> Failing(p))
        BY <1>1, <1>2, <1>5, AppendRowFails
    <2>3. \A p \in Project : p = proj =>
              (Failing(p)' <=> Failing(p) \/ status \in StatusesThatFail)
        BY <1>1, <2>1
    <2> QED BY <1>2, <1>5, <1>7, <2>2, <2>3 DEF FailKnown
<1>9. \A p \in Project : p # proj => (Summed(p)' <=> Summed(p))
    BY <1>1, <1>2, <1>5, AppendRowAdds, OtherSummaries
<1>10. pc' = "projects" => Summed(proj)'
    <2>1. pc' = "projects" => summary[proj] = <<>> /\ summary'[proj] = Append(<<>>, Row("old", "store_fail"))
        BY <1>1, <1>2, <1>5, AppendRowAdds DEF Progress, Outside
    <2> QED BY <1>1, <2>1 DEF Summed
<1>11. pc' = "samples" => Has(proj, SamplesOf[proj] \ todo)'
    <2>1. ASSUME summary[proj] = <<>>, todo = SamplesOf[proj], name = Caller
          PROVE  Has(proj, SamplesOf[proj] \ todo)'
        <3>1. Has(proj, {})'
            BY <1>1, <1>2, <1>5, <2>1, FirstRow
        <3>2. SamplesOf[proj'] \ todo' = {}
            BY <1>1, <2>1
        <3> QED BY <3>1, <3>2
    <2>2. ASSUME name \in SamplesOf[proj] \ todo, Has(proj, SamplesOf[proj] \ (todo \cup {name}))
          PROVE  Has(proj, SamplesOf[proj] \ todo)'
        <3> DEFINE S == SamplesOf[proj] \ (todo \cup {name})
        <3>1. IsFiniteSet(S) /\ name \notin S
            BY <1>2, FS_Subset
        <3>2. S \cup {name} = SamplesOf[proj'] \ todo'
            BY <1>1, <2>2
        <3>3. Has(proj, S)
            BY <2>2
        <3> HIDE DEF S
        <3>4. \A T : T = S \cup {name} => Has(proj, T)'
            BY <1>1, <1>2, <1>5, <3>1, <3>3, AnotherRow
        <3> QED BY <3>2, <3>4
    <2> QED BY <1>1, <1>5, <2>1, <2>2 DEF Progress, Outside
<1>12. Progress'
    BY <1>1, <1>2, <1>7, <1>9, <1>10, <1>11 DEF Progress, Outside
<1> QED BY <1>3, <1>4, <1>6, <1>8, <1>12

LEMMA NextKeepsIInv == IInv /\ [Next]_vars => IInv'
<1> SUFFICES ASSUME IInv, [Next]_vars PROVE IInv'
    OBVIOUS
<1>1. CASE \/ ToolsFound \/ ToolMissing
           \/ SkipProject \/ StartProject \/ StoreOk \/ StoreFail
           \/ BenchCaller \/ NoCallerBc \/ NextSample \/ ProjectDone
           \/ IncOk \/ IncFail \/ ScratchOk \/ ScratchFail \/ Judge \/ Exit
    BY <1>1, LoopKeepsIInv, StartProjectKeepsIInv, QuietKeepsIInv, RunKeepsIInv,
       RowKeepsIInv
<1>2. CASE UNCHANGED vars
    <2>1. summary' = summary /\ (Benched \ todoP)' = Benched \ todoP
        BY <1>2 DEF vars, place, Benched
    <2>2. ControlTypes' /\ DataTypes' /\ Place' /\ RunKnown'
        BY <1>2, <2>1 DEF IInv, vars, place, ControlTypes, DataTypes, Place, RunKnown
    <2>3. FailKnown' /\ Progress'
        BY <1>2, <2>1, SameSummary DEF IInv, vars, place, FailKnown, Progress
    <2> QED BY <2>2, <2>3 DEF IInv
<1> QED BY <1>1, <1>2 DEF Next, Exited

THEOREM Invariant == Spec => []IInv
BY InitIInv, NextKeepsIInv, PTL DEF Spec

-------------------------------------------------------------------------------
(* What follows from it *)

\* run_bench.sh keeps its variables in their types, and the tables too.
THEOREM TypeCorrect == Spec => []TypeOK
<1>1. ASSUME IInv PROVE TypeOK
    <2> USE <1>1 DEF IInv
    <2>1. run.workset = NoFile \/ run.workset \subseteq Func
        BY DEF DataTypes, RunType
    <2>2. ASSUME NEW p \in Project, NEW i \in DOMAIN summary[p]
          PROVE  /\ summary[p][i].sample \in Sample \cup {Caller, "old"}
                 /\ summary[p][i].status \in Status
        <3>1. summary[p] \in Seq(RowType)
            BY DEF DataTypes
        <3>2. summary[p][i] \in RowType
            BY <2>2, <3>1
        <3> QED BY <3>2 DEF RowType
    <2> QED BY <2>1, <2>2 DEF ControlTypes, TypeOK, Outside
<1> QED BY <1>1, Invariant, PTL

\* The script exits with 1 iff a row of this invocation, of any project, has
\* a status that fails the run.
THEOREM ExitStatusIsCorrect == Spec => []ExitStatusIsRight
<1>1. IInv => ExitStatusIsRight
    BY DEF IInv, Place, FailKnown, Failing, Benched, ExitStatusIsRight
<1> QED BY <1>1, Invariant, PTL

\* When the script ends, the summary of every benched project has one row per
\* sample, the caller sample first, or tells that its store failed.
THEOREM SummaryIsComplete == Spec => []SummaryComplete
<1>1. IInv => SummaryComplete
    BY DEF IInv, Place, Progress, Summed, Has, Benched, SummaryComplete, Outside
<1> QED BY <1>1, Invariant, PTL

-------------------------------------------------------------------------------
(* The verdict *)

\* compare_cone_reports.py accepts exactly the incremental reports that invent
\* nothing and miss no bug of the work set.
LEMMA CompareAccepts ==
    ASSUME NEW inc, NEW scratch, NEW work, inc # NoFile, scratch # NoFile
    PROVE  CompareStatus(inc, scratch, work) = 0 <=>
              /\ ToSet(inc) \subseteq ToSet(scratch)
              /\ \A bug \in ToSet(scratch) : Touches(bug, work) => bug \in ToSet(inc)
<1>1. Invented(inc, scratch) = {} <=> ToSet(inc) \subseteq ToSet(scratch)
    BY DEF Invented
<1>2. Missing(inc, scratch, work) = {} <=>
          \A bug \in ToSet(scratch) : Touches(bug, work) => bug \in ToSet(inc)
    BY DEF Missing
<1> QED BY <1>1, <1>2 DEF CompareStatus

\* What two reports and a work set of this invocation must be for an "ok".
Earned ==
    /\ run.incRc = 0 /\ run.scrRc = 0
    /\ ConeBugs \subseteq ToSet(run.incJson)
    /\ ToSet(run.incJson) \subseteq ToSet(run.scrJson)
    /\ run.recheck = "0"

\* Whatever the two runs wrote, the if/elif chain says "ok" to nothing else:
\* the work set the analyzer wrote is the one that belongs to the store the run
\* started on, which is why the comparison is about the cone of the change.
LEMMA OkImpliesEarned ==
    ASSUME IInv, pc = "judge", run.fresh, Verdict(run) = "ok"
    PROVE  Earned
<1>1. run.incJson # NoFile /\ run.scrJson # NoFile
    BY NoFileAssumption DEF IInv, RunKnown
<1>2. /\ run.incRc = 0 /\ run.scrRc = 0 /\ run.workset # NoFile
      /\ CompareStatus(run.incJson, run.scrJson, run.workset) = 0
      /\ run.recheck = "0"
    BY DEF Verdict
<1>3. run.workset = WorkSet(base, module)
    BY <1>2 DEF IInv, RunKnown
<1>4. /\ ToSet(run.incJson) \subseteq ToSet(run.scrJson)
      /\ \A bug \in ToSet(run.scrJson) :
            Touches(bug, WorkSet(base, module)) => bug \in ToSet(run.incJson)
    BY <1>1, <1>2, <1>3, CompareAccepts
<1>5. ConeBugs \subseteq ToSet(run.incJson)
    BY <1>4 DEF ConeBugs, Touches
<1> QED BY <1>2, <1>4, <1>5 DEF Earned

\* An "ok" row is earned: both runs of the sample ended well, the incremental
\* one has every bug of its cone that the other reports and no bug it does not,
\* and no clean callee was rechecked.
THEOREM OkIsAlwaysEarned == Spec => OkIsEarned
<1>1. ASSUME IInv, [Next]_vars
      PROVE  [pc = "judge" /\ run.fresh /\ LastStatus(proj) = "ok" => Earned]_vars
    <2> SUFFICES ASSUME pc = "judge", run.fresh, LastStatus(proj) = "ok", ~UNCHANGED vars
                 PROVE  Earned
        OBVIOUS
    <2>1. Judge
        BY <1>1 DEF Next, ToolsFound, ToolMissing, SkipProject, StartProject, StoreOk,
           StoreFail, BenchCaller, NoCallerBc, NextSample, ProjectDone, IncOk, IncFail,
           ScratchOk, ScratchFail, Exit, Exited
    <2>2. proj \in Project /\ UNCHANGED proj /\ sample \in Sample \cup {Caller}
        BY <1>1, <2>1, SamplesAssumption DEF Judge, place, IInv, Place, Benched, Outside
    <2>3. Row(sample, Verdict(run)) \in RowType
        BY <2>2 DEF Verdict, Row, RowType, Status, StatusesThatFail
    <2>4. AppendRow(sample, Verdict(run))
        BY <2>1 DEF Judge
    <2>5. /\ Len(summary[proj]) \in Nat
          /\ Len(summary'[proj]) = Len(summary[proj]) + 1
          /\ summary'[proj][Len(summary[proj]) + 1] = Row(sample, Verdict(run))
        BY <1>1, <2>2, <2>3, <2>4, AppendRowAdds DEF IInv
    <2>6. LastStatus(proj) = Verdict(run)
        BY <2>5 DEF LastStatus, Last, Row
    <2> QED BY <1>1, <2>6, OkImpliesEarned
<1>2. ASSUME IInv, [Next]_vars
      PROVE  [pc = "judge" /\ run.fresh /\ LastStatus(proj) = "ok" =>
                 /\ run.incRc = 0 /\ run.scrRc = 0
                 /\ ConeBugs \subseteq ToSet(run.incJson)
                 /\ ToSet(run.incJson) \subseteq ToSet(run.scrJson)
                 /\ run.recheck = "0"]_vars
    BY <1>1, <1>2 DEF Earned
<1> QED BY <1>2, Invariant, PTL DEF Spec, OkIsEarned

-------------------------------------------------------------------------------
(* The first sample of a project *)

\* Until a project has its first row, its store is the one of old.bc: that is
\* what the incremental run of the caller sample starts on.
FirstOnOld ==
    /\ pc = "caller" => store = OldModule
    /\ pc = "inc" /\ summary[proj] = <<>> => store = OldModule
    /\ pc \in {"scratch", "judge"} /\ summary[proj] = <<>> => base = OldModule

LEMMA NextKeepsFirstOnOld ==
    ASSUME IInv, FirstOnOld, [Next]_vars PROVE FirstOnOld'
<1>1. ASSUME ToolsFound \/ ToolMissing \/ SkipProject \/ StartProject \/ StoreFail \/ NoCallerBc \/ ProjectDone
             \/ Judge \/ Exit \/ Exited
      PROVE  FirstOnOld'
    BY <1>1 DEF ToolsFound, ToolMissing, SkipProject, StartProject, StoreFail, NoCallerBc, ProjectDone, Judge,
       Exit, Exited, FirstOnOld, vars
<1>2. CASE StoreOk \/ BenchCaller
    BY <1>2 DEF StoreOk, BenchCaller, FirstOnOld, place
<1>3. CASE NextSample
    <2>1. Has(proj, SamplesOf[proj] \ todo) /\ proj \in Project
        BY <1>3, SamplesAssumption DEF NextSample, IInv, Progress, Place, Benched, Outside
    <2>2. SamplesOf[proj] \subseteq Sample
        BY <2>1, SamplesAssumption
    <2>3. IsFiniteSet(SamplesOf[proj] \ todo)
        BY <2>2, SamplesAssumption, FS_Subset
    <2>4. Cardinality(SamplesOf[proj] \ todo) \in Nat
        BY <2>3, FS_CardinalityType
    <2>5. summary[proj] # <<>>
        BY <2>1, <2>4 DEF Has
    <2> QED BY <1>3, <2>5 DEF NextSample, FirstOnOld
<1>4. CASE IncOk \/ IncFail
    BY <1>4 DEF IncOk, IncFail, FirstOnOld, place
<1>5. CASE ScratchOk \/ ScratchFail
    BY <1>5 DEF ScratchOk, ScratchFail, FirstOnOld, place
<1>6. CASE UNCHANGED vars
    BY <1>6 DEF vars, place, FirstOnOld
<1> QED BY <1>1, <1>2, <1>3, <1>4, <1>5, <1>6 DEF Next

\* An "ok" of a project's first sample means that the incremental report has
\* every bug that the whole-module run of the sample reports through a function
\* changed with respect to old.bc: what README.md says of all samples holds of
\* this one, whichever bugs the two runs happened to report.
THEOREM FirstOkIsRight == Spec => FirstOkCoversChange
<1>1. Init => FirstOnOld
    BY DEF Init, FirstOnOld
<1>2. Spec => []FirstOnOld
    BY <1>1, Invariant, NextKeepsFirstOnOld, PTL DEF Spec
<1>3. ASSUME FirstOnOld, pc = "judge", summary[proj] = <<>>,
             ConeBugs \subseteq ToSet(run.incJson)
      PROVE  CoversChange
    <2>1. base = OldModule
        BY <1>3 DEF FirstOnOld
    <2>2. Dirty(OldModule, module) \subseteq WorkSet(base, module)
        BY <2>1 DEF WorkSet
    <2> QED BY <1>3, <2>2 DEF ConeBugs, CoversChange
<1>4. ASSUME FirstOnOld,
             [pc = "judge" /\ run.fresh /\ LastStatus(proj) = "ok" =>
                 /\ run.incRc = 0 /\ run.scrRc = 0
                 /\ ConeBugs \subseteq ToSet(run.incJson)
                 /\ ToSet(run.incJson) \subseteq ToSet(run.scrJson)
                 /\ run.recheck = "0"]_vars
      PROVE  [pc = "judge" /\ summary[proj] = <<>> /\ run.fresh /\ LastStatus(proj) = "ok"
                 => CoversChange]_vars
    BY <1>3, <1>4
<1> QED BY <1>2, <1>4, OkIsAlwaysEarned, PTL DEF OkIsEarned, FirstOkCoversChange

================================================================================
