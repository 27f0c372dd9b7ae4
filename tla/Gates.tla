--------------------------------- MODULE Gates ---------------------------------
(***************************************************************************)
(* scripts/check_*.py: each gate runs the analyzer on a fixture, once or   *)
(* several times, collects the functions its reports name, and exits with  *)
(* 0 iff it finds those a fixed analyzer reports and none of those it must *)
(* leave alone. What differs between the gates is in a table (GateTable    *)
(* for the gates of the repository); check_robin_map_stat_name.py, which   *)
(* compares a statistic instead, is the gate Robin.                        *)
(*                                                                         *)
(* The analyzer may report any traces the fixture's code has, fail, write  *)
(* no report or one that is not JSON, or not end. A trace is the function  *)
(* it ends in, the one of its first step, and all it passes through; a     *)
(* report without steps, or whose steps have no names, is Nameless.        *)
(***************************************************************************)
EXTENDS Naturals, Sequences, FiniteSets

CONSTANTS
    TableOf,    \* the gates that look for functions, by name
    NameInside, \* pairs of fixture functions, the first name a part of the second
    Robin,      \* the gate that looks at a statistic
    Stat,       \* statistics: the name and size of a largest function
    Largest,    \* those whose name has insert_impl_with_hash in it
    MaxExtra,   \* bound on functions a run reports that it need not
    None

Gate == DOMAIN TableOf \cup {Robin}

VARIABLES
    gate,     \* the script
    pc,
    found,    \* found[i]: what it collected from the report of run i
    stat,     \* Robin: the line on stdout and the field of the report
    exit,     \* its exit status
    reports   \* history: the traces in the report of run i

vars == <<gate, pc, found, stat, exit, reports>>

T       == TableOf[gate]
Looking == gate \in DOMAIN TableOf

-------------------------------------------------------------------------------
(* What the analyzer can report *)

Linked(fixture, f) == {f} \cup {h \in UNION {{c[1], c[2]} : c \in fixture.calls} :
                                  <<f, h>> \in fixture.calls \/ <<h, f>> \in fixture.calls}

TracesTo(fixture, f) ==
    {[end |-> f, first |-> h, steps |-> S \cup {f, h}] :
        h \in Linked(fixture, f), S \in SUBSET Linked(fixture, f)}

Traces(fixture) == UNION {TracesTo(fixture, f) : f \in fixture.ends}

\* No step has a name: it counts as a bug and names no function.
Nameless == [end |-> None, first |-> None, steps |-> {}]

Reportable(fixture) == Traces(fixture) \cup {Nameless}

Ends(report) == {t.end : t \in report}

-------------------------------------------------------------------------------
(* What a gate sees of it *)

\* A name is found in every step whose name contains it.
FitsInside(g, name, step) == name = step \/ <<name, step>> \in NameInside

\* The name of a step is compared, or searched for the name.
Fits(g, name, step) ==
    name = step \/ (TableOf[g].part /\ <<name, step>> \in NameInside)

Watched(g, i) == TableOf[g].need[i] \cup TableOf[g].absent[i]

Counted(g, t) == IF TableOf[g].steps = "first" THEN {t.first} \cap t.steps ELSE t.steps

\* funcs(): the watched functions that steps of the traces name.
Funcs(g, i, report) ==
    {name \in Watched(g, i) :
        \E t \in report : \E step \in Counted(g, t) : Fits(g, name, step)}

ASSUME TableAssumption ==
    /\ Robin \notin DOMAIN TableOf
    /\ \A g \in DOMAIN TableOf : Len(TableOf[g].need) \in Nat \ {0}

\* What the gates rely on: a function that must be absent calls, or is called
\* by, none in which a trace can end, and a watched one none that is watched,
\* too; a gate that looks at first steps has no calls at all; a gate that looks
\* for parts of names watches no name that is part of another one in its
\* fixture; and the suite watches all of its module.
ASSUME FixtureAssumption ==
    \A g \in DOMAIN TableOf : \A i \in 1..Len(TableOf[g].need) :
        LET fixture == TableOf[g].fixture[i] IN
        /\ \A f \in fixture.ends : \A h \in Linked(fixture, f) :
              /\ h # f => /\ TableOf[g].steps # "first" /\ h \notin TableOf[g].absent[i]
                          /\ {f, h} \cap Watched(g, i) # {f, h}
              /\ TableOf[g].part => \A name \in Watched(g, i) : <<name, h>> \notin NameInside
        /\ TableOf[g].cut => fixture.ends \subseteq TableOf[g].absent[i]

ASSUME SentinelAssumption ==
    /\ None \notin Gate /\ None \notin {0, 1, 2}
    /\ \A line, json \in Stat \cup {None} : None # [line |-> line, json |-> json]
    /\ Largest \subseteq Stat /\ None \notin Stat
    /\ \A g \in DOMAIN TableOf : \A i \in 1..Len(TableOf[g].need) :
          None \notin Watched(g, i)

\* Every run reported what it has to and none reported what it must not; the
\* suite also wants TotalBugs to be 0 where the report has it.
Clean ==
    \A i \in DOMAIN found :
       /\ T.need[i] \subseteq found[i].funcs
       /\ T.absent[i] \cap found[i].funcs = {}
       /\ T.cut => found[i].quiet

-------------------------------------------------------------------------------
Init ==
    /\ gate = None /\ pc = "idle"
    /\ found = <<>> /\ reports = <<>>
    /\ stat = None /\ exit = None

\* A wrong number of arguments.
Usage ==
    /\ pc = "idle"
    /\ \E g \in Gate :
          /\ gate' = g
          /\ exit' = IF g # Robin /\ TableOf[g].given THEN 2 ELSE 1
    /\ pc' = "done"
    /\ UNCHANGED <<found, stat, reports>>

\* Before a run: the suite extracts its function first.
Before(g) == IF g # Robin /\ TableOf[g].cut THEN "extract" ELSE "analyse"

Start ==
    /\ pc = "idle"
    /\ \E g \in Gate : gate' = g /\ pc' = Before(g)
    /\ UNCHANGED <<found, stat, exit, reports>>

Extract ==
    /\ pc = "extract"
    /\ pc' = "analyse"
    /\ UNCHANGED <<gate, found, stat, exit, reports>>

\* sys.exit with a message, or an exception nobody catches.
Die == pc' = "done" /\ exit' = 1 /\ UNCHANGED <<gate, found, stat, reports>>

ExtractFails == pc = "extract" /\ Die

\* The report of the next run is there: collect its functions. TotalBugs may
\* be missing from it.
Collect ==
    LET i == Len(found) + 1 IN
    /\ \E rpt \in SUBSET Reportable(T.fixture[i]) :
          /\ Cardinality(Ends(rpt) \ T.need[i]) <= MaxExtra
          /\ reports' = Append(reports, rpt)
          /\ \E quiet \in {rpt = {}, TRUE} :
                found' = Append(found, [funcs |-> Funcs(gate, i, rpt), quiet |-> quiet])
    /\ pc' = IF i = Len(T.need) THEN "judge" ELSE Before(gate)
    /\ UNCHANGED <<gate, stat, exit>>

\* A report that does not move the gate on.
AnalyzerOkAgain ==
    /\ pc = "analyse" /\ Looking /\ ~T.given /\ Len(found) <= Len(T.need)
    /\ found' = Append(found, [funcs |-> {}, quiet |-> TRUE])
    /\ UNCHANGED <<gate, pc, stat, exit, reports>>

\* The analyzer exits with 0 and a report.
AnalyzerOk == pc = "analyse" /\ Looking /\ ~T.given /\ Collect

\* It exits with another status, or leaves no report or one json.loads rejects.
AnalyzerFails == pc = "analyse" /\ (Looking => ~T.given) /\ Die

\* A time limit that starts the analyzer over.
TimeoutRetried == pc = "analyse" /\ Looking /\ T.timed /\ ~T.given /\ UNCHANGED vars

\* subprocess.run kills it and raises TimeoutExpired.
Timeout == pc = "analyse" /\ Looking /\ T.timed /\ ~T.given /\ Die

\* The loop-break gate reads the report it is given, or raises.
ReadGiven == pc = "analyse" /\ Looking /\ T.given /\ (Collect \/ Die)

\* The statistic on stdout and in the report, each possibly missing. What the
\* report names may have been freed before it was written.
StatRun ==
    /\ pc = "analyse" /\ gate = Robin
    /\ \E line, json \in Stat \cup {None} : stat' = [line |-> line, json |-> json]
    /\ pc' = "judge"
    /\ UNCHANGED <<gate, found, exit, reports>>

Judge ==
    /\ pc = "judge" /\ Looking
    /\ exit' = IF Clean THEN 0 ELSE 1
    /\ pc' = "done"
    /\ UNCHANGED <<gate, found, stat, reports>>

JudgeStat ==
    /\ pc = "judge" /\ gate = Robin
    /\ exit' = IF stat.line \in Largest /\ stat.json = stat.line THEN 0 ELSE 1
    /\ pc' = "done"
    /\ UNCHANGED <<gate, found, stat, reports>>

Exited == pc = "done" /\ UNCHANGED vars

\* What the script and llvm-extract do by themselves.
Script == Start \/ Extract \/ Timeout \/ ReadGiven \/ Judge \/ JudgeStat

Next == Script \/ Usage \/ ExtractFails \/ AnalyzerOk \/ AnalyzerFails \/ StatRun \/ Exited

Spec     == Init /\ [][Next]_vars
FairSpec == Spec /\ WF_vars(Script)

-------------------------------------------------------------------------------
(* Properties *)

\* Every variable holds values of its type.
TypeOK ==
    /\ gate \in Gate \cup {None}
    /\ pc \in {"idle", "extract", "analyse", "judge", "done"}
    /\ Looking => Len(found) <= Len(T.need)
    /\ Len(reports) = Len(found)
    /\ exit \in {None, 0, 1, 2}

\* Every run was made, each trace that has to be there ends in its function in
\* the report of the right run, and none ends where it must not; in a module
\* cut for the suite there is no report at all.
WellReported ==
    IF gate = Robin
       THEN stat # None /\ stat.line \in Largest /\ stat.json = stat.line
       ELSE /\ Len(reports) = Len(T.need)
            /\ \A i \in 1..Len(T.need) :
                  /\ T.need[i] \subseteq Ends(reports[i])
                  /\ T.absent[i] \cap Ends(reports[i]) = {}
                  /\ T.cut => Nameless \notin reports[i]

\* A trace that ends outside the functions the gate watches, but passes through
\* one it needs, or, in the suite, has no names.
Misled ==
    /\ Looking
    /\ \E i \in DOMAIN reports : \E t \in reports[i] :
          /\ t.end \notin Watched(gate, i)
          /\ T.cut \/ t.steps \cap T.need[i] # {}

\* A gate exits with 0 if the analyzer is right about every function, by
\* where its traces end, and otherwise only if some trace misleads it: although
\* it looks at all or at the first of their steps, at parts of names, and at the
\* reports of several runs.
ExitIsVerdict ==
    pc = "done" => /\ WellReported => exit = 0
                   /\ exit = 0 => WellReported \/ Misled

\* What the docstrings of the scripts say of the analyzer before its fix: the
\* functions it reports in each run. The suite passes with it, too.
Unfixed(g) ==
    CASE g = "ll_arg_type_filter"       -> <<{"maybe_local"}>>
      [] g = "local_field_leak"         -> <<{}, {}>>
      [] g = "npd_libmeta_null_sources" -> <<{"strchr_baseline"}>>
      [] g = "uaf_field_use"            -> <<TableOf[g].need[1] \ {"f_field", "m2_arg0_gep"}>>
      [] g = "uaf_wrapper_memcpy"       -> <<{"copy_freed"}>>
      [] g = "fdl_loop_break"           -> <<TableOf[g].need[1] \cup {"not_a_leak"}>>

\* The unfixed analyzer does not get through its gate.
RejectsUnfixed ==
    pc = "done" /\ Looking /\ gate # "local_field_suite" =>
        ([i \in DOMAIN reports |-> Ends(reports[i])] = Unfixed(gate) => exit # 0)

\* A gate with a time limit ends whatever the analyzer does, and so does the
\* one that only reads.
EndsInTime == pc # "idle" /\ Looking /\ (T.timed \/ T.given) ~> pc = "done"
================================================================================
