------------------------------ MODULE ConeReports ------------------------------
(***************************************************************************)
(* scripts/compare_cone_reports.py and scripts/make_caller_bc.py: the two  *)
(* programs run_bench.sh relies on to build a sample whose answer is known *)
(* and to judge an incremental report against a scratch report.            *)
(*                                                                         *)
(* A report is a sequence of bugs, a bug a record of its checker's name    *)
(* and the functions its diagnostic steps go through. NoFile is a report   *)
(* that is missing or that json.load rejects.                              *)
(***************************************************************************)
EXTENDS SequencesExt

CONSTANT NoFile

FuncsOf(bug) == ToSet(bug.steps)

-------------------------------------------------------------------------------
(* compare_cone_reports.py *)

\* A cone of the bugs that begin in the work set.
TouchesFirst(bug, work) == bug.steps[1] \in work

Touches(bug, work) == FuncsOf(bug) \cap work # {}

Invented(inc, scratch) == ToSet(inc) \ ToSet(scratch)

\* A cone bug that scratch reports and incremental does not.
Missing(inc, scratch, work) ==
    {bug \in ToSet(scratch) : Touches(bug, work)} \ ToSet(inc)

\* The exit status: an unreadable report ends in a traceback, which is 1 too.
CompareStatus(inc, scratch, work) ==
    IF \/ NoFile \in {inc, scratch}
       \/ Invented(inc, scratch) # {} \/ Missing(inc, scratch, work) # {}
    THEN 1 ELSE 0

-------------------------------------------------------------------------------
(* make_caller_bc.py *)

FirstStep(bug, f) == CHOOSE i \in DOMAIN bug.steps :
    bug.steps[i] = f /\ \A j \in 1..(i - 1) : bug.steps[j] # f

\* traces(): the bugs that go through at least two functions, in order.
Traces(report) == SelectSeq(report, LAMBDA bug : Cardinality(FuncsOf(bug)) >= 2)

\* The last function to appear in the trace: the caller.
CallerOf(bug) == CHOOSE f \in FuncsOf(bug) :
    \A g \in FuncsOf(bug) : FirstStep(bug, g) <= FirstStep(bug, f)

\* The callers the probe can go to: those with a `define` in the module text.
ProbeTargets(report, defined) ==
    SelectSeq(Traces(report), LAMBDA bug : CallerOf(bug) \in defined)

\* The caller of the first such trace.
CanMutate(report, defined) == report # NoFile /\ ProbeTargets(report, defined) # <<>>
Mutated(report, defined) == CallerOf(Head(ProbeTargets(report, defined)))
================================================================================
