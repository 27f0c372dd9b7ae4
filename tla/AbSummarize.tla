------------------------------ MODULE AbSummarize ------------------------------
(***************************************************************************)
(* scripts/ab_summarize.py: the tables of an A/B result file. The file is  *)
(* what scripts/ab_branches.sh has appended so far, by the lines of        *)
(* MeasurementLog, now with the measured times; it may be summarised at    *)
(* any moment, also when runs have failed or are still to be made. The     *)
(* summary is an operator of the file.                                     *)
(*                                                                         *)
(* ab_branches.sh writes the header line only when the file does not       *)
(* exist: a file that was there and empty stays without one. Times that    *)
(* are divided for printing are left whole, medians are doubled.           *)
(***************************************************************************)
EXTENDS Naturals, Sequences, FiniteSetsExt, SequencesExt

CONSTANTS
    Project,
    SamplesOf,   \* SamplesOf[p]: the samples of p, Old not among them
    Old,
    StoreMs,     \* times a store can take
    IncMs,       \* IncMs[p]: times an incremental run on p can take
    Order,       \* pairs of projects: no row of the first after one of the second
    MaxBare      \* bound on the rows of a file without a header

ASSUME TimeAssumption ==
    /\ StoreMs \subseteq Nat \ {0}
    /\ IncMs \in [Project -> SUBSET (Nat \ {0})]
    /\ Order \subseteq Project \X Project /\ MaxBare \in Nat
    /\ IsFiniteSet(Project)

Branch == {"main", "perf"}

StoreKey(b, p) == [branch |-> b, project |-> p, mode |-> "store", sample |-> Old]
IncKey(b, p, s) == [branch |-> b, project |-> p, mode |-> "inc", sample |-> s]

Key == {StoreKey(b, p) : b \in Branch, p \in Project} \cup
       {IncKey(x[1], x[2][1], x[2][2]) :
            x \in Branch \X UNION {{p} \X SamplesOf[p] : p \in Project}}

VARIABLES
    header,  \* is the first line the header?
    rows     \* the rows: a combination and its time

vars == <<header, rows>>

SetupOf == [k \in Key |-> StoreKey(k.branch, k.project)]

Keys == [i \in DOMAIN rows |-> rows[i].key]

-------------------------------------------------------------------------------
(* The file grows *)

Log == INSTANCE MeasurementLog WITH log <- Keys

\* A lookup that never finds a row.
HaveNever(k) == FALSE

\* have(): the first line of the file is passed over, whatever it is.
Have(k) == \E i \in DOMAIN rows : (header \/ i > 1) /\ rows[i].key = k

Init == header \in BOOLEAN /\ rows = <<>>

Times(k) == IF k.mode = "store" THEN StoreMs ELSE IncMs[k.project]

InBounds(k) ==
    /\ header \/ Len(rows) < MaxBare
    /\ \A i \in DOMAIN rows : <<k.project, rows[i].key.project>> \notin Order

\* A run that failed is recorded, too.
MeasureAnyway(k) ==
    /\ InBounds(k) /\ ~Have(k)
    /\ rows' = Append(rows, [key |-> k, ms |-> 0])
    /\ UNCHANGED header

\* ab_branches.sh measures a combination it has no row for and appends it.
Measure(k) ==
    /\ InBounds(k) /\ ~Have(k)
    /\ SetupOf[k] \in Log!Rows \cup {k}
    /\ \E ms \in Times(k) :
          rows' = Append(rows, [key |-> k, ms |-> ms])
    /\ UNCHANGED header

Next == \E k \in Key : Measure(k)

Spec == Init /\ [][Next]_vars

-------------------------------------------------------------------------------
(* The summary *)

\* csv.DictReader takes the first line for the header. If that is a row, the
\* next one has no field "mode".
Readable == header \/ Len(rows) <= 1

Data == IF header THEN rows ELSE <<>>

\* A dictionary by project that forgets the branch.
StoreOfEither(b, p) ==
    LET own == {i \in DOMAIN Data :
                   Data[i].key.mode = "store" /\ Data[i].key.project = p}
    IN  IF own = {} THEN 0 ELSE Data[Max(own)].ms

\* store[p].get(b, 0): the last row of p and b stays.
Store(b, p) ==
    LET own == {i \in DOMAIN Data : Data[i].key = StoreKey(b, p)}
    IN  IF own = {} THEN 0 ELSE Data[Max(own)].ms

\* inc[p][b], as the numbers of the rows it takes its times from.
Inc(b, p) == {i \in DOMAIN Data : /\ Data[i].key.mode = "inc"
                                  /\ Data[i].key.branch = b /\ Data[i].key.project = p}

Time == [i \in DOMAIN rows |-> rows[i].ms]

Total(b) == SumFunction([p \in Project |-> Store(b, p)])

\* An unreadable row is a KeyError; without a store time of main the
\* percentage of the total is a ZeroDivisionError.
Status == IF ~Readable THEN "KeyError"
          ELSE IF Total("main") = 0 THEN "ZeroDivisionError" ELSE "ok"

\* The times of the rows `at`, sorted: the k-th smallest is preceded by fewer
\* than k smaller times, and k times are not greater.
Sorted(at) ==
    [k \in 1..Cardinality(at) |->
        CHOOSE t \in {Time[i] : i \in at} :
            /\ Cardinality({i \in at : Time[i] < t}) < k
            /\ k <= Cardinality({i \in at : Time[i] <= t})]

\* med: twice the middle, or the sum of the two middle values.
Median(at) ==
    LET n == Cardinality(at)
    IN  IF n = 0 THEN 0 ELSE Sorted(at)[(n + 1) \div 2] + Sorted(at)[n \div 2 + 1]

\* The projects of the incremental table.
Shown == {p \in Project : \A b \in Branch : Inc(b, p) # {}}

Tag(p) == LET m == Median(Inc("main", p))
              f == Median(Inc("perf", p))
          IN  IF f < m THEN "faster" ELSE IF f = m THEN "same" ELSE "slower"

\* am, ap: the times of all projects shown.
All(b) == UNION {Inc(b, p) : p \in Shown}

\* Lists compared in the order of the file.
WinsAsMeasured(m, f) ==
    LET ms == SetToSortSeq(m, <)
        fs == SetToSortSeq(f, <)
    IN  Cardinality({k \in DOMAIN ms \cap DOMAIN fs : Time[fs[k]] < Time[ms[k]]})

\* Both lists are sorted before they are compared, up to the end of the shorter.
Wins(m, f) ==
    Cardinality({k \in DOMAIN Sorted(m) \cap DOMAIN Sorted(f) :
                    Sorted(f)[k] < Sorted(m)[k]})

-------------------------------------------------------------------------------
(* Properties *)

\* Every variable holds values of its type; the times are numbers, which
\* int(x["ms"]) needs.
TypeOK ==
    /\ header \in BOOLEAN
    /\ rows \in Seq([key : Key, ms : Nat \ {0}])
    /\ \A i \in DOMAIN rows : rows[i].ms \in Times(rows[i].key)

\* The summary is printed to its end iff the file has its header line and main
\* has stored some project, whatever else is missing from it.
SummaryNeedsMain ==
    Status = "ok" <=> header /\ \E p \in Project : StoreKey("main", p) \in Log!Rows

\* The totals of the store table are the sums over all store rows of the file,
\* although the dictionary keeps one row of each branch and project.
TotalsAreSums ==
    header => \A b \in Branch :
        LET stores == {i \in DOMAIN rows :
                          rows[i].key.mode = "store" /\ rows[i].key.branch = b}
        IN  Total(b) = SumFunction([i \in stores |-> rows[i].ms])

\* Rows i of main and j of perf about the same sample of a project in Q.
Paired(i, j, Q) ==
    /\ rows[i].key.mode = "inc" /\ rows[i].key.branch = "main"
    /\ rows[i].key.project \in Q
    /\ rows[j].key = [rows[i].key EXCEPT !.branch = "perf"]

AllFaster(Q)  == \A i, j \in DOMAIN rows : Paired(i, j, Q) => Time[j] < Time[i]
NoneFaster(Q) == \A i, j \in DOMAIN rows : Paired(i, j, Q) => Time[j] >= Time[i]

Complete(p) ==
    \A s \in SamplesOf[p] : IncKey("main", p, s) \in Log!Rows <=> IncKey("perf", p, s) \in Log!Rows

\* The summary forgets which time belongs to which sample and sorts them. If
\* both branches measured the same samples, it still says that perf is faster
\* when it is faster on every sample, and never when it is faster on none:
\* for a project by the medians, for all of them by the number of wins.
DominanceShows ==
    /\ \A p \in Shown : Complete(p) =>
          /\ AllFaster({p}) => Tag(p) = "faster"
          /\ NoneFaster({p}) => Tag(p) # "faster"
    /\ (\A p \in Shown : Complete(p)) =>
          LET wins == Wins(All("main"), All("perf"))
          IN  /\ AllFaster(Shown) => wins = Cardinality(All("main"))
              /\ NoneFaster(Shown) => wins = 0
===============================================================================
