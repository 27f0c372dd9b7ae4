--------------------------- MODULE AbSummarizeProofs ---------------------------
(***************************************************************************)
(* Proofs about AbSummarize, for every set of projects and samples, every  *)
(* measured time and every length of the file: when the summary is printed *)
(* to its end, that the totals of the store table are the sums of the      *)
(* file's rows, and what its sorted times still tell.                      *)
(***************************************************************************)
EXTENDS AbSummarize, DataTheorems, FunctionTheorems, FiniteSetTheorems, TLAPS

-------------------------------------------------------------------------------
(* The inductive invariant *)

RowType == [key : Key, ms : Nat \ {0}]

Types ==
    /\ header \in BOOLEAN
    /\ rows \in Seq(RowType)
    /\ \A i \in DOMAIN rows : rows[i].ms \in Times(rows[i].key)

\* Under its header the file has no combination twice.
Unique ==
    header => \A i, j \in DOMAIN rows : rows[i].key = rows[j].key => i = j

IInv == Types /\ Unique

\* The lines of the file are numbered, and each is a row.
LEMMA RowTypes ==
    ASSUME Types
    PROVE  /\ Len(rows) \in Nat /\ DOMAIN rows = 1..Len(rows)
           /\ \A i \in DOMAIN rows : rows[i].key \in Key /\ rows[i].ms \in Nat \ {0}
<1>1. Len(rows) \in Nat /\ DOMAIN rows = 1..Len(rows)
    BY DEF Types
<1>2. \A i \in DOMAIN rows : rows[i] \in RowType
    BY DEF Types
<1> QED BY <1>1, <1>2 DEF RowType

\* The rows of the file and one more.
LEMMA OneMoreRow ==
    ASSUME Types, NEW k \in Key, NEW ms \in Times(k),
           rows' = Append(rows, [key |-> k, ms |-> ms])
    PROVE  /\ rows' \in Seq(RowType)
           /\ Len(rows) \in Nat /\ DOMAIN rows = 1..Len(rows)
           /\ DOMAIN rows' = 1..(Len(rows) + 1)
           /\ \A i \in 1..Len(rows) : rows'[i] = rows[i]
           /\ rows'[Len(rows) + 1].key = k /\ rows'[Len(rows) + 1].ms = ms
<1> DEFINE row == [key |-> k, ms |-> ms]
<1>1. k.project \in Project
    BY DEF Key, StoreKey, IncKey
<1>2. ms \in Nat \ {0}
    BY <1>1, TimeAssumption DEF Times
<1>3. row \in RowType /\ row.key = k /\ row.ms = ms
    BY <1>2 DEF RowType
<1> HIDE DEF row
<1> QED BY <1>3 DEF Types, row

LEMMA InitIInv == Init => IInv
BY DEF Init, IInv, Types, Unique

LEMMA NextKeepsIInv == IInv /\ [Next]_vars => IInv'
<1> SUFFICES ASSUME IInv, [Next]_vars PROVE IInv'
    OBVIOUS
<1>1. ASSUME NEW k \in Key, Measure(k) PROVE IInv'
    <2>1. PICK ms \in Times(k) : rows' = Append(rows, [key |-> k, ms |-> ms])
        BY <1>1 DEF Measure
    <2> DEFINE n == Len(rows)
    <2>2. /\ rows' \in Seq(RowType)
          /\ n \in Nat /\ DOMAIN rows = 1..n /\ DOMAIN rows' = 1..(n + 1)
          /\ \A i \in 1..n : rows'[i] = rows[i]
          /\ rows'[n + 1].key = k /\ rows'[n + 1].ms = ms
        BY <2>1, OneMoreRow DEF IInv
    <2> HIDE DEF n
    <2>3. header' = header /\ (header => \A i \in DOMAIN rows : rows[i].key # k)
        BY <1>1 DEF Measure, Have
    <2>4. \A i \in DOMAIN rows' : rows'[i].ms \in Times(rows'[i].key)
        BY <2>1, <2>2 DEF IInv, Types
    <2>5. Types'
        BY <2>2, <2>3, <2>4 DEF IInv, Types, Times
    <2>6. Unique'
        BY <2>2, <2>3 DEF IInv, Unique
    <2> QED BY <2>5, <2>6 DEF IInv
<1>2. CASE UNCHANGED vars
    BY <1>2 DEF vars, IInv, Types, Unique, Times
<1> QED BY <1>1, <1>2 DEF Next

THEOREM Invariant == Spec => []IInv
BY InitIInv, NextKeepsIInv, PTL DEF Spec

\* Every row that is summarised is a combination with a time int() can read.
THEOREM TypeCorrect == Spec => []TypeOK
<1>1. IInv => TypeOK
    BY DEF IInv, Types, RowType, TypeOK
<1> QED BY <1>1, Invariant, PTL

\* The combinations of MeasurementLog are those of the rows.
LEMMA LogRows ==
    ASSUME Types
    PROVE  Log!Rows = {rows[i].key : i \in DOMAIN rows}
<1>1. Len(rows) \in Nat /\ DOMAIN rows = 1..Len(rows)
    BY RowTypes
<1>2. Len(Keys) = Len(rows) /\ \A i \in 1..Len(rows) : Keys[i] = rows[i].key
    BY <1>1 DEF Keys
<1> QED BY <1>1, <1>2 DEF Log!Rows

-------------------------------------------------------------------------------
(* The totals of the store table *)

\* The rows about storing p with branch b; at most one under a header.
StoreRows(b, p) == {i \in DOMAIN rows : rows[i].key = StoreKey(b, p)}

LEMMA StoreOfRow ==
    ASSUME IInv, header, NEW b, NEW p
    PROVE  /\ StoreRows(b, p) = {} => Store(b, p) = 0
           /\ \A i \in StoreRows(b, p) : Store(b, p) = rows[i].ms
           /\ Store(b, p) \in Nat
<1>1. Data = rows
    BY DEF Data
<1>2. Store(b, p) = IF StoreRows(b, p) = {} THEN 0 ELSE rows[Max(StoreRows(b, p))].ms
    BY <1>1 DEF Store, StoreRows
<1>3. ASSUME NEW i \in StoreRows(b, p) PROVE Max(StoreRows(b, p)) = i
    <2>1. StoreRows(b, p) = {i}
        BY <1>3 DEF StoreRows, IInv, Unique
    <2>2. i \in Nat
        BY <1>3 DEF StoreRows, IInv, Types
    <2> QED BY <2>1, <2>2 DEF Max
<1>4. \A i \in StoreRows(b, p) : rows[i].ms \in Nat
    BY RowTypes DEF StoreRows, IInv
<1> QED BY <1>2, <1>3, <1>4

\* A row in mode "store" is the store row of its branch and project.
LEMMA StoreRowKey ==
    ASSUME IInv, NEW i \in DOMAIN rows, rows[i].key.mode = "store"
    PROVE  /\ rows[i].key = StoreKey(rows[i].key.branch, rows[i].key.project)
           /\ rows[i].key.project \in Project
<1>1. rows[i].key \in Key
    BY RowTypes DEF IInv
<1> DEFINE k == rows[i].key
<1>2. \/ \E b \in Branch, p \in Project : k = StoreKey(b, p)
      \/ \E b, p, s : k = IncKey(b, p, s)
    BY <1>1 DEF Key
<1> HIDE DEF k
<1>3. k.mode = "store" => k = StoreKey(k.branch, k.project) /\ k.project \in Project
    BY <1>2 DEF StoreKey, IncKey
<1> QED BY <1>3 DEF k

\* The dictionary store[p][b] keeps one row of every branch and project, and
\* loses none: the totals are the sums over all store rows of the file.
THEOREM TotalsAreRight == Spec => []TotalsAreSums
<1>1. ASSUME IInv, header, NEW b \in Branch
      PROVE  LET stores == {i \in DOMAIN rows :
                               rows[i].key.mode = "store" /\ rows[i].key.branch = b}
             IN  Total(b) = SumFunction([i \in stores |-> rows[i].ms])
    <2> DEFINE T == {i \in DOMAIN rows : rows[i].key.mode = "store" /\ rows[i].key.branch = b}
               f == [p \in Project |-> Store(b, p)]
               g == [i \in T |-> rows[i].ms]
               h == [i \in T |-> rows[i].key.project]
    <2>1. \A i \in T : /\ i \in StoreRows(b, rows[i].key.project)
                       /\ rows[i].key.project \in Project
        BY <1>1, StoreRowKey DEF StoreRows
    <2>2. \A p \in Project : f[p] \in Nat /\ (StoreRows(b, p) = {} => f[p] = 0)
        BY <1>1, StoreOfRow
    <2>3. h \in [T -> Project]
        BY <2>1
    <2>4. \A i, j \in T : h[i] = h[j] => i = j
        BY <1>1, <2>1 DEF IInv, Unique, StoreRows
    <2>5. \A i \in T : g[i] = f[h[i]]
        BY <1>1, <2>1, StoreOfRow
    <2>6. \A p \in Project : (\A i \in T : h[i] # p) => f[p] = 0
        <3>1. \A p \in Project : \A i \in StoreRows(b, p) : i \in T /\ h[i] = p
            BY DEF StoreRows, StoreKey
        <3> HIDE DEF f, h, T
        <3> QED BY <2>2, <3>1
    <2>7. IsFiniteSet(Project) /\ IsFiniteSet(T)
        <3>1. Len(rows) \in Nat /\ DOMAIN rows = 1..Len(rows)
            BY <1>1, RowTypes DEF IInv
        <3>2. IsFiniteSet(1..Len(rows))
            BY <3>1, FS_Interval
        <3> QED BY <3>1, <3>2, FS_Subset, TimeAssumption
    <2>8. DOMAIN f = Project /\ DOMAIN g = T
        OBVIOUS
    <2>9. Total(b) = SumFunction(f)
        BY DEF Total
    <2> HIDE DEF f, g, h, T
    <2>10. SumFunctionOnSet(g, T) = SumFunctionOnSet(f, Project)
        BY <2>2, <2>3, <2>4, <2>5, <2>6, <2>7, SumReindexes
    <2>11. Total(b) = SumFunction(g)
        BY <2>8, <2>9, <2>10 DEF SumFunction
    <2> QED BY <2>11 DEF T, g
<1>2. IInv => TotalsAreSums
    BY <1>1 DEF TotalsAreSums
<1> QED BY <1>2, Invariant, PTL

\* The summary is printed to its end iff the file has its header and main has
\* stored some project: no other missing row ends the script.
THEOREM SummaryNeedsOnlyMain == Spec => []SummaryNeedsMain
<1>1. ASSUME IInv PROVE SummaryNeedsMain
    <2> DEFINE f == [p \in Project |-> Store("main", p)]
    <2>1. IsFiniteSet(Project)
        BY TimeAssumption
    <2>2. Total("main") = SumFunctionOnSet(f, Project)
        BY DEF Total, SumFunction
    <2>3. CASE ~header
        <3>1. \A p \in Project : f[p] = 0
            BY <2>3 DEF Store, Data
        <3>2. Total("main") = 0
            BY <2>1, <2>2, <3>1, SumIsNat
        <3> QED BY <2>3, <3>2 DEF SummaryNeedsMain, Status
    <2>4. CASE header
        <3>1. \A p \in Project : f[p] \in Nat /\ (f[p] # 0 <=> StoreRows("main", p) # {})
            <4>1. \A p \in Project : \A i \in StoreRows("main", p) : rows[i].ms \in Nat \ {0}
                BY <1>1, RowTypes DEF StoreRows, IInv
            <4> QED BY <1>1, <2>4, <4>1, StoreOfRow
        <3>2. \A p \in Project : StoreRows("main", p) # {} <=> StoreKey("main", p) \in Log!Rows
            BY <1>1, LogRows DEF StoreRows, IInv
        <3> HIDE DEF f
        <3>3. Total("main") # 0 <=> \E p \in Project : f[p] # 0
            BY <2>1, <2>2, <3>1, SumIsNat
        <3>4. Status = "ok" <=> Total("main") # 0
            BY <2>4 DEF Status, Readable
        <3> QED BY <2>4, <3>1, <3>2, <3>3, <3>4 DEF SummaryNeedsMain
    <2> QED BY <2>3, <2>4
<1> QED BY <1>1, Invariant, PTL

-------------------------------------------------------------------------------
(* The medians and the wins *)

\* The rows that branch b's times of the projects in Q come from.
Of(b, Q) == {i \in DOMAIN rows : /\ rows[i].key.mode = "inc" /\ rows[i].key.branch = b
                                 /\ rows[i].key.project \in Q}

\* A row in mode "inc" is the row of a sample of its project.
LEMMA IncRowKey ==
    ASSUME Types, NEW i \in DOMAIN rows, rows[i].key.mode = "inc"
    PROVE  \E p \in Project : \E s \in SamplesOf[p] :
              rows[i].key = IncKey(rows[i].key.branch, p, s) /\ rows[i].key.project = p
<1>1. rows[i].key \in Key
    BY RowTypes
<1> DEFINE k == rows[i].key
           X == Branch \X UNION {{p} \X SamplesOf[p] : p \in Project}
<1>2. \/ \E b \in Branch, p \in Project : k = StoreKey(b, p)
      \/ \E x \in X : k = IncKey(x[1], x[2][1], x[2][2])
    BY <1>1 DEF Key
<1>3. k.mode = "inc"
    OBVIOUS
<1> HIDE DEF k
<1>4. \A b, p : k # StoreKey(b, p)
    BY <1>3 DEF StoreKey
<1> HIDE DEF X
<1>5. PICK x \in X : k = IncKey(x[1], x[2][1], x[2][2])
    BY <1>2, <1>4
<1>6. PICK p \in Project : x[2] \in {p} \X SamplesOf[p]
    BY DEF X
<1>7. x[2][1] = p /\ x[2][2] \in SamplesOf[p]
    BY <1>6
<1> QED BY <1>5, <1>7 DEF IncKey, k

\* If both branches have the same samples of the projects in Q, the rows of
\* one are mapped one to one to those of the other, sample by sample.
LEMMA Pairing ==
    ASSUME IInv, header, NEW Q \in SUBSET Project, \A p \in Q : Complete(p),
           NEW b \in Branch, NEW c \in Branch
    PROVE  \E h \in Injection(Of(b, Q), Of(c, Q)) : \A i \in Of(b, Q) :
              rows[h[i]].key = [rows[i].key EXCEPT !.branch = c]
<1> DEFINE S == Of(b, Q)
           T == Of(c, Q)
           Partner(i, j) == rows[j].key = [rows[i].key EXCEPT !.branch = c]
<1>1. ASSUME NEW i \in S PROVE \E j \in T : Partner(i, j)
    <2>1. i \in DOMAIN rows /\ rows[i].key.mode = "inc"
          /\ rows[i].key.branch = b /\ rows[i].key.project \in Q
        BY DEF Of
    <2>2. PICK p \in Project : \E s \in SamplesOf[p] :
              rows[i].key = IncKey(b, p, s) /\ rows[i].key.project = p
        BY <2>1, IncRowKey DEF IInv
    <2>3. PICK s \in SamplesOf[p] : rows[i].key = IncKey(b, p, s)
        BY <2>2
    <2>4. p \in Q /\ Complete(p)
        BY <2>1, <2>2
    <2>5. Log!Rows = {rows[j].key : j \in DOMAIN rows}
        BY LogRows DEF IInv
    <2>6. IncKey(b, p, s) \in Log!Rows
        BY <2>1, <2>3, <2>5
    <2>7. IncKey(c, p, s) \in Log!Rows
        BY <2>4, <2>6 DEF Complete, Branch
    <2>8. PICK j \in DOMAIN rows : rows[j].key = IncKey(c, p, s)
        BY <2>5, <2>7
    <2>9. j \in T
        BY <2>4, <2>8 DEF Of, IncKey
    <2>10. Partner(i, j)
        BY <2>3, <2>8 DEF IncKey
    <2> QED BY <2>9, <2>10
<1> DEFINE h == [i \in S |-> CHOOSE j \in T : Partner(i, j)]
<1>2. \A i \in S : h[i] \in T /\ Partner(i, h[i])
    <2> HIDE DEF S, T, Partner
    <2> QED BY <1>1
<1>3. h \in [S -> T]
    <2> HIDE DEF S, T, Partner
    <2> QED BY <1>2
<1> HIDE DEF h
<1>4. ASSUME NEW i \in S, NEW j \in S, h[i] = h[j] PROVE i = j
    <2>1. [rows[i].key EXCEPT !.branch = c] = [rows[j].key EXCEPT !.branch = c]
        BY <1>2, <1>4
    <2>2. /\ i \in DOMAIN rows /\ rows[i].key.mode = "inc" /\ rows[i].key.branch = b
          /\ j \in DOMAIN rows /\ rows[j].key.mode = "inc" /\ rows[j].key.branch = b
        BY DEF Of
    <2>3. rows[i].key = rows[j].key
        <3>1. PICK p, s : rows[i].key = IncKey(b, p, s)
            BY <2>2, IncRowKey DEF IInv
        <3>2. PICK q, t : rows[j].key = IncKey(b, q, t)
            BY <2>2, IncRowKey DEF IInv
        <3> QED BY <2>1, <3>1, <3>2 DEF IncKey
    <2> QED BY <2>2, <2>3 DEF IInv, Unique
<1>5. h \in Injection(S, T)
    BY <1>3, <1>4 DEF Injection, IsInjective
<1>6. \A i \in S : rows[h[i]].key = [rows[i].key EXCEPT !.branch = c]
    BY <1>2
<1> HIDE DEF S, T, Partner
<1> QED BY <1>5, <1>6 DEF S, T

\* Sorted(at) holds at k the k-th smallest time of the rows `at`.
LEMMA SortedIsRight ==
    ASSUME Types, NEW at \in SUBSET DOMAIN rows
    PROVE  /\ IsFiniteSet(at) /\ Cardinality(at) \in Nat
           /\ \A i \in at : Time[i] \in Nat
           /\ DOMAIN Sorted(at) = 1..Cardinality(at)
           /\ \A k \in 1..Cardinality(at) :
                 IsKth(Time, at, k, Sorted(at)[k]) /\ Sorted(at)[k] \in Nat
<1>1. Len(rows) \in Nat /\ DOMAIN rows = 1..Len(rows)
    BY RowTypes
<1>2. IsFiniteSet(at) /\ Cardinality(at) \in Nat
    <2>1. IsFiniteSet(1..Len(rows))
        BY <1>1, FS_Interval
    <2> QED BY <1>1, <2>1, FS_Subset, FS_CardinalityType
<1>3. \A i \in at : Time[i] \in Nat
    BY RowTypes DEF Time
<1>4. DOMAIN Sorted(at) = 1..Cardinality(at)
    BY DEF Sorted
<1>5. ASSUME NEW k \in 1..Cardinality(at)
      PROVE  IsKth(Time, at, k, Sorted(at)[k]) /\ Sorted(at)[k] \in Nat
    <2>1. \E v : IsKth(Time, at, k, v)
        BY <1>2, <1>3, KthExists
    <2>2. Sorted(at)[k] = CHOOSE v \in {Time[i] : i \in at} :
              Cardinality(Below(Time, at, v)) < k /\ k <= Cardinality(UpTo(Time, at, v))
        BY DEF Sorted, Below, UpTo
    <2>3. IsKth(Time, at, k, Sorted(at)[k])
        BY <2>1, <2>2 DEF IsKth
    <2>4. Sorted(at)[k] \in Nat
        BY <1>3, <2>3 DEF IsKth
    <2> QED BY <2>3, <2>4
<1> QED BY <1>2, <1>3, <1>4, <1>5

\* If both branches have the same samples of the projects in Q, their sorted
\* lists are equally long, and what holds of every sample holds at every place.
LEMMA SortedDominance ==
    ASSUME IInv, header, NEW Q \in SUBSET Project, \A p \in Q : Complete(p)
    PROVE  LET M == Of("main", Q)
               F == Of("perf", Q)
           IN  /\ Cardinality(M) = Cardinality(F)
               /\ AllFaster(Q) => \A k \in 1..Cardinality(M) : Sorted(F)[k] < Sorted(M)[k]
               /\ NoneFaster(Q) => \A k \in 1..Cardinality(M) : Sorted(M)[k] <= Sorted(F)[k]
<1> DEFINE M == Of("main", Q)
           F == Of("perf", Q)
<1>1. M \in SUBSET DOMAIN rows /\ F \in SUBSET DOMAIN rows
    BY DEF Of
<1>2. /\ IsFiniteSet(M) /\ Cardinality(M) \in Nat /\ \A i \in M : Time[i] \in Nat
      /\ \A k \in 1..Cardinality(M) : IsKth(Time, M, k, Sorted(M)[k])
    BY <1>1, SortedIsRight DEF IInv
<1>3. /\ IsFiniteSet(F) /\ Cardinality(F) \in Nat /\ \A i \in F : Time[i] \in Nat
      /\ \A k \in 1..Cardinality(F) : IsKth(Time, F, k, Sorted(F)[k])
    BY <1>1, SortedIsRight DEF IInv
<1>4. PICK g \in Injection(M, F) : \A i \in M :
          rows[g[i]].key = [rows[i].key EXCEPT !.branch = "perf"]
    BY Pairing DEF Branch
<1>5. PICK h \in Injection(F, M) : \A j \in F :
          rows[h[j]].key = [rows[j].key EXCEPT !.branch = "main"]
    BY Pairing DEF Branch
<1>6. Cardinality(M) = Cardinality(F)
    BY <1>2, <1>3, <1>4, <1>5, FS_Injection
<1>7. \A i \in M : g[i] \in F /\ Paired(i, g[i], Q)
    <2>1. \A i \in M : g[i] \in F
        BY <1>4 DEF Injection
    <2>2. \A i \in M : Paired(i, g[i], Q)
        BY <1>4 DEF Paired, Of
    <2> QED BY <2>1, <2>2
<1>8. \A j \in F : h[j] \in M /\ Paired(h[j], j, Q)
    <2>1. \A j \in F : h[j] \in M
        BY <1>5 DEF Injection
    <2>2. ASSUME NEW j \in F PROVE rows[j].key = [rows[h[j]].key EXCEPT !.branch = "perf"]
        <3>1. j \in DOMAIN rows /\ rows[j].key.mode = "inc" /\ rows[j].key.branch = "perf"
            BY DEF Of
        <3>2. PICK p, s : rows[j].key = IncKey("perf", p, s)
            BY <3>1, IncRowKey DEF IInv
        <3>3. rows[h[j]].key = IncKey("main", p, s)
            BY <1>5, <3>2 DEF IncKey
        <3> QED BY <3>2, <3>3 DEF IncKey
    <2>3. \A j \in F : Paired(h[j], j, Q)
        BY <2>1, <2>2 DEF Paired, Of
    <2> QED BY <2>1, <2>3
<1>9. ASSUME AllFaster(Q), NEW k \in 1..Cardinality(M) PROVE Sorted(F)[k] < Sorted(M)[k]
    <2>1. \A i \in M : Time[g[i]] < Time[i]
        BY <1>1, <1>7, <1>9 DEF AllFaster
    <2>2. k \in Nat /\ IsKth(Time, M, k, Sorted(M)[k]) /\ IsKth(Time, F, k, Sorted(F)[k])
        BY <1>2, <1>3, <1>6
    <2> HIDE DEF M, F
    <2> QED BY <1>2, <1>3, <1>4, <2>1, <2>2, KthIsMonotonic
<1>10. ASSUME NoneFaster(Q), NEW k \in 1..Cardinality(M) PROVE Sorted(M)[k] <= Sorted(F)[k]
    <2>1. \A j \in F : Time[h[j]] <= Time[j]
        BY <1>1, <1>2, <1>3, <1>8, <1>10 DEF NoneFaster
    <2>2. k \in Nat /\ IsKth(Time, M, k, Sorted(M)[k]) /\ IsKth(Time, F, k, Sorted(F)[k])
        BY <1>2, <1>3, <1>6
    <2> HIDE DEF M, F
    <2> QED BY <1>2, <1>3, <1>5, <2>1, <2>2, KthIsMonotonic
<1> QED BY <1>6, <1>9, <1>10

\* Without a header no project is shown.
LEMMA NothingShown ==
    ASSUME ~header
    PROVE  Shown = {} /\ \A b \in Branch : All(b) = {}
<1>1. \A b \in Branch, p \in Project : Inc(b, p) = {}
    BY DEF Inc, Data
<1> QED BY <1>1 DEF Shown, All, Branch

LEMMA OfShown ==
    ASSUME header
    PROVE  /\ \A b \in Branch, p \in Project : Inc(b, p) = Of(b, {p})
           /\ \A b \in Branch : All(b) = Of(b, Shown)
<1>1. \A b, p : Inc(b, p) = Of(b, {p})
    BY DEF Inc, Of, Data
<1>2. \A b : UNION {Of(b, {p}) : p \in Shown} = Of(b, Shown)
    BY DEF Of
<1> QED BY <1>1, <1>2 DEF All

\* What is true of every sample is told by the tags of the projects and by the
\* number of wins, although both lists are sorted before they are compared.
THEOREM DominanceIsShown == Spec => []DominanceShows
<1>1. ASSUME IInv, NEW p \in Shown, Complete(p)
      PROVE  /\ AllFaster({p}) => Tag(p) = "faster"
             /\ NoneFaster({p}) => Tag(p) # "faster"
    <2>1. header /\ p \in Project
        BY NothingShown DEF Shown
    <2> DEFINE M == Inc("main", p)
               F == Inc("perf", p)
               n == Cardinality(M)
    <2>2. /\ n = Cardinality(F)
          /\ AllFaster({p}) => \A k \in 1..n : Sorted(F)[k] < Sorted(M)[k]
          /\ NoneFaster({p}) => \A k \in 1..n : Sorted(M)[k] <= Sorted(F)[k]
        BY <1>1, <2>1, SortedDominance, OfShown DEF Branch
    <2>3. /\ n \in Nat /\ IsFiniteSet(M) /\ M # {}
          /\ \A k \in 1..n : Sorted(M)[k] \in Nat
          /\ \A k \in 1..n : Sorted(F)[k] \in Nat
        <3>1. M \in SUBSET DOMAIN rows /\ F \in SUBSET DOMAIN rows
            BY <2>1 DEF Inc, Data
        <3>2. M # {}
            BY DEF Shown, Branch
        <3> HIDE DEF M, F
        <3> QED BY <1>1, <2>2, <3>1, <3>2, SortedIsRight DEF IInv
    <2>4. n # 0
        BY <2>3, FS_EmptySet
    <2> DEFINE a == (n + 1) \div 2
               b == n \div 2 + 1
    <2>5. a \in 1..n /\ b \in 1..n
        BY <2>3, <2>4
    <2>6. Median(M) = Sorted(M)[a] + Sorted(M)[b] /\ Median(F) = Sorted(F)[a] + Sorted(F)[b]
        BY <2>2, <2>4 DEF Median
    <2> HIDE DEF a, b
    <2>7. AllFaster({p}) => Median(F) < Median(M)
        BY <2>2, <2>3, <2>5, <2>6
    <2>8. NoneFaster({p}) => ~(Median(F) < Median(M))
        BY <2>2, <2>3, <2>5, <2>6
    <2> QED BY <2>7, <2>8 DEF Tag
<1>2. ASSUME IInv, \A p \in Shown : Complete(p)
      PROVE  LET wins == Wins(All("main"), All("perf"))
             IN  /\ AllFaster(Shown) => wins = Cardinality(All("main"))
                 /\ NoneFaster(Shown) => wins = 0
    <2> DEFINE M == All("main")
               F == All("perf")
               n == Cardinality(M)
               Won == {k \in DOMAIN Sorted(M) \cap DOMAIN Sorted(F) :
                          Sorted(F)[k] < Sorted(M)[k]}
    <2>1. M \in SUBSET DOMAIN rows /\ F \in SUBSET DOMAIN rows
        BY DEF All, Inc, Data
    <2>2. /\ n = Cardinality(F)
          /\ AllFaster(Shown) => \A k \in 1..n : Sorted(F)[k] < Sorted(M)[k]
          /\ NoneFaster(Shown) => \A k \in 1..n : Sorted(M)[k] <= Sorted(F)[k]
        <3>1. CASE header
            <4>1. Shown \in SUBSET Project
                BY DEF Shown
            <4> QED BY <1>2, <3>1, <4>1, SortedDominance, OfShown DEF Branch
        <3>2. CASE ~header
            <4>1. M = {} /\ F = {}
                BY <3>2, NothingShown DEF Branch
            <4>2. n = 0 /\ Cardinality(F) = 0
                BY <4>1, FS_EmptySet
            <4> QED BY <4>2
        <3> QED BY <3>1, <3>2
    <2>3. /\ n \in Nat /\ DOMAIN Sorted(M) = 1..n /\ DOMAIN Sorted(F) = 1..n
          /\ \A k \in 1..n : Sorted(M)[k] \in Nat
          /\ \A k \in 1..n : Sorted(F)[k] \in Nat
        <3> HIDE DEF M, F
        <3> QED BY <1>2, <2>1, <2>2, SortedIsRight DEF IInv
    <2>4. Wins(M, F) = Cardinality(Won)
        BY DEF Wins
    <2> HIDE DEF M, F
    <2>5. AllFaster(Shown) => Won = 1..n
        BY <2>2, <2>3
    <2>6. NoneFaster(Shown) => Won = {}
        BY <2>2, <2>3
    <2>7. Cardinality(1..n) = n
        BY <2>3, FS_Interval
    <2> HIDE DEF Won
    <2>8. /\ AllFaster(Shown) => Wins(M, F) = n
          /\ NoneFaster(Shown) => Wins(M, F) = 0
        BY <2>4, <2>5, <2>6, <2>7, FS_EmptySet
    <2> QED BY <2>8 DEF M, F
<1>3. IInv => DominanceShows
    BY <1>1, <1>2 DEF DominanceShows
<1> QED BY <1>3, Invariant, PTL

================================================================================
