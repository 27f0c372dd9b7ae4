------------------------------ MODULE DataTheorems -----------------------------
(***************************************************************************)
(* Facts about data of any size. SumFunctionOnSet of the module Functions  *)
(* does not depend on the order in which elements are chosen, and it can   *)
(* be reindexed; every k-th smallest of a family of numbers exists, and    *)
(* two families of which one stays below the other keep that order at      *)
(* every k. Induction on a number is stated as the absence of a least      *)
(* counterexample.                                                         *)
(***************************************************************************)
EXTENDS Functions, FunctionTheorems, FiniteSetTheorems, TLAPS

\* Every non-empty set of numbers has a least one.
LEMMA LeastNumber ==
    ASSUME NEW T \in SUBSET Nat, T # {}
    PROVE  \E n \in T : \A m \in T : n <= m
<1>1. PICK n \in T : \A m \in T : ~ (<<m, n>> \in OpToRel(<, Nat))
    BY WFMin, NatLessThanWellFounded, Zenon
<1>2. \A m \in T : ~(m < n)
    BY <1>1 DEF OpToRel
<1> QED BY <1>2

-------------------------------------------------------------------------------
(* The recursion of the fold is well defined on a finite set. *)

Pick(s) == CHOOSE x \in s : TRUE

Step(f, it, s) == IF s = {} THEN 0 ELSE f[Pick(s)] + it[s \ {Pick(s)}]

\* `it` has the sum over every set of a family D.
Sums(f, D, it) == it = [s \in D |-> Step(f, it, s)]

LEMMA SumIsChosen ==
    ASSUME NEW f, NEW S
    PROVE  SumFunctionOnSet(f, S) = (CHOOSE it : Sums(f, SUBSET S, it))[S]
BY DEF SumFunctionOnSet, FoldFunctionOnSet, MapThenFoldSet, Sums, Step, Pick

LEMMA RemovePick ==
    ASSUME NEW s, IsFiniteSet(s), s # {}
    PROVE  /\ Pick(s) \in s /\ IsFiniteSet(s \ {Pick(s)})
           /\ Cardinality(s) \in Nat /\ Cardinality(s \ {Pick(s)}) \in Nat
           /\ Cardinality(s \ {Pick(s)}) = Cardinality(s) - 1
<1>1. Pick(s) \in s
    BY DEF Pick
<1> QED BY <1>1, FS_RemoveElement, FS_CardinalityType

\* There are sums over all subsets of a finite set.
LEMMA SumsExist ==
    ASSUME NEW f, NEW S, IsFiniteSet(S)
    PROVE  \E it : Sums(f, SUBSET S, it)
<1> DEFINE Small(n) == {s \in SUBSET S : Cardinality(s) <= n}
           P(n) == \E it : Sums(f, Small(n), it)
           Bad == {n \in Nat : ~P(n)}
<1>1. ASSUME Bad # {} PROVE FALSE
    <2> HIDE DEF P
    <2>1. PICK n \in Bad : \A m \in Bad : n <= m
        BY <1>1, LeastNumber
    <2>2. n \in Nat /\ ~P(n) /\ (n # 0 => n - 1 \in Nat /\ P(n - 1))
        BY <2>1
    <2>3. PICK it : n # 0 => Sums(f, Small(n - 1), it)
        BY <2>2 DEF P
    <2> DEFINE jt == [s \in Small(n) |-> Step(f, it, s)]
    <2>4. ASSUME NEW s \in Small(n) PROVE Step(f, it, s) = Step(f, jt, s)
        <3>1. CASE s = {}
            BY <3>1 DEF Step
        <3>2. CASE s # {}
            <4> DEFINE t == s \ {Pick(s)}
            <4>1. IsFiniteSet(s)
                BY FS_Subset
            <4>2. /\ Cardinality(s) \in Nat /\ Cardinality(t) \in Nat
                  /\ Cardinality(t) = Cardinality(s) - 1
                BY <3>2, <4>1, RemovePick
            <4>3. n # 0 /\ t \in Small(n - 1) /\ t \in Small(n)
                BY <2>2, <4>2
            <4>4. it[t] = Step(f, it, t)
                BY <2>3, <4>3 DEF Sums
            <4>5. jt[t] = Step(f, it, t)
                BY <4>3
            <4> HIDE DEF jt
            <4> QED BY <3>2, <4>4, <4>5 DEF Step
        <3> QED BY <3>1, <3>2
    <2>5. Sums(f, Small(n), jt)
        <3>1. jt = [s \in Small(n) |-> Step(f, jt, s)]
            BY <2>4
        <3> HIDE DEF jt
        <3> QED BY <3>1 DEF Sums
    <2> QED BY <2>2, <2>5 DEF P
<1>2. Cardinality(S) \in Nat /\ Small(Cardinality(S)) = SUBSET S
    BY FS_CardinalityType, FS_Subset
<1>3. P(Cardinality(S))
    BY <1>1, <1>2
<1> QED BY <1>2, <1>3

\* Two tables of sums agree on the sets that both have, with their subsets.
LEMMA SumsAgree ==
    ASSUME NEW f, NEW S, IsFiniteSet(S), NEW T \in SUBSET S, NEW it, NEW jt,
           Sums(f, SUBSET S, it), Sums(f, SUBSET T, jt)
    PROVE  it[T] = jt[T]
<1> DEFINE P(n) == \A s \in SUBSET T : Cardinality(s) = n => it[s] = jt[s]
           Bad == {n \in Nat : ~P(n)}
<1>0. IsFiniteSet(T) /\ \A s \in SUBSET T : IsFiniteSet(s) /\ Cardinality(s) \in Nat
    BY FS_Subset, FS_CardinalityType
<1>1. ASSUME Bad # {} PROVE FALSE
    <2>1. PICK n \in Bad : \A m \in Bad : n <= m
        BY <1>1, LeastNumber
    <2>2. PICK s \in SUBSET T : Cardinality(s) = n /\ it[s] # jt[s]
        BY <2>1
    <2>3. it[s] = Step(f, it, s) /\ jt[s] = Step(f, jt, s)
        BY <2>2 DEF Sums
    <2>4. s # {}
        BY <2>2, <2>3 DEF Step
    <2> DEFINE t == s \ {Pick(s)}
    <2>5. t \in SUBSET T /\ Cardinality(t) \in Nat /\ Cardinality(t) = n - 1 /\ n \in Nat
        BY <1>0, <2>2, <2>4, RemovePick
    <2>6. P(Cardinality(t))
        BY <2>1, <2>5
    <2>7. it[t] = jt[t]
        BY <2>5, <2>6
    <2> QED BY <2>2, <2>3, <2>4, <2>7 DEF Step
<1>2. P(Cardinality(T))
    BY <1>0, <1>1
<1> QED BY <1>2

\* The sum over a set is that over the set without some element of it, and
\* the element's own value.
LEMMA SumUnfolds ==
    ASSUME NEW f, NEW S, IsFiniteSet(S)
    PROVE  SumFunctionOnSet(f, S) =
              IF S = {} THEN 0
              ELSE f[Pick(S)] + SumFunctionOnSet(f, S \ {Pick(S)})
<1> DEFINE it == CHOOSE i : Sums(f, SUBSET S, i)
           T  == S \ {Pick(S)}
           jt == CHOOSE i : Sums(f, SUBSET T, i)
<1>1. Sums(f, SUBSET S, it)
    BY SumsExist
<1>2. IsFiniteSet(T) /\ T \in SUBSET S
    BY FS_Subset
<1>3. Sums(f, SUBSET T, jt)
    BY <1>2, SumsExist
<1>4. SumFunctionOnSet(f, S) = it[S] /\ SumFunctionOnSet(f, T) = jt[T]
    BY SumIsChosen
<1> HIDE DEF it, jt
<1>5. it[T] = jt[T]
    BY <1>1, <1>2, <1>3, SumsAgree
<1>6. it[S] = Step(f, it, S)
    BY <1>1 DEF Sums
<1> QED BY <1>4, <1>5, <1>6 DEF Step

-------------------------------------------------------------------------------
(* What a sum is *)

\* A sum of numbers is a number, and 0 only if all of them are.
LEMMA SumIsNat ==
    ASSUME NEW f, NEW S, IsFiniteSet(S), \A x \in S : f[x] \in Nat
    PROVE  /\ SumFunctionOnSet(f, S) \in Nat
           /\ SumFunctionOnSet(f, S) = 0 <=> \A x \in S : f[x] = 0
<1> DEFINE Good(s) == /\ SumFunctionOnSet(f, s) \in Nat
                      /\ SumFunctionOnSet(f, s) = 0 <=> \A x \in s : f[x] = 0
           P(n) == \A s \in SUBSET S : Cardinality(s) = n => Good(s)
           Bad == {n \in Nat : ~P(n)}
<1>0. \A s \in SUBSET S : IsFiniteSet(s) /\ Cardinality(s) \in Nat
    BY FS_Subset, FS_CardinalityType
<1>1. ASSUME Bad # {} PROVE FALSE
    <2> HIDE DEF Good
    <2>1. PICK n \in Bad : \A m \in Bad : n <= m
        BY <1>1, LeastNumber
    <2>2. PICK s \in SUBSET S : Cardinality(s) = n /\ ~Good(s)
        BY <2>1
    <2> DEFINE c == Pick(s)
               t == s \ {c}
    <2>3. SumFunctionOnSet(f, s) = IF s = {} THEN 0 ELSE f[c] + SumFunctionOnSet(f, t)
        BY <1>0, <2>2, SumUnfolds
    <2>4. s # {}
        BY <2>2, <2>3 DEF Good
    <2>5. t \in SUBSET S /\ c \in s /\ Cardinality(t) \in Nat /\ Cardinality(t) = n - 1 /\ n \in Nat
        BY <1>0, <2>2, <2>4, RemovePick
    <2>6. P(Cardinality(t))
        BY <2>1, <2>5
    <2>7. Good(t)
        BY <2>5, <2>6
    <2> HIDE DEF c
    <2>8. f[c] \in Nat /\ s = t \cup {c}
        BY <2>2, <2>5
    <2> QED BY <2>2, <2>3, <2>4, <2>7, <2>8 DEF Good
<1>2. P(Cardinality(S))
    BY <1>0, <1>1
<1> QED BY <1>0, <1>2

\* Any element can be taken out of a sum first.
LEMMA SumTakesOut ==
    ASSUME NEW f, NEW S, IsFiniteSet(S), \A x \in S : f[x] \in Nat, NEW y \in S
    PROVE  SumFunctionOnSet(f, S) = f[y] + SumFunctionOnSet(f, S \ {y})
<1> DEFINE Sum(s) == SumFunctionOnSet(f, s)
           P(n) == \A s \in SUBSET S : Cardinality(s) = n =>
                      \A x \in s : Sum(s) = f[x] + Sum(s \ {x})
           Bad == {n \in Nat : ~P(n)}
<1>0. \A s \in SUBSET S : IsFiniteSet(s) /\ Cardinality(s) \in Nat /\ Sum(s) \in Nat
    BY FS_Subset, FS_CardinalityType, SumIsNat
<1>1. ASSUME Bad # {} PROVE FALSE
    <2> HIDE DEF Sum
    <2>1. PICK n \in Bad : \A m \in Bad : n <= m
        BY <1>1, LeastNumber
    <2>2. PICK s \in SUBSET S, x \in S :
              x \in s /\ Cardinality(s) = n /\ Sum(s) # f[x] + Sum(s \ {x})
        BY <2>1
    <2> DEFINE c == Pick(s)
               t == s \ {c}
               u == s \ {x}
    <2>3. Sum(s) = f[c] + Sum(t) /\ c \in s
        BY <1>0, <2>2, SumUnfolds, RemovePick DEF Sum
    <2> HIDE DEF c
    <2>4. /\ t \in SUBSET S /\ Cardinality(t) \in Nat /\ Cardinality(t) = n - 1
          /\ u \in SUBSET S /\ Cardinality(u) \in Nat /\ Cardinality(u) = n - 1
          /\ n \in Nat
        BY <1>0, <2>2, <2>3, FS_RemoveElement
    <2>5. P(n - 1)
        BY <2>1, <2>4
    <2>6. c # x
        BY <2>2, <2>3
    <2>7. Sum(t) = f[x] + Sum(t \ {x}) /\ Sum(u) = f[c] + Sum(u \ {c})
        BY <2>2, <2>3, <2>4, <2>5, <2>6
    <2>8. Sum(t \ {x}) = Sum(u \ {c})
        <3>1. t \ {x} = u \ {c}
            OBVIOUS
        <3> HIDE DEF t, u
        <3> QED BY <3>1
    <2>9. f[x] \in Nat /\ f[c] \in Nat /\ Sum(t \ {x}) \in Nat
        BY <1>0, <2>2, <2>3
    <2> HIDE DEF t
    <2> QED BY <2>2, <2>3, <2>7, <2>8, <2>9
<1>2. P(Cardinality(S))
    BY <1>0, <1>1
<1> QED BY <1>0, <1>2

\* A sum over T is one over S if T can be mapped into S one to one, with the
\* same values, and what is not met in S is 0.
LEMMA SumReindexes ==
    ASSUME NEW f, NEW S, IsFiniteSet(S), \A x \in S : f[x] \in Nat,
           NEW g, NEW T, IsFiniteSet(T), NEW h \in [T -> S],
           \A a, b \in T : h[a] = h[b] => a = b,
           \A a \in T : g[a] = f[h[a]],
           \A x \in S : (\A a \in T : h[a] # x) => f[x] = 0
    PROVE  SumFunctionOnSet(g, T) = SumFunctionOnSet(f, S)
<1> DEFINE Onto(t, s) == /\ \A a \in t : h[a] \in s
                         /\ \A x \in s : (\A a \in t : h[a] # x) => f[x] = 0
           Eq(t, s) == SumFunctionOnSet(g, t) = SumFunctionOnSet(f, s)
           P(n) == \A t \in SUBSET T, s \in SUBSET S :
                      Cardinality(t) = n /\ Onto(t, s) => Eq(t, s)
           Bad == {n \in Nat : ~P(n)}
<1>0. /\ \A t \in SUBSET T : IsFiniteSet(t) /\ Cardinality(t) \in Nat
      /\ \A s \in SUBSET S : IsFiniteSet(s)
    BY FS_Subset, FS_CardinalityType
<1>1. ASSUME Bad # {} PROVE FALSE
    <2> HIDE DEF Onto, Eq
    <2>1. PICK n \in Bad : \A m \in Bad : n <= m
        BY <1>1, LeastNumber
    <2>2. PICK t \in SUBSET T, s \in SUBSET S :
              Cardinality(t) = n /\ Onto(t, s) /\ ~Eq(t, s)
        BY <2>1
    <2>3. CASE t = {}
        <3>1. \A x \in s : f[x] = 0
            BY <2>2, <2>3 DEF Onto
        <3>2. SumFunctionOnSet(f, s) = 0
            BY <1>0, <2>2, <3>1, SumIsNat
        <3>3. SumFunctionOnSet(g, t) = 0
            BY <1>0, <2>3, SumUnfolds
        <3> QED BY <2>2, <3>2, <3>3 DEF Eq
    <2>4. CASE t # {}
        <3> DEFINE a == Pick(t)
        <3>1. a \in t /\ Cardinality(t \ {a}) \in Nat /\ Cardinality(t \ {a}) = n - 1 /\ n \in Nat
            BY <1>0, <2>2, <2>4, RemovePick
        <3>2. SumFunctionOnSet(g, t) = g[a] + SumFunctionOnSet(g, t \ {a})
            BY <1>0, <2>2, <2>4, SumUnfolds
        <3> HIDE DEF a
        <3>3. h[a] \in s /\ g[a] = f[h[a]]
            BY <2>2, <3>1 DEF Onto
        <3>4. SumFunctionOnSet(f, s) = f[h[a]] + SumFunctionOnSet(f, s \ {h[a]})
            BY <1>0, <2>2, <3>3, SumTakesOut
        <3>5. Onto(t \ {a}, s \ {h[a]})
            BY <2>2, <3>1 DEF Onto
        <3>6. P(n - 1)
            BY <2>1, <3>1
        <3>7. Eq(t \ {a}, s \ {h[a]})
            BY <2>2, <3>1, <3>5, <3>6
        <3> QED BY <2>2, <3>2, <3>3, <3>4, <3>7 DEF Eq
    <2> QED BY <2>3, <2>4
<1>2. P(Cardinality(T))
    BY <1>0, <1>1
<1>3. Onto(T, S)
    OBVIOUS
<1> QED BY <1>0, <1>2, <1>3

-------------------------------------------------------------------------------
(* The k-th smallest of the numbers t[i], i in S *)

Below(t, S, v) == {i \in S : t[i] < v}
UpTo(t, S, v)  == {i \in S : t[i] <= v}

IsKth(t, S, k, v) ==
    /\ v \in {t[i] : i \in S}
    /\ Cardinality(Below(t, S, v)) < k
    /\ k <= Cardinality(UpTo(t, S, v))

\* A finite family of numbers has a greatest one.
LEMMA GreatestMember ==
    ASSUME NEW S, IsFiniteSet(S), S # {}, NEW t, \A i \in S : t[i] \in Nat
    PROVE  \E i \in S : \A j \in S : t[j] <= t[i]
<1> DEFINE U(i) == UpTo(t, S, t[i])
           Rest(i) == Cardinality(S) - Cardinality(U(i))
           R == {n \in Nat : \E i \in S : n = Rest(i)}
<1>1. \A i \in S : /\ Cardinality(U(i)) \in Nat /\ Cardinality(S) \in Nat
                   /\ Cardinality(U(i)) <= Cardinality(S) /\ IsFiniteSet(U(i))
    BY FS_Subset, FS_CardinalityType DEF UpTo
<1> HIDE DEF U
<1>2. R # {}
    BY <1>1
<1>3. PICK n \in R : \A m \in R : n <= m
    BY <1>2, LeastNumber
<1>4. PICK i \in S : n = Rest(i)
    BY <1>3
<1>5. ASSUME NEW j \in S, ~(t[j] <= t[i]) PROVE FALSE
    <2>1. U(i) \subseteq U(j) /\ j \in U(j) /\ j \notin U(i)
        BY <1>5 DEF U, UpTo
    <2>2. Cardinality(U(i)) <= Cardinality(U(j)) /\ Cardinality(U(i)) # Cardinality(U(j))
        BY <1>1, <2>1, FS_Subset
    <2>3. Rest(j) \in R
        BY <1>1
    <2> QED BY <1>1, <1>3, <1>4, <2>2, <2>3
<1> QED BY <1>5

\* Every k up to the number of members has a k-th smallest member.
LEMMA KthExists ==
    ASSUME NEW S, IsFiniteSet(S), NEW t, \A i \in S : t[i] \in Nat,
           NEW k \in 1..Cardinality(S)
    PROVE  \E v : IsKth(t, S, k, v)
<1> DEFINE Good == {v \in Nat : v \in {t[i] : i \in S} /\ k <= Cardinality(UpTo(t, S, v))}
<1>1. Cardinality(S) \in Nat /\ S # {}
    BY FS_CardinalityType, FS_EmptySet
<1>2. PICK top \in S : \A j \in S : t[j] <= t[top]
    BY <1>1, GreatestMember
<1>3. t[top] \in Good
    <2>1. UpTo(t, S, t[top]) = S
        BY <1>2 DEF UpTo
    <2> QED BY <1>1, <2>1
<1>4. PICK v \in Good : \A w \in Good : v <= w
    BY <1>3, LeastNumber
<1> DEFINE B == Below(t, S, v)
<1>5. IsFiniteSet(B) /\ Cardinality(B) \in Nat
    BY FS_Subset, FS_CardinalityType DEF Below
<1>6. Cardinality(B) < k
    <2>1. CASE B = {}
        BY <2>1, FS_EmptySet
    <2>2. CASE B # {}
        <3>1. PICK i \in B : \A j \in B : t[j] <= t[i]
            BY <1>5, <2>2, GreatestMember DEF Below
        <3>2. i \in S /\ t[i] \in Nat /\ t[i] < v /\ v \in Nat
            BY DEF Below
        <3>3. UpTo(t, S, t[i]) = B
            BY <3>1, <3>2 DEF Below, UpTo
        <3>4. ~(k <= Cardinality(B))
            BY <1>4, <3>2, <3>3
        <3> QED BY <1>1, <1>5, <3>4
    <2> QED BY <2>1, <2>2
<1> QED BY <1>4, <1>6 DEF IsKth

\* A family that is mapped one to one below another one has the smaller k-th
\* members, for every k.
LEMMA KthIsMonotonic ==
    ASSUME NEW S, IsFiniteSet(S), NEW t, \A i \in S : t[i] \in Nat,
           NEW T, IsFiniteSet(T), NEW u, \A j \in T : u[j] \in Nat,
           NEW h \in Injection(S, T),
           NEW k \in Nat, NEW v, IsKth(t, S, k, v), NEW w, IsKth(u, T, k, w)
    PROVE  /\ (\A i \in S : u[h[i]] <= t[i]) => w <= v
           /\ (\A i \in S : u[h[i]] < t[i]) => w < v
<1>0. v \in Nat /\ w \in Nat
    BY DEF IsKth
<1>1. h \in [S -> T] /\ \A i, j \in S : h[i] = h[j] => i = j
    BY DEF Injection, IsInjective
<1>2. /\ IsFiniteSet(UpTo(t, S, v)) /\ Cardinality(UpTo(t, S, v)) \in Nat
      /\ IsFiniteSet(Below(u, T, w)) /\ Cardinality(Below(u, T, w)) \in Nat
    BY FS_Subset, FS_CardinalityType DEF UpTo, Below
<1>3. ASSUME \A i \in UpTo(t, S, v) : h[i] \in Below(u, T, w) PROVE FALSE
    <2> DEFINE g == [i \in UpTo(t, S, v) |-> h[i]]
    <2>1. g \in Injection(UpTo(t, S, v), Below(u, T, w))
        BY <1>1, <1>3 DEF Injection, IsInjective, UpTo
    <2>2. Cardinality(UpTo(t, S, v)) <= Cardinality(Below(u, T, w))
        BY <1>2, <2>1, FS_Injection
    <2> QED BY <1>2, <2>2 DEF IsKth
<1>4. ASSUME \A i \in S : u[h[i]] <= t[i], ~(w <= v) PROVE FALSE
    BY <1>0, <1>1, <1>3, <1>4 DEF UpTo, Below
<1>5. ASSUME \A i \in S : u[h[i]] < t[i], ~(w < v) PROVE FALSE
    BY <1>0, <1>1, <1>3, <1>5 DEF UpTo, Below
<1> QED BY <1>4, <1>5

================================================================================
