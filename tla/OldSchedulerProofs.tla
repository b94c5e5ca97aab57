-------------------------- MODULE OldSchedulerProofs ------------------------
(***************************************************************************)
(* Proofs about the old scheduler: what its dependency graph demands, that *)
(* the schedules of all its targets meet that, and how long they are.      *)
(* They are about one kernel of any length, any gates, qubits, durations   *)
(* and resources, given by the mapper or by the job.                       *)
(***************************************************************************)
EXTENDS Backend, RangeMapTheory, FiniteSetTheorems, WellFoundedInduction, TLAPS

-----------------------------------------------------------------------------
(* Numbers, and recursion over them.                                       *)

\* A finite set of numbers has a smallest and a largest one.
LEMMA Extremes ==
  ASSUME NEW S \in SUBSET Int, IsFiniteSet(S), S # {}
  PROVE  /\ \E x \in S : \A y \in S : x <= y
         /\ \E x \in S : \A y \in S : y <= x
<1> DEFINE above(x) == {y \in S : x <= y}
           below(x) == {y \in S : y <= x}
<1>1. ASSUME NEW T, T \subseteq SUBSET S, T # {}
      PROVE  \E A \in T : \A t \in SUBSET A : t # A => t \notin T
  <2>1. IsWellFoundedOn(StrictSubsetOrdering(S), SUBSET S)
    BY FS_StrictSubsetOrderingWellFounded, FS_FiniteSubsetsOfFinite, Zenon
  <2>2. PICK A \in T : \A t \in T : <<t, A>> \notin StrictSubsetOrdering(S)
    BY <1>1, <2>1, WFMin, Zenon
  <2>3. ASSUME NEW t \in SUBSET A, t # A, t \in T PROVE FALSE
    BY <1>1, <2>2, <2>3 DEF StrictSubsetOrdering
  <2> QED BY <2>3
<1>2. \E x \in S : \A y \in S : y <= x
  <2> DEFINE T == {above(x) : x \in S}
  <2>1. T \subseteq SUBSET S /\ T # {}
    <3>1. \A x \in S : above(x) \subseteq S
      OBVIOUS
    <3> HIDE DEF above
    <3> QED BY <3>1
  <2>2. PICK A \in T : \A t \in SUBSET A : t # A => t \notin T
    <3> HIDE DEF T
    <3> QED BY <1>1, <2>1
  <2>3. PICK x \in S : A = above(x)
    OBVIOUS
  <2>4. ASSUME NEW y \in S, y > x PROVE FALSE
    <3>1. above(y) \in SUBSET A /\ above(y) # A
      <4>1. \A z \in above(y) : x <= z
        BY <2>4
      <4>2. x \in above(x) /\ x \notin above(y)
        BY <2>4
      <4> QED BY <2>3, <4>1, <4>2
    <3> HIDE DEF above
    <3> QED BY <2>2, <3>1
  <2> QED BY <2>4
<1>3. \E x \in S : \A y \in S : x <= y
  <2> DEFINE T == {below(x) : x \in S}
  <2>1. T \subseteq SUBSET S /\ T # {}
    <3>1. \A x \in S : below(x) \subseteq S
      OBVIOUS
    <3> HIDE DEF below
    <3> QED BY <3>1
  <2>2. PICK A \in T : \A t \in SUBSET A : t # A => t \notin T
    <3> HIDE DEF T
    <3> QED BY <1>1, <2>1
  <2>3. PICK x \in S : A = below(x)
    OBVIOUS
  <2>4. ASSUME NEW y \in S, y < x PROVE FALSE
    <3>1. below(y) \in SUBSET A /\ below(y) # A
      <4>1. \A z \in below(y) : z <= x
        BY <2>4
      <4>2. x \in below(x) /\ x \notin below(y)
        BY <2>4
      <4> QED BY <2>3, <4>1, <4>2
    <3> HIDE DEF below
    <3> QED BY <2>2, <3>1
  <2> QED BY <2>4
<1> QED BY <1>2, <1>3

LEMMA LargestAndSmallest ==
  ASSUME NEW S \in SUBSET Int, IsFiniteSet(S), S # {}
  PROVE  /\ Largest(S) \in S /\ \A y \in S : y <= Largest(S)
         /\ Smallest(S) \in S /\ \A y \in S : Smallest(S) <= y
BY Extremes DEF Largest, Smallest

\* The same for the nodes of a kernel.
LEMMA FirstAndLast ==
  ASSUME NEW N \in Nat, NEW S \in SUBSET (0 .. N), S # {}
  PROVE  /\ \E x \in S : \A y \in S : x <= y
         /\ \E x \in S : \A y \in S : y <= x
<1>1. IsFiniteSet(S)
  <2>1. IsFiniteSet(0 .. N)
    BY FS_Interval
  <2> QED BY <2>1, FS_Subset
<1>2. S \in SUBSET Int
  OBVIOUS
<1> QED BY <1>1, <1>2, Extremes

\* A function whose value at n is given by its values at nodes of lower rank exists.
LEMMA Recursion ==
  ASSUME NEW N \in Nat, NEW rank \in [0 .. N -> 0 .. N],
         NEW G \in [[0 .. N -> Int] \X (0 .. N) -> Int],
         \A n \in 0 .. N : \A f, h \in [0 .. N -> Int] :
           (\A m \in 0 .. N : rank[m] < rank[n] => f[m] = h[m]) => G[<<f, n>>] = G[<<h, n>>]
  PROVE  \E f \in [0 .. N -> Int] : \A n \in 0 .. N : f[n] = G[<<f, n>>]
<1> DEFINE Solved(f, k) == \A n \in 0 .. N : rank[n] < k => f[n] = G[<<f, n>>]
           S == {k \in 0 .. N + 1 : ~\E f \in [0 .. N -> Int] : Solved(f, k)}
<1>1. S = {}
  <2> SUFFICES ASSUME S # {} PROVE FALSE
    OBVIOUS
  <2>1. PICK k \in S : \A y \in S : k <= y
    <3>1. S \in SUBSET (0 .. N + 1) /\ N + 1 \in Nat
      OBVIOUS
    <3> HIDE DEF S
    <3> QED BY <3>1, FirstAndLast
  <2>2. k \in 0 .. N + 1 /\ ~\E f \in [0 .. N -> Int] : Solved(f, k)
    OBVIOUS
  <2>3. k # 0
    <3>1. [n \in 0 .. N |-> 0] \in [0 .. N -> Int] /\ Solved([n \in 0 .. N |-> 0], 0)
      OBVIOUS
    <3> HIDE DEF Solved
    <3> QED BY <2>2, <3>1
  <2>4. PICK f \in [0 .. N -> Int] : Solved(f, k - 1)
    <3> HIDE DEF Solved
    <3>1. k - 1 \in 0 .. N + 1 /\ ~(k <= k - 1)
      BY <2>2, <2>3
    <3>2. k - 1 \notin S
      <4> HIDE DEF S
      <4> QED BY <2>1, <3>1
    <3> QED BY <3>1, <3>2
  <2> DEFINE h == [n \in 0 .. N |-> IF rank[n] = k - 1 THEN G[<<f, n>>] ELSE f[n]]
  <2>5. h \in [0 .. N -> Int]
    OBVIOUS
  <2>6. \A m \in 0 .. N : rank[m] < k - 1 => h[m] = f[m]
    BY <2>2
  <2>7. ASSUME NEW n \in 0 .. N, rank[n] < k PROVE h[n] = G[<<h, n>>]
    <3>1. G[<<h, n>>] = G[<<f, n>>]
      <4>1. \A m \in 0 .. N : rank[m] < rank[n] => h[m] = f[m]
        BY <2>2, <2>6, <2>7
      <4> HIDE DEF h
      <4> QED BY <2>5, <4>1
    <3>2. h[n] = G[<<f, n>>]
      <4>1. rank[n] \in 0 .. N /\ k \in Int
        BY <2>2
      <4>2. rank[n] = k - 1 \/ rank[n] < k - 1
        BY <2>7, <4>1
      <4>3. rank[n] < k - 1 => f[n] = G[<<f, n>>]
        BY <2>4
      <4> QED BY <4>1, <4>2, <4>3
    <3> QED BY <3>1, <3>2
  <2> HIDE DEF h
  <2> QED BY <2>2, <2>5, <2>7
<1>2. PICK f \in [0 .. N -> Int] : Solved(f, N + 1)
  <2> HIDE DEF Solved
  <2>1. N + 1 \in 0 .. N + 1
    OBVIOUS
  <2> QED BY <1>1, <2>1
<1>3. ASSUME NEW n \in 0 .. N PROVE f[n] = G[<<f, n>>]
  <2>1. rank[n] \in 0 .. N
    OBVIOUS
  <2>2. rank[n] < N + 1
    BY <2>1
  <2> QED BY <1>2, <2>2
<1> QED BY <1>3

-----------------------------------------------------------------------------
(* Lists in an order: the i-th element has i - 1 elements before it.       *)

LEMMA ImageFinite ==
  ASSUME NEW S, IsFiniteSet(S), NEW f
  PROVE  IsFiniteSet({f[x] : x \in S})
<1> DEFINE g == [x \in S |-> f[x]]
           T == {f[x] : x \in S}
<1>1. g \in [S -> T] /\ \A y \in T : \E x \in S : g[x] = y
  OBVIOUS
<1>2. g \in Surjection(S, T)
  BY <1>1 DEF Surjection
<1> HIDE DEF g, T
<1>3. IsFiniteSet(T)
  BY <1>2, FS_Surjection
<1> QED BY <1>3 DEF T

StrictOrder(S, R) ==
  /\ \A x \in S : <<x, x>> \notin R
  /\ \A x, y, z \in S : <<x, y>> \in R /\ <<y, z>> \in R => <<x, z>> \in R
  /\ \A x, y \in S : x = y \/ <<x, y>> \in R \/ <<y, x>> \in R

Ranked(S, R) ==
  [i \in 1 .. Cardinality(S) |-> CHOOSE n \in S : Cardinality({m \in S : <<m, n>> \in R}) = i - 1]

\* Such a list holds every element of S once, in the order R.
LEMMA RankedList ==
  ASSUME NEW S, IsFiniteSet(S), NEW R, StrictOrder(S, R), NEW K, K = Cardinality(S)
  PROVE  /\ K \in Nat
         /\ Ranked(S, R) \in [1 .. K -> S]
         /\ \A n \in S : \E i \in 1 .. K : Ranked(S, R)[i] = n
         /\ \A i, j \in 1 .. K : Ranked(S, R)[i] = Ranked(S, R)[j] => i = j
         /\ \A i, j \in 1 .. K : i < j => <<Ranked(S, R)[i], Ranked(S, R)[j]>> \in R
<1> DEFINE list == Ranked(S, R)
           ahead(n) == {m \in S : <<m, n>> \in R}
           rank == [n \in S |-> Cardinality(ahead(n)) + 1]
<1>1. K \in Nat /\ IsFiniteSet(1 .. K) /\ Cardinality(1 .. K) = K
  BY FS_CardinalityType, FS_Interval
<1>2. ASSUME NEW n \in S
      PROVE  /\ ahead(n) \in SUBSET S /\ IsFiniteSet(ahead(n)) /\ Cardinality(ahead(n)) \in Nat
             /\ n \notin ahead(n) /\ Cardinality(ahead(n) \cup {n}) = Cardinality(ahead(n)) + 1
  <2>1. ahead(n) \in SUBSET S /\ n \notin ahead(n)
    BY DEF StrictOrder
  <2> HIDE DEF ahead
  <2>2. IsFiniteSet(ahead(n)) /\ Cardinality(ahead(n)) \in Nat
    BY <2>1, FS_Subset, FS_CardinalityType
  <2> QED BY <2>1, <2>2, FS_AddElement
<1>3. ASSUME NEW n \in S PROVE rank[n] \in 1 .. K /\ Cardinality(ahead(n)) = rank[n] - 1
  <2> HIDE DEF ahead
  <2>1. ahead(n) \cup {n} \in SUBSET S
    BY <1>2
  <2>2. Cardinality(ahead(n) \cup {n}) <= K
    BY <2>1, FS_Subset
  <2> QED BY <1>1, <1>2, <2>2
<1>4. ASSUME NEW m \in S, NEW n \in S, <<m, n>> \in R PROVE rank[m] < rank[n]
  <2>1. ahead(m) \cup {m} \in SUBSET ahead(n)
    BY <1>4 DEF StrictOrder
  <2> HIDE DEF ahead
  <2>2. Cardinality(ahead(m) \cup {m}) <= Cardinality(ahead(n))
    BY <1>2, <2>1, FS_Subset
  <2>3. rank[m] = Cardinality(ahead(m)) + 1 /\ rank[n] = Cardinality(ahead(n)) + 1
    BY DEF rank
  <2>4. /\ Cardinality(ahead(m)) \in Nat /\ Cardinality(ahead(n)) \in Nat
        /\ Cardinality(ahead(m) \cup {m}) = Cardinality(ahead(m)) + 1
    BY <1>2
  <2> HIDE DEF rank
  <2> QED BY <2>2, <2>3, <2>4
<1> HIDE DEF ahead, rank, list
<1>5. ASSUME NEW m \in S, NEW n \in S, rank[m] = rank[n] PROVE m = n
  <2>1. rank[m] \in Int /\ rank[n] \in Int
    BY <1>1, <1>3
  <2>2. <<m, n>> \notin R /\ <<n, m>> \notin R
    BY <1>4, <1>5, <2>1
  <2> QED BY <2>2 DEF StrictOrder
<1>6. ASSUME NEW i \in 1 .. K PROVE \E n \in S : rank[n] = i
  <2>1. rank \in [S -> 1 .. K]
    BY <1>3 DEF rank
  <2>2. rank \in Injection(S, 1 .. K)
    BY <2>1, <1>5 DEF Injection, IsInjective
  <2>3. rank \in Surjection(S, 1 .. K)
    BY <1>1, <2>2, FS_Injection
  <2> QED BY <2>3 DEF Surjection
<1>7. ASSUME NEW i \in 1 .. K PROVE list[i] \in S /\ rank[list[i]] = i
  <2> DEFINE Fits(n) == Cardinality({m \in S : <<m, n>> \in R}) = i - 1
  <2>1. list[i] = CHOOSE n \in S : Fits(n)
    BY DEF list, Ranked
  <2>2. \A n \in S : Fits(n) <=> rank[n] = i
    <3> SUFFICES ASSUME NEW n \in S PROVE Fits(n) <=> rank[n] = i
      OBVIOUS
    <3>1. Cardinality({m \in S : <<m, n>> \in R}) = rank[n] - 1 /\ rank[n] \in Int
      BY <1>3 DEF ahead
    <3> QED BY <1>1, <3>1
  <2> HIDE DEF Fits
  <2> QED BY <1>6, <2>1, <2>2
<1>8. list \in [1 .. K -> S]
  <2> DEFINE pick(i) == CHOOSE n \in S : Cardinality({m \in S : <<m, n>> \in R}) = i - 1
  <2>1. list = [i \in 1 .. K |-> pick(i)]
    BY DEF list, Ranked
  <2> HIDE DEF pick
  <2> QED BY <1>7, <2>1
<1>9. \A n \in S : \E i \in 1 .. K : list[i] = n
  <2> SUFFICES ASSUME NEW n \in S PROVE \E i \in 1 .. K : list[i] = n
    OBVIOUS
  <2>1. rank[n] \in 1 .. K
    BY <1>3
  <2>2. list[rank[n]] \in S /\ rank[list[rank[n]]] = rank[n]
    BY <1>7, <2>1
  <2>3. list[rank[n]] = n
    BY <1>5, <2>2
  <2> QED BY <2>1, <2>3
<1>10. \A i, j \in 1 .. K : list[i] = list[j] => i = j
  BY <1>7
<1>11. ASSUME NEW i \in 1 .. K, NEW j \in 1 .. K, i < j PROVE <<list[i], list[j]>> \in R
  <2>1. /\ list[i] \in S /\ rank[list[i]] = i
        /\ list[j] \in S /\ rank[list[j]] = j
    BY <1>7
  <2>2. list[i] # list[j]
    BY <1>11, <2>1
  <2>3. <<list[j], list[i]>> \notin R
    <3>1. ~(rank[list[j]] < rank[list[i]])
      BY <1>1, <1>11, <2>1
    <3> QED BY <1>4, <2>1, <3>1
  <2> QED BY <2>1, <2>2, <2>3 DEF StrictOrder
<1> QED BY <1>1, <1>8, <1>9, <1>10, <1>11 DEF list

\* The gates of a bundle.
LEMMA KernelOrder ==
  ASSUME NEW N \in Nat, NEW S \in SUBSET (0 .. N)
  PROVE  LET list == Ascending(S)
         IN /\ list \in Seq(S)
            /\ \A n \in S : \E i \in DOMAIN list : list[i] = n
            /\ \A i, j \in DOMAIN list : list[i] = list[j] => i = j
<1> DEFINE R == {p \in S \X S : p[1] < p[2]}
           ranked == Ranked(S, R)
<1>1. IsFiniteSet(S)
  <2>1. IsFiniteSet(0 .. N)
    BY FS_Interval
  <2> QED BY <2>1, FS_Subset
<1>2. StrictOrder(S, R)
  BY DEF StrictOrder
<1>3. \A n \in S : {m \in S : <<m, n>> \in R} = {m \in S : m < n}
  OBVIOUS
<1>4. Ascending(S) = ranked
  <2>1. Ascending(S) = [i \in 1 .. Cardinality(S) |->
                              CHOOSE n \in S : Cardinality({m \in S : m < n}) = i - 1]
    BY DEF Ascending
  <2> HIDE DEF R
  <2> QED BY <1>3, <2>1 DEF Ranked
<1> HIDE DEF R
<1>5. /\ Cardinality(S) \in Nat
      /\ ranked \in [1 .. Cardinality(S) -> S]
      /\ \A n \in S : \E i \in 1 .. Cardinality(S) : ranked[i] = n
      /\ \A i, j \in 1 .. Cardinality(S) : ranked[i] = ranked[j] => i = j
  BY <1>1, <1>2, RankedList
<1> HIDE DEF ranked
<1> QED BY <1>4, <1>5

\* The order of sort_by_cycle().
Earlier(c, m, n) == c[m] < c[n] \/ (c[m] = c[n] /\ m < n)

LEMMA SortedByCycle ==
  ASSUME NEW N \in Nat, DOMAIN kernel = 1 .. N, NEW c, \A n \in 1 .. N : c[n] \in Int
  PROVE  LET list == ByCycle(c)
         IN /\ list \in [1 .. N -> 1 .. N]
            /\ \A n \in 1 .. N : \E i \in 1 .. N : list[i] = n
            /\ \A i, j \in 1 .. N : list[i] = list[j] => i = j
            /\ \A i, j \in 1 .. N : i < j => Earlier(c, list[i], list[j])
<1> DEFINE S == 1 .. N
           R == {p \in S \X S : Earlier(c, p[1], p[2])}
           ranked == Ranked(S, R)
<1>1. IsFiniteSet(S) /\ Cardinality(S) = N
  BY FS_Interval
<1>2. StrictOrder(S, R)
  BY DEF StrictOrder, Earlier
<1>3. \A n \in S : {m \in S : <<m, n>> \in R} = {m \in S : Earlier(c, m, n)}
  OBVIOUS
<1>4. ByCycle(c) = ranked
  <2>1. ByCycle(c) = [i \in S |-> CHOOSE n \in S : Cardinality({m \in S : Earlier(c, m, n)}) = i - 1]
    BY DEF ByCycle, Earlier
  <2> QED BY <1>1, <1>3, <2>1 DEF Ranked
<1>5. \A i, j \in S : <<i, j>> \in R => Earlier(c, i, j)
  OBVIOUS
<1> HIDE DEF R
<1>6. /\ ranked \in [1 .. N -> S]
      /\ \A n \in S : \E i \in 1 .. N : ranked[i] = n
      /\ \A i, j \in 1 .. N : ranked[i] = ranked[j] => i = j
      /\ \A i, j \in 1 .. N : i < j => <<ranked[i], ranked[j]>> \in R
  <2> HIDE DEF S
  <2> QED BY <1>1, <1>2, RankedList
<1> HIDE DEF ranked
<1> QED BY <1>4, <1>5, <1>6

-----------------------------------------------------------------------------
(* The events of a gate, one after the other.                              *)

\* What the recursive function of a fold over events computes.
Stepping(it, c, S, before, node, events) ==
  it = [s \in SUBSET S |-> IF s = {} THEN before ELSE NewEvent(it[s \ {c[s]}], node, events[c[s]])]

LEMMA SteppingExists ==
  ASSUME NEW S, IsFiniteSet(S), NEW c, \A s \in SUBSET S : s # {} => c[s] \in s,
         NEW before, NEW node, NEW events
  PROVE  \E it : Stepping(it, c, S, before, node, events)
<1> DEFINE P(n) == {s \in SUBSET S : Cardinality(s) <= n}
           Rule(it, n) == it = [s \in P(n) |-> IF s = {} THEN before
                                               ELSE NewEvent(it[s \ {c[s]}], node, events[c[s]])]
           B == {n \in 0 .. Cardinality(S) : ~\E it : Rule(it, n)}
<1>1. ASSUME NEW s \in SUBSET S, s # {}
      PROVE  /\ s \ {c[s]} \in SUBSET S /\ Cardinality(s) \in Nat
             /\ Cardinality(s \ {c[s]}) = Cardinality(s) - 1
  BY <1>1, FS_Subset, FS_RemoveElement, FS_CardinalityType
<1>2. Cardinality(S) \in Nat /\ P(Cardinality(S)) = SUBSET S
  BY FS_CardinalityType, FS_Subset
<1>3. ASSUME NEW n \in B, \A m \in B : n <= m PROVE FALSE
  <2>1. CASE n = 0
    <3> DEFINE it == [s \in P(0) |-> before]
    <3>1. \A s \in P(0) : s = {}
      BY FS_Subset, FS_EmptySet, FS_CardinalityType
    <3>2. Rule(it, 0)
      BY <3>1
    <3> HIDE DEF Rule
    <3> QED BY <2>1, <3>2
  <2>2. CASE n # 0
    <3>1. n - 1 \in 0 .. Cardinality(S) /\ ~(n <= n - 1) /\ n \in Nat
      BY <1>2, <2>2
    <3>2. PICK old : Rule(old, n - 1)
      <4> HIDE DEF Rule
      <4> QED BY <1>3, <3>1
    <3> DEFINE it == [s \in P(n) |-> IF s = {} THEN before
                                     ELSE NewEvent(old[s \ {c[s]}], node, events[c[s]])]
    <3>3. \A s \in P(n) : s # {} => s \ {c[s]} \in P(n - 1) /\ s \ {c[s]} \in P(n)
      BY <1>1, <3>1
    <3>4. \A s \in P(n - 1) : s \in P(n)
      BY <3>1, FS_Subset, FS_CardinalityType
    <3> HIDE DEF P
    <3>5. \A s \in P(n - 1) : it[s] = old[s]
      BY <3>2, <3>4
    <3>6. Rule(it, n)
      BY <3>3, <3>5
    <3> HIDE DEF Rule, it
    <3> QED BY <3>6
  <2> QED BY <2>1, <2>2
<1>4. B = {}
  <2>1. B \in SUBSET (0 .. Cardinality(S))
    OBVIOUS
  <2> HIDE DEF B
  <2>2. B # {} => \E n \in B : \A m \in B : n <= m
    BY <1>2, <2>1, FirstAndLast
  <2> QED BY <2>2, <1>3
<1>5. PICK it : Rule(it, Cardinality(S))
  <2> HIDE DEF Rule, P
  <2> QED BY <1>2, <1>4
<1> QED BY <1>2, <1>5 DEF Stepping

AllEvents(g, node, events) == FoldLeft(LAMBDA x, e : NewEvent(x, node, e), g, events)

\* The graphs on the way.
OnTheWay(gs, before, node, events, N) ==
  /\ gs[0] = before
  /\ \A j \in 1 .. N : gs[j] = NewEvent(gs[j - 1], node, events[j])
  /\ AllEvents(before, node, events) = gs[N]

LEMMA EventSteps ==
  ASSUME NEW N \in Nat, NEW events, DOMAIN events = 1 .. N, NEW before, NEW node \in Nat
  PROVE  \E gs : OnTheWay(gs, before, node, events, N)
<1> DEFINE S == DOMAIN events
           m(s) == CHOOSE x \in s : \A y \in s : x >= y
           c == [s \in SUBSET S |-> m(s)]
           Rule(it) == it = [s \in SUBSET S |-> IF s = {} THEN before
                                                ELSE NewEvent(it[s \ {m(s)}], node, events[m(s)])]
           it == CHOOSE it : Rule(it)
           gs == [j \in 0 .. N |-> it[1 .. j]]
<1>1. AllEvents(before, node, events) = it[S]
  BY DEF AllEvents, FoldLeft, MapThenFoldSet, Max
<1>2. S = 1 .. N /\ IsFiniteSet(S) /\ S \in SUBSET (0 .. N)
  BY FS_Interval
<1>3. ASSUME NEW s \in SUBSET S, s # {}
      PROVE  c[s] \in s /\ c[s] = m(s)
  <2>1. \E x \in s : \A y \in s : y <= x
    BY <1>2, <1>3, FirstAndLast
  <2>2. \A x, y \in s : y <= x <=> x >= y
    BY <1>2
  <2> QED BY <2>1, <2>2
<1>4. \A j \in 1 .. N : m(1 .. j) = j
  <2> TAKE j \in 1 .. N
  <2>1. \A x \in 1 .. j : (\A y \in 1 .. j : x >= y) <=> x = j
    OBVIOUS
  <2> QED BY <2>1
<1>5. Rule(it)
  <2> HIDE DEF c, m
  <2>1. PICK jt : Stepping(jt, c, S, before, node, events)
    <3> HIDE DEF S
    <3> QED BY <1>2, <1>3, SteppingExists
  <2>2. Rule(jt)
    BY <1>3, <2>1 DEF Stepping
  <2> HIDE DEF Rule
  <2> QED BY <2>2
<1> HIDE DEF it, m
<1>6. gs[0] = before
  <2>1. 1 .. 0 = {} /\ {} \in SUBSET S
    OBVIOUS
  <2> QED BY <1>5, <2>1
<1>7. ASSUME NEW j \in 1 .. N
      PROVE  gs[j] = NewEvent(gs[j - 1], node, events[j])
  <2>1. /\ 1 .. j \in SUBSET S /\ 1 .. j # {} /\ (1 .. j) \ {j} = 1 .. j - 1
        /\ j \in 0 .. N /\ j - 1 \in 0 .. N
    <3>1. j \in Nat /\ 1 <= j /\ j <= N
      OBVIOUS
    <3>2. \A i : i \in (1 .. j) \ {j} <=> i \in 1 .. j - 1
      BY <3>1
    <3>3. (1 .. j) \ {j} = 1 .. j - 1
      BY <3>2
    <3>4. 1 .. j \in SUBSET S
      BY <1>2, <3>1
    <3>5. j \in 1 .. j
      BY <3>1
    <3>6. j \in 0 .. N /\ j - 1 \in 0 .. N
      BY <3>1
    <3> QED BY <3>3, <3>4, <3>5, <3>6
  <2>2. it[1 .. j] = NewEvent(it[1 .. j - 1], node, events[j])
    BY <1>4, <1>5, <2>1
  <2> QED BY <2>1, <2>2
<1>8. it[S] = gs[N]
  BY <1>2
<1> HIDE DEF gs, S
<1> QED BY <1>1, <1>6, <1>7, <1>8 DEF OnTheWay

-----------------------------------------------------------------------------
(* What the state machines know of the events so far.  A history is a set  *)
(* of pairs of a node and one of its events; c gives the nodes cycles and  *)
(* d durations.                                                            *)

EventKinds == {"x", "z", "read"}
AnyKind    == EventKinds \cup {"default"}

\* Rotations are of qubits, reads are of bits.
KindOf(kind, o) ==
  /\ kind \in {"x", "z"} => \E q : o = Qubit(q)
  /\ kind = "read" => \E b : o = Breg(b)

LegalEvent(e) ==
  /\ e.object \in Objects
  /\ e.event \in EventKinds \/ (e.event = "default" /\ ~e.commutes)
  /\ KindOf(e.event, e.object)

\* The event f that comes after the event e, on the same object, has to stay behind it.
Apart(e, f) == ~(e.event = f.event /\ f.commutes)

Machines == [last : AnyKind, default : Nat, run : [EventKinds -> SUBSET Nat]]

\* What a machine remembers happened.
Remembers(m, o, H) ==
  /\ KindOf(m.last, o)
  /\ \E p \in H : p[1] = m.default /\ p[2].object = o /\ p[2].event = "default"
  /\ \A kind \in EventKinds : \A n \in m.run[kind] :
       \E p \in H : p[1] = n /\ p[2].object = o /\ p[2].event = kind

\* The cycles let a finish before f starts.
Ends(c, d, a, f) == c[a] + d[a] <= c[f]
UpToNode(c, d, a, f) == a = f \/ Ends(c, d, a, f)

Respects(c, d, arcs) == \A a \in arcs : Ends(c, d, a[1], a[2])

\* Each event finishes before some of those that the next event may be ordered after.
Covers(m, o, H, c, d) ==
  \A p \in H : p[2].object = o =>
    /\ \E f \in DefaultSources(m) : UpToNode(c, d, p[1], f)
    /\ p[2].event = "default" => UpToNode(c, d, p[1], m.default)
    /\ p[2].event \in EventKinds =>
         \E f \in m.run[p[2].event] \cup {m.default} : UpToNode(c, d, p[1], f)

SourcesFor(m, e) ==
  IF e.event = "default" THEN DefaultSources(m) ELSE RotationSources(m, e.event, e.commutes)

MachineAfter(m, node, e) ==
  IF e.event = "default" THEN [m EXCEPT !.default = node, !.last = "default"]
  ELSE [m EXCEPT !.last = e.event,
                 !.run[e.event] = (IF m.last = e.event THEN @ ELSE {}) \cup {node}]

LEMMA UpToNext ==
  ASSUME NEW E \in Nat, NEW c \in [0 .. E -> Int], NEW d \in [0 .. E -> Nat],
         NEW a \in 0 .. E, NEW f \in 0 .. E, NEW node \in 0 .. E,
         UpToNode(c, d, a, f), Ends(c, d, f, node)
  PROVE  Ends(c, d, a, node)
<1>1. c[a] \in Int /\ c[f] \in Int /\ c[node] \in Int /\ d[a] \in Nat /\ d[f] \in Nat
  OBVIOUS
<1> QED BY <1>1 DEF UpToNode, Ends

\* The next event is ordered after all that it has to stay behind.
LEMMA OrderedAfter ==
  ASSUME NEW E \in Nat, NEW c \in [0 .. E -> Int], NEW d \in [0 .. E -> Nat],
         NEW m \in Machines, NEW o, NEW H, Remembers(m, o, H), Covers(m, o, H, c, d),
         \A p \in H : p[1] \in 0 .. E /\ LegalEvent(p[2]),
         NEW node \in 0 .. E, NEW e, LegalEvent(e), e.object = o,
         \A f \in SourcesFor(m, e) : Ends(c, d, f, node),
         NEW p \in H, p[2].object = o, Apart(p[2], e)
  PROVE  Ends(c, d, p[1], node)
<1>1. ASSUME NEW f, UpToNode(c, d, p[1], f), f = m.default \/ \E k \in EventKinds : f \in m.run[k],
             f \in SourcesFor(m, e)
      PROVE  Ends(c, d, p[1], node)
  <2>1. f \in 0 .. E
    <3>1. \E r \in H : r[1] = f
      BY <1>1 DEF Remembers
    <3> QED BY <3>1
  <2> QED BY <1>1, <2>1, UpToNext
<1>0. \A f \in DefaultSources(m) : f = m.default \/ \E k \in EventKinds : f \in m.run[k]
  BY DEF DefaultSources, Machines, AnyKind
<1>2. CASE e.event = "default"
  <2>1. PICK f \in DefaultSources(m) : UpToNode(c, d, p[1], f)
    BY DEF Covers
  <2> QED BY <1>0, <1>1, <1>2, <2>1 DEF SourcesFor
<1>3. CASE e.event \in EventKinds
  <2>0. /\ SourcesFor(m, e) = RotationSources(m, e.event, e.commutes)
        /\ m.default \in SourcesFor(m, e)
    BY <1>3 DEF SourcesFor, RotationSources, EventKinds, AnyKind
  <2>1. CASE p[2].event = "default"
    <3>1. UpToNode(c, d, p[1], m.default)
      BY <2>1 DEF Covers
    <3> QED BY <1>1, <2>0, <3>1
  <2>2. CASE p[2].event \in EventKinds /\ p[2].event # e.event
    <3>1. PICK f \in m.run[p[2].event] \cup {m.default} : UpToNode(c, d, p[1], f)
      BY <2>2 DEF Covers
    <3>2. p[2].event \in Opposite(e.event)
      <4>1. KindOf(p[2].event, o) /\ KindOf(e.event, o)
        BY DEF LegalEvent
      <4>2. ~(p[2].event \in {"x", "z"} /\ e.event = "read") /\ ~(e.event \in {"x", "z"} /\ p[2].event = "read")
        BY <4>1 DEF KindOf, Qubit, Breg
      <4> QED BY <1>3, <2>2, <4>2 DEF EventKinds, Opposite, AnyKind
    <3>3. m.run[p[2].event] \subseteq SourcesFor(m, e)
      BY <2>0, <3>2 DEF RotationSources
    <3>4. f = m.default \/ \E k \in EventKinds : f \in m.run[k]
      BY <2>2, <3>1
    <3> QED BY <1>1, <2>0, <3>1, <3>3, <3>4
  <2>3. CASE p[2].event = e.event /\ m.last # e.event
    <3>1. PICK f \in DefaultSources(m) : UpToNode(c, d, p[1], f)
      BY DEF Covers
    <3>2. CASE m.last = "default"
      <4>1. f = m.default
        BY <3>1, <3>2 DEF DefaultSources
      <4> QED BY <1>1, <2>0, <3>1, <4>1
    <3>3. CASE m.last # "default"
      <4>1. KindOf(m.last, o) /\ KindOf(e.event, o)
        BY DEF Remembers, LegalEvent
      <4>2. ~(m.last \in {"x", "z"} /\ e.event = "read") /\ ~(e.event \in {"x", "z"} /\ m.last = "read")
        BY <4>1 DEF KindOf, Qubit, Breg
      <4>3. m.last \in Opposite(e.event)
        BY <1>3, <2>3, <3>3, <4>2 DEF Machines, EventKinds, Opposite, AnyKind
      <4>4. m.run[m.last] \subseteq SourcesFor(m, e) /\ DefaultSources(m) = m.run[m.last]
        BY <2>0, <3>3, <4>3 DEF RotationSources, DefaultSources
      <4> QED BY <1>0, <1>1, <3>1, <4>4
    <3> QED BY <3>2, <3>3
  <2>4. CASE p[2].event = e.event /\ m.last = e.event
    <3>1. PICK f \in m.run[e.event] \cup {m.default} : UpToNode(c, d, p[1], f)
      BY <1>3, <2>4 DEF Covers
    <3>2. m.run[e.event] \subseteq SourcesFor(m, e)
      BY <2>0, <2>4 DEF RotationSources, Apart
    <3>3. f = m.default \/ \E k \in EventKinds : f \in m.run[k]
      BY <1>3, <3>1
    <3> QED BY <1>1, <2>0, <3>1, <3>2, <3>3
  <2> QED BY <2>1, <2>2, <2>3, <2>4 DEF LegalEvent
<1> QED BY <1>2, <1>3 DEF LegalEvent

\* The machine that the event is for keeps account of it and of all before it.
LEMMA MachineRemembers ==
  ASSUME NEW m \in Machines, NEW o, NEW H, Remembers(m, o, H),
         NEW node \in Nat, NEW e, LegalEvent(e), e.object = o
  PROVE  /\ MachineAfter(m, node, e) \in Machines
         /\ Remembers(MachineAfter(m, node, e), o, H \cup {<<node, e>>})
<1> DEFINE n == MachineAfter(m, node, e)
           J == H \cup {<<node, e>>}
           new == <<node, e>>
<1>1. new \in J /\ new[1] = node /\ new[2] = e
  OBVIOUS
<1>2. CASE e.event = "default"
  <2>1. n = [m EXCEPT !.default = node, !.last = "default"]
    BY <1>2 DEF MachineAfter
  <2>2. n \in Machines /\ n.last = "default" /\ n.default = node /\ n.run = m.run
    BY <2>1 DEF Machines, AnyKind
  <2>3. KindOf(n.last, o)
    BY <2>2 DEF KindOf
  <2>4. \A kind \in EventKinds : \A i \in n.run[kind] : \E p \in J : p[1] = i /\ p[2].object = o /\ p[2].event = kind
    BY <2>2 DEF Remembers
  <2> HIDE DEF J, new, n
  <2> QED BY <1>1, <1>2, <2>2, <2>3, <2>4 DEF Remembers, n, J
<1>3. CASE e.event \in EventKinds /\ e.event # "default"
  <2>1. n = [m EXCEPT !.last = e.event,
                      !.run[e.event] = (IF m.last = e.event THEN @ ELSE {}) \cup {node}]
    BY <1>3 DEF MachineAfter
  <2>2. /\ n \in Machines /\ n.last = e.event /\ n.default = m.default
        /\ n.run[e.event] \subseteq m.run[e.event] \cup {node}
        /\ \A kind \in EventKinds \ {e.event} : n.run[kind] = m.run[kind]
    <3> DEFINE r == (IF m.last = e.event THEN m.run[e.event] ELSE {}) \cup {node}
    <3>1. r \in SUBSET Nat /\ r \subseteq m.run[e.event] \cup {node}
      BY <1>3 DEF Machines, AnyKind
    <3>2. n = [m EXCEPT !.last = e.event, !.run[e.event] = r]
      BY <2>1
    <3> HIDE DEF r, n
    <3>3. /\ n.last = e.event /\ n.default = m.default /\ n.run[e.event] = r
          /\ n.run = [m.run EXCEPT ![e.event] = r]
          /\ n \in Machines
      BY <1>3, <3>1, <3>2 DEF Machines, AnyKind
    <3> QED BY <1>3, <3>1, <3>3 DEF Machines, AnyKind
  <2>3. KindOf(n.last, o)
    BY <2>2 DEF LegalEvent
  <2>4. \A kind \in EventKinds : \A i \in n.run[kind] : \E p \in J : p[1] = i /\ p[2].object = o /\ p[2].event = kind
    <3> SUFFICES ASSUME NEW kind \in EventKinds, NEW i \in n.run[kind]
                 PROVE  \E p \in J : p[1] = i /\ p[2].object = o /\ p[2].event = kind
      OBVIOUS
    <3>1. CASE i \in m.run[kind]
      BY <3>1 DEF Remembers
    <3>2. CASE i \notin m.run[kind]
      <4>1. kind = e.event /\ i = node
        BY <1>3, <2>2, <3>2
      <4> QED BY <1>1, <4>1
    <3> QED BY <3>1, <3>2
  <2>5. \E p \in J : p[1] = n.default /\ p[2].object = o /\ p[2].event = "default"
    BY <2>2 DEF Remembers
  <2> HIDE DEF J, new, n
  <2> QED BY <2>2, <2>3, <2>4, <2>5 DEF Remembers, n, J
<1> QED BY <1>2, <1>3 DEF LegalEvent, EventKinds, AnyKind

LEMMA MachineCovers ==
  ASSUME NEW E \in Nat, NEW c \in [0 .. E -> Int], NEW d \in [0 .. E -> Nat],
         NEW m \in Machines, NEW o, NEW H, Remembers(m, o, H), Covers(m, o, H, c, d),
         \A p \in H : p[1] \in 0 .. E /\ LegalEvent(p[2]),
         NEW node \in 0 .. E, NEW e, LegalEvent(e), e.object = o,
         \A f \in SourcesFor(m, e) : Ends(c, d, f, node)
  PROVE  Covers(MachineAfter(m, node, e), o, H \cup {<<node, e>>}, c, d)
<1> DEFINE n == MachineAfter(m, node, e)
           new == <<node, e>>
<1>1. new[1] = node /\ new[2] = e
  OBVIOUS
<1>2. UpToNode(c, d, node, node)
  BY DEF UpToNode
<1>3. ASSUME NEW f \in 0 .. E, NEW a \in 0 .. E, UpToNode(c, d, a, f), f \in SourcesFor(m, e)
      PROVE  UpToNode(c, d, a, node)
  BY <1>3, UpToNext DEF UpToNode
<1>4. ASSUME NEW p \in H, p[2].object = o, Apart(p[2], e)
      PROVE  UpToNode(c, d, p[1], node)
  BY <1>4, OrderedAfter DEF UpToNode
<1>5. CASE e.event = "default"
  <2>1. n = [m EXCEPT !.default = node, !.last = "default"]
    BY <1>5 DEF MachineAfter
  <2>2. n.last = "default" /\ n.default = node /\ DefaultSources(n) = {node}
    BY <2>1 DEF Machines, DefaultSources, AnyKind
  <2>3. \A p \in H : p[2].object = o => UpToNode(c, d, p[1], node)
    <3>1. \A p \in H : Apart(p[2], e)
      BY <1>5 DEF Apart, LegalEvent, EventKinds, AnyKind
    <3> QED BY <1>4, <3>1
  <2> HIDE DEF n
  <2>4. \A p \in H \cup {new} : p[2].object = o => UpToNode(c, d, p[1], node)
    BY <1>1, <1>2, <2>3
  <2> HIDE DEF new
  <2> QED BY <2>2, <2>4 DEF Covers, n, new
<1>6. CASE e.event \in EventKinds /\ e.event # "default"
  <2>1. n = [m EXCEPT !.last = e.event,
                      !.run[e.event] = (IF m.last = e.event THEN @ ELSE {}) \cup {node}]
    BY <1>6 DEF MachineAfter
  <2>2. /\ n.last = e.event /\ n.default = m.default
        /\ n.run[e.event] = (IF m.last = e.event THEN m.run[e.event] ELSE {}) \cup {node}
        /\ \A kind \in EventKinds \ {e.event} : n.run[kind] = m.run[kind]
    BY <1>6, <2>1 DEF Machines, AnyKind
  <2>3. DefaultSources(n) = n.run[e.event] /\ node \in n.run[e.event]
    BY <1>6, <2>2 DEF DefaultSources
  <2> HIDE DEF n
  <2>4. ASSUME NEW p \in H, p[2].object = o
        PROVE  \E f \in n.run[e.event] : UpToNode(c, d, p[1], f)
    <3>1. CASE m.last = e.event
      <4>1. PICK f \in DefaultSources(m) : UpToNode(c, d, p[1], f)
        BY <2>4 DEF Covers
      <4>2. f \in n.run[e.event]
        BY <1>6, <2>2, <3>1, <4>1 DEF DefaultSources
      <4> QED BY <4>1, <4>2
    <3>2. CASE m.last # e.event
      <4>1. CASE Apart(p[2], e)
        BY <1>4, <2>3, <2>4, <4>1
      <4>2. CASE p[2].event = e.event
        \* The run that p belongs to is over.
        <5>1. PICK f \in DefaultSources(m) : UpToNode(c, d, p[1], f)
          BY <2>4 DEF Covers
        <5>2. f \in SourcesFor(m, e)
          <6>1. KindOf(m.last, o) /\ KindOf(e.event, o)
            BY DEF Remembers, LegalEvent
          <6>2. ~(m.last \in {"x", "z"} /\ e.event = "read") /\ ~(e.event \in {"x", "z"} /\ m.last = "read")
            BY <6>1 DEF KindOf, Qubit, Breg
          <6>3. m.last = "default" \/ m.last \in Opposite(e.event)
            BY <1>6, <3>2, <6>2 DEF Machines, EventKinds, Opposite, AnyKind
          <6>4. SourcesFor(m, e) = RotationSources(m, e.event, e.commutes)
            BY <1>6 DEF SourcesFor
          <6> QED BY <5>1, <6>3, <6>4 DEF RotationSources, DefaultSources
        <5>3. f \in 0 .. E
          <6>1. f = m.default \/ \E k \in EventKinds : f \in m.run[k]
            BY <5>1 DEF DefaultSources, Machines, AnyKind
          <6>2. \E r \in H : r[1] = f
            BY <6>1 DEF Remembers
          <6> QED BY <6>2
        <5> QED BY <1>3, <2>3, <5>1, <5>2, <5>3
      <4> QED BY <4>1, <4>2 DEF Apart
    <3> QED BY <3>1, <3>2
  <2>5. ASSUME NEW p \in H, p[2].object = o
        PROVE  /\ \E f \in DefaultSources(n) : UpToNode(c, d, p[1], f)
               /\ p[2].event = "default" => UpToNode(c, d, p[1], n.default)
               /\ p[2].event \in EventKinds =>
                    \E f \in n.run[p[2].event] \cup {n.default} : UpToNode(c, d, p[1], f)
    <3>1. \E f \in DefaultSources(n) : UpToNode(c, d, p[1], f)
      BY <2>3, <2>4, <2>5
    <3>2. p[2].event = "default" => UpToNode(c, d, p[1], n.default)
      BY <2>2, <2>5 DEF Covers
    <3>3. CASE p[2].event = e.event
      BY <1>6, <2>4, <2>5, <3>1, <3>3
    <3>4. CASE p[2].event # e.event
      BY <2>2, <2>5, <3>1, <3>2, <3>4 DEF Covers
    <3> QED BY <3>1, <3>2, <3>3, <3>4
  <2>6. /\ \E f \in DefaultSources(n) : UpToNode(c, d, new[1], f)
        /\ new[2].event # "default"
        /\ new[2].event \in EventKinds =>
             \E f \in n.run[new[2].event] \cup {n.default} : UpToNode(c, d, new[1], f)
    BY <1>1, <1>2, <1>6, <2>3
  <2> HIDE DEF new
  <2>7. Covers(n, o, H \cup {new}, c, d)
    BY <2>5, <2>6 DEF Covers
  <2> QED BY <2>7 DEF n, new
<1> QED BY <1>5, <1>6 DEF LegalEvent, EventKinds, AnyKind

-----------------------------------------------------------------------------
(* The graph of a history.                                                 *)

LegalHistory(H, n) == \A p \in H : p[1] \in 0 .. n /\ LegalEvent(p[2])

\* Every arc orders two events that have to be.
GraphHolds(g, H) ==
  /\ g.machine \in [Objects -> Machines]
  /\ \A o \in Objects : Remembers(g.machine[o], o, H)
  /\ \A a \in g.arcs : \E p, r \in H :
       /\ a = <<p[1], r[1]>> /\ p[1] <= r[1] /\ 1 <= r[1]
       /\ p[2].object = r[2].object /\ Apart(p[2], r[2])

\* Cycles that respect the arcs order all events that have to be.
InOrderOf(H, c, d) ==
  \A p, r \in H :
    p[1] < r[1] /\ p[2].object = r[2].object /\ Apart(p[2], r[2]) => Ends(c, d, p[1], r[1])

Forces(g, H, c, d) ==
  Respects(c, d, g.arcs) =>
    /\ \A o \in Objects : Covers(g.machine[o], o, H, c, d)
    /\ InOrderOf(H, c, d)

LEMMA NewEventParts ==
  ASSUME NEW g, NEW node, NEW e, e.object \in Objects, g.machine \in [Objects -> Machines],
         MachineAfter(g.machine[e.object], node, e) \in Machines
  PROVE  LET h == NewEvent(g, node, e)  m == g.machine[e.object]
         IN /\ h.arcs = g.arcs \cup {<<f, node>> : f \in SourcesFor(m, e)}
            /\ h.machine \in [Objects -> Machines]
            /\ h.machine[e.object] = MachineAfter(m, node, e)
            /\ \A o \in Objects \ {e.object} : h.machine[o] = g.machine[o]
<1> DEFINE m == g.machine[e.object]
           after == MachineAfter(m, node, e)
           sources == SourcesFor(m, e)
<1>1. NewEvent(g, node, e) = [machine |-> [g.machine EXCEPT ![e.object] = after],
                              arcs    |-> g.arcs \cup (sources \X {node})]
  BY DEF NewEvent, MachineAfter, SourcesFor
<1>2. sources \X {node} = {<<f, node>> : f \in sources}
  OBVIOUS
<1> HIDE DEF after, sources
<1>3. [g.machine EXCEPT ![e.object] = after] \in [Objects -> Machines]
  BY DEF after, m
<1> QED BY <1>1, <1>2, <1>3 DEF after, sources

LEMMA EventStep ==
  ASSUME NEW g, NEW H, NEW node \in Nat \ {0}, LegalHistory(H, node), GraphHolds(g, H),
         NEW e, LegalEvent(e)
  PROVE  LET h == NewEvent(g, node, e)  J == H \cup {<<node, e>>}
         IN /\ LegalHistory(J, node) /\ GraphHolds(h, J)
            /\ \A E \in Nat : node <= E =>
                 \A c \in [0 .. E -> Int], d \in [0 .. E -> Nat] :
                   Forces(g, H, c, d) => Forces(h, J, c, d)
<1> DEFINE h == NewEvent(g, node, e)
           new == <<node, e>>
           J == H \cup {new}
           o == e.object
           m == g.machine[o]
<1>1. new[1] = node /\ new[2] = e /\ new \in J /\ H \subseteq J
  OBVIOUS
<1>2. o \in Objects /\ m \in Machines /\ Remembers(m, o, H)
  BY DEF LegalEvent, GraphHolds
<1>3. MachineAfter(m, node, e) \in Machines /\ Remembers(MachineAfter(m, node, e), o, J)
  BY <1>2, MachineRemembers
<1>4. /\ h.arcs = g.arcs \cup {<<f, node>> : f \in SourcesFor(m, e)}
      /\ h.machine \in [Objects -> Machines]
      /\ h.machine[o] = MachineAfter(m, node, e)
      /\ \A u \in Objects \ {o} : h.machine[u] = g.machine[u]
  BY <1>2, <1>3, NewEventParts DEF GraphHolds
<1> HIDE DEF h, J, new
<1>5. LegalHistory(J, node)
  BY <1>1 DEF LegalHistory, J
<1>6. ASSUME NEW f \in SourcesFor(m, e)
      PROVE  \E p \in H : p[1] = f /\ p[2].object = o /\ Apart(p[2], e)
  <2>1. CASE e.event = "default"
    <3>1. CASE m.last = "default"
      <4>1. f = m.default /\ ~e.commutes
        BY <1>6, <2>1, <3>1 DEF SourcesFor, DefaultSources, LegalEvent, EventKinds, AnyKind
      <4> QED BY <1>2, <4>1 DEF Remembers, Apart
    <3>2. CASE m.last # "default"
      <4>1. m.last \in EventKinds /\ f \in m.run[m.last]
        BY <1>2, <1>6, <2>1, <3>2 DEF SourcesFor, DefaultSources, Machines, AnyKind
      <4>2. PICK p \in H : p[1] = f /\ p[2].object = o /\ p[2].event = m.last
        BY <1>2, <4>1 DEF Remembers
      <4> QED BY <2>1, <3>2, <4>2 DEF Apart
    <3> QED BY <3>1, <3>2
  <2>2. CASE e.event \in EventKinds
    <3>1. f \in RotationSources(m, e.event, e.commutes)
      BY <1>6, <2>2 DEF SourcesFor, EventKinds, AnyKind
    <3>2. CASE f = m.default
      <4>1. PICK p \in H : p[1] = f /\ p[2].object = o /\ p[2].event = "default"
        BY <1>2, <3>2 DEF Remembers
      <4> QED BY <2>2, <4>1 DEF Apart, EventKinds, AnyKind
    <3>3. CASE f \in m.run[e.event] /\ ~e.commutes
      BY <1>2, <2>2, <3>3 DEF Remembers, Apart
    <3>4. CASE \E k \in Opposite(e.event) : f \in m.run[k]
      <4>1. PICK k \in Opposite(e.event) : f \in m.run[k]
        BY <3>4
      <4>2. k \in EventKinds /\ k # e.event
        BY <2>2, <4>1 DEF Opposite, EventKinds, AnyKind
      <4>3. PICK p \in H : p[1] = f /\ p[2].object = o /\ p[2].event = k
        BY <1>2, <4>1, <4>2 DEF Remembers
      <4> QED BY <4>2, <4>3 DEF Apart
    <3> QED BY <3>1, <3>2, <3>3, <3>4 DEF RotationSources
  <2> QED BY <2>1, <2>2 DEF LegalEvent
<1>7. GraphHolds(h, J)
  <2>1. \A u \in Objects : Remembers(h.machine[u], u, J)
    <3> SUFFICES ASSUME NEW u \in Objects, u # o PROVE Remembers(h.machine[u], u, J)
      BY <1>3, <1>4
    <3>1. Remembers(g.machine[u], u, H)
      BY DEF GraphHolds
    <3> QED BY <1>1, <1>4, <3>1 DEF Remembers
  <2>2. ASSUME NEW a \in h.arcs
        PROVE  \E p, r \in J : /\ a = <<p[1], r[1]>> /\ p[1] <= r[1] /\ 1 <= r[1]
                               /\ p[2].object = r[2].object /\ Apart(p[2], r[2])
    <3>1. CASE a \in g.arcs
      <4>1. PICK p \in H, r \in H : /\ a = <<p[1], r[1]>> /\ p[1] <= r[1] /\ 1 <= r[1]
                                    /\ p[2].object = r[2].object /\ Apart(p[2], r[2])
        BY <3>1 DEF GraphHolds
      <4> QED BY <1>1, <4>1
    <3>2. CASE \E f \in SourcesFor(m, e) : a = <<f, node>>
      <4>1. PICK p \in H : a = <<p[1], node>> /\ p[2].object = o /\ Apart(p[2], e)
        BY <1>6, <3>2
      <4>2. p[1] <= node /\ 1 <= node
        BY DEF LegalHistory
      <4> QED BY <1>1, <4>1, <4>2
    <3> QED BY <1>4, <3>1, <3>2
  <2> QED BY <1>4, <2>1, <2>2 DEF GraphHolds
<1>8. ASSUME NEW E \in Nat, node <= E, NEW c \in [0 .. E -> Int], NEW d \in [0 .. E -> Nat],
             Forces(g, H, c, d), Respects(c, d, h.arcs)
      PROVE  (\A u \in Objects : Covers(h.machine[u], u, J, c, d)) /\ InOrderOf(J, c, d)
  <2>1. Respects(c, d, g.arcs) /\ \A f \in SourcesFor(m, e) : Ends(c, d, f, node)
    <3>1. \A f \in SourcesFor(m, e) : <<f, node>> \in h.arcs /\ <<f, node>>[1] = f /\ <<f, node>>[2] = node
      BY <1>4
    <3> QED BY <1>4, <1>8, <3>1 DEF Respects
  <2>2. (\A u \in Objects : Covers(g.machine[u], u, H, c, d)) /\ InOrderOf(H, c, d)
    BY <1>8, <2>1 DEF Forces
  <2>3. node \in 0 .. E /\ \A p \in H : p[1] \in 0 .. E /\ LegalEvent(p[2])
    BY <1>8 DEF LegalHistory
  <2>4. Covers(m, o, H, c, d)
    BY <1>2, <2>2
  <2>5. Covers(h.machine[o], o, J, c, d)
    <3>1. e.object = o
      OBVIOUS
    <3> HIDE DEF o, m
    <3>2. Covers(MachineAfter(m, node, e), o, H \cup {<<node, e>>}, c, d)
      BY <1>2, <2>1, <2>3, <2>4, <3>1, MachineCovers
    <3> QED BY <1>4, <3>2 DEF J, new
  <2>6. ASSUME NEW u \in Objects, u # o PROVE Covers(h.machine[u], u, J, c, d)
    <3>1. Covers(g.machine[u], u, H, c, d) /\ h.machine[u] = g.machine[u]
      BY <1>4, <2>2, <2>6
    <3>2. \A p \in J : p[2].object = u => p \in H
      BY <1>1, <2>6 DEF J
    <3> QED BY <3>1, <3>2 DEF Covers
  <2>7. ASSUME NEW p \in J, NEW r \in J, p[1] < r[1], p[2].object = r[2].object, Apart(p[2], r[2])
        PROVE  Ends(c, d, p[1], r[1])
    <3>1. CASE p \in H /\ r \in H
      BY <2>2, <2>7, <3>1 DEF InOrderOf
    <3>2. CASE p \in H /\ r = new
      <4>1. p[2].object = o /\ Apart(p[2], e)
        BY <1>1, <2>7, <3>2
      <4> QED BY <1>1, <1>2, <2>1, <2>3, <2>4, <3>2, <4>1, OrderedAfter
    <3>3. CASE p = new
      <4>1. r[1] <= node
        BY <1>1 DEF LegalHistory, J
      <4>2. r[1] \in Int
        BY <1>5 DEF LegalHistory
      <4> QED BY <1>1, <2>7, <3>3, <4>1, <4>2
    <3> QED BY <3>1, <3>2, <3>3 DEF J
  <2> QED BY <2>5, <2>6, <2>7 DEF InOrderOf
<1> HIDE DEF o, m
<1>9. \A E \in Nat : node <= E =>
        \A c \in [0 .. E -> Int], d \in [0 .. E -> Nat] : Forces(g, H, c, d) => Forces(h, J, c, d)
  BY <1>8 DEF Forces
<1> QED BY <1>5, <1>7, <1>9 DEF h, J, new

\* All events of a node.
Marked(node, events) == {<<node, events[i]>> : i \in DOMAIN events}

LEMMA EventsAdded ==
  ASSUME NEW g, NEW H, NEW node \in Nat \ {0}, LegalHistory(H, node), GraphHolds(g, H),
         NEW events, events \in Seq({events[i] : i \in DOMAIN events}),
         \A i \in DOMAIN events : LegalEvent(events[i])
  PROVE  LET h == AllEvents(g, node, events)
             J == H \cup Marked(node, events)
         IN /\ LegalHistory(J, node) /\ GraphHolds(h, J)
            /\ \A E \in Nat : node <= E =>
                 \A c \in [0 .. E -> Int], d \in [0 .. E -> Nat] :
                   Forces(g, H, c, d) => Forces(h, J, c, d)
<1> DEFINE N == Len(events)
           K(j) == H \cup {<<node, events[i]>> : i \in 1 .. j}
           Grows(h, J) == \A E \in Nat : node <= E =>
                            \A c \in [0 .. E -> Int], d \in [0 .. E -> Nat] :
                              Forces(g, H, c, d) => Forces(h, J, c, d)
           h == AllEvents(g, node, events)
<1>1. N \in Nat /\ DOMAIN events = 1 .. N
  OBVIOUS
<1>2. PICK gs : /\ gs[0] = g
                /\ \A j \in 1 .. N : gs[j] = NewEvent(gs[j - 1], node, events[j])
                /\ h = gs[N]
  <2> HIDE DEF N
  <2>1. \E gs : OnTheWay(gs, g, node, events, N)
    BY <1>1, EventSteps
  <2> QED BY <2>1 DEF OnTheWay
<1> HIDE DEF N, h
<1> DEFINE P(j) == LegalHistory(K(j), node) /\ GraphHolds(gs[j], K(j)) /\ Grows(gs[j], K(j))
           B == {j \in 0 .. N : ~P(j)}
<1>3. P(0)
  <2>1. 1 .. 0 = {}
    OBVIOUS
  <2>2. K(0) = H
    BY <2>1
  <2>3. Grows(g, H)
    OBVIOUS
  <2> HIDE DEF Grows, K
  <2> QED BY <1>2, <2>2, <2>3
<1>4. ASSUME NEW j \in 1 .. N, P(j - 1) PROVE P(j)
  <2>1. K(j) = K(j - 1) \cup {<<node, events[j]>>}
    <3>1. \A i : i \in 1 .. j <=> i \in 1 .. j - 1 \/ i = j
      BY <1>1
    <3> QED BY <3>1
  <2>2. gs[j] = NewEvent(gs[j - 1], node, events[j]) /\ LegalEvent(events[j])
    BY <1>1, <1>2
  <2> DEFINE before == gs[j - 1]  earlier == K(j - 1)
  <2>3. LegalHistory(earlier, node) /\ GraphHolds(before, earlier) /\ Grows(before, earlier)
    BY <1>4
  <2> HIDE DEF K, before, earlier
  <2>4. /\ LegalHistory(K(j), node) /\ GraphHolds(gs[j], K(j))
        /\ \A E \in Nat : node <= E =>
             \A c \in [0 .. E -> Int], d \in [0 .. E -> Nat] :
               Forces(before, earlier, c, d) => Forces(gs[j], K(j), c, d)
    <3> DEFINE h2 == NewEvent(before, node, events[j])  J2 == earlier \cup {<<node, events[j]>>}
    <3>1. /\ LegalHistory(J2, node) /\ GraphHolds(h2, J2)
          /\ \A E \in Nat : node <= E =>
               \A c \in [0 .. E -> Int], d \in [0 .. E -> Nat] :
                 Forces(before, earlier, c, d) => Forces(h2, J2, c, d)
      BY <2>2, <2>3, EventStep
    <3>2. h2 = gs[j] /\ J2 = K(j)
      BY <2>1, <2>2 DEF before, earlier
    <3> HIDE DEF h2, J2
    <3> QED BY <3>1, <3>2
  <2> QED BY <2>3, <2>4
<1>5. B = {}
  <2> SUFFICES ASSUME B # {} PROVE FALSE
    OBVIOUS
  <2>1. PICK j \in B : \A y \in B : j <= y
    <3>1. B \in SUBSET (0 .. N)
      OBVIOUS
    <3> HIDE DEF B
    <3> QED BY <1>1, <3>1, FirstAndLast
  <2>2. j \in 0 .. N /\ ~P(j)
    OBVIOUS
  <2> HIDE DEF P
  <2>3. j # 0 /\ j \in 1 .. N /\ j - 1 \in 0 .. N /\ ~(j <= j - 1)
    BY <1>1, <1>3, <2>2
  <2>4. j - 1 \notin B
    <3> HIDE DEF B
    <3> QED BY <2>1, <2>3
  <2>5. P(j - 1)
    BY <2>3, <2>4
  <2> QED BY <1>4, <2>2, <2>3, <2>5
<1>6. P(N)
  <2> HIDE DEF P
  <2> QED BY <1>1, <1>5
<1>7. K(N) = H \cup Marked(node, events)
  BY <1>1 DEF Marked
<1> HIDE DEF K
<1> QED BY <1>2, <1>6, <1>7 DEF h

-----------------------------------------------------------------------------
(* The events of gates are legal.                                          *)

Commutation(o) == {o.multi, o.single, TRUE, FALSE}

Events(o) ==
  {e \in [object : Objects, event : AnyKind, commutes : Commutation(o)] : LegalEvent(e)}

\* Nothing commutes with a default.
Suits(kind, commutes) == kind = "default" => ~commutes

LEMMA AllSuit ==
  ASSUME NEW o, NEW commutes
  PROVE  /\ o.multi \in Commutation(o) /\ o.single \in Commutation(o)
         /\ TRUE \in Commutation(o) /\ FALSE \in Commutation(o)
         /\ \A kind \in EventKinds : Suits(kind, commutes) /\ kind \in AnyKind
         /\ Suits("default", FALSE) /\ "default" \in AnyKind
<1>1. /\ o.multi \in Commutation(o) /\ o.single \in Commutation(o)
      /\ TRUE \in Commutation(o) /\ FALSE \in Commutation(o)
  BY Zenon DEF Commutation
<1>2. (\A kind \in EventKinds : Suits(kind, commutes)) /\ Suits("default", FALSE)
  <2>1. \A kind \in EventKinds : Suits(kind, commutes)
    BY DEF Suits, EventKinds, AnyKind
  <2>2. Suits("default", FALSE)
    BY SMT DEF Suits
  <2> QED BY <2>1, <2>2
<1> QED BY <1>1, <1>2 DEF AnyKind

LEMMA OnEachLegal ==
  ASSUME NEW o, NEW objects \in Seq(Objects), NEW kind, NEW commutes \in Commutation(o),
         kind \in AnyKind, Suits(kind, commutes),
         \A i \in DOMAIN objects : KindOf(kind, objects[i])
  PROVE  /\ OnEach(objects, kind, commutes) \in Seq(Events(o))
         /\ DOMAIN OnEach(objects, kind, commutes) = DOMAIN objects
         /\ \A i \in DOMAIN objects : OnEach(objects, kind, commutes)[i] =
              [object |-> objects[i], event |-> kind, commutes |-> commutes]
<1> DEFINE event(i) == [object |-> objects[i], event |-> kind, commutes |-> commutes]
<1>1. \A i \in DOMAIN objects : event(i) \in Events(o)
  BY DEF Events, LegalEvent, Suits, AnyKind
<1>2. OnEach(objects, kind, commutes) = [i \in DOMAIN objects |-> event(i)]
  BY DEF OnEach
<1>3. DOMAIN objects = 1 .. Len(objects) /\ Len(objects) \in Nat
  OBVIOUS
<1> HIDE DEF event
<1>4. [i \in DOMAIN objects |-> event(i)] \in Seq(Events(o))
  BY <1>1, <1>3
<1> QED BY <1>2, <1>4 DEF event

\* Every object is in the list of all.
LEMMA AllOfThem ==
  AllObjects \in Seq(Objects) /\ \A o \in Objects : \E i \in DOMAIN AllObjects : AllObjects[i] = o
<1> DEFINE K == Cardinality(Objects)
           Fits(f) == f \in [1 .. K -> Objects] /\ IsInjective(f)
<1>1. IsFiniteSet(Objects) /\ K \in Nat /\ ExistsBijection(1 .. K, Objects)
  BY DurationAssumption, FS_CardinalityType
<1>2. PICK f : f \in Bijection(1 .. K, Objects)
  BY <1>1 DEF ExistsBijection
<1>3. Fits(f)
  BY <1>2 DEF Bijection, Injection, IsInjective
<1>4. AllObjects = CHOOSE list : Fits(list)
  BY DEF AllObjects, SetToSeq
<1>5. Fits(AllObjects)
  <2> HIDE DEF Fits
  <2> QED BY <1>3, <1>4
<1>6. AllObjects \in Injection(1 .. K, Objects)
  BY <1>5 DEF Injection
<1>7. IsFiniteSet(1 .. K) /\ Cardinality(1 .. K) = K
  BY <1>1, FS_Interval
<1>8. AllObjects \in Surjection(1 .. K, Objects)
  BY <1>1, <1>6, <1>7, FS_Injection
<1> QED BY <1>1, <1>5, <1>8 DEF Surjection

Holds(list, part) == \A j \in DOMAIN part : \E i \in DOMAIN list : list[i] = part[j]

LEMMA Concatenated ==
  ASSUME NEW S, NEW s \in Seq(S), NEW t \in Seq(S)
  PROVE  /\ s \o t \in Seq(S)
         /\ Holds(s \o t, s) /\ Holds(s \o t, t)
<1>1. s \o t \in Seq(S) /\ DOMAIN (s \o t) = 1 .. Len(s) + Len(t)
  OBVIOUS
<1>2. \A j \in DOMAIN s : j \in 1 .. Len(s) + Len(t) /\ (s \o t)[j] = s[j]
  OBVIOUS
<1>3. \A j \in DOMAIN t : Len(s) + j \in 1 .. Len(s) + Len(t) /\ (s \o t)[Len(s) + j] = t[j]
  OBVIOUS
<1> QED BY <1>1, <1>2, <1>3 DEF Holds

IsGate(gate) == HasOperands(gate) /\ gate.operands \in Seq(Qubits)

\* What init() does to the operands touches every qubit; a wait does not commute with anything.
TouchesAll(gate, events) ==
  ~IsClassical(gate) => \A q \in ToSet(gate.operands) : \E i \in DOMAIN events :
    events[i].object = Qubit(q) /\ (IsWait(gate) => events[i].event = "default")

LEMMA SignatureLegal ==
  ASSUME NEW gate, IsGate(gate), NEW o
  PROVE  Signature(gate, o) \in Seq(Events(o)) /\ TouchesAll(gate, Signature(gate, o))
<1> DEFINE n == Len(gate.operands)
           objects == QubitsOf(gate) \o CregsOf(gate) \o BregsOf(gate)
           touched(list) == \A q \in ToSet(gate.operands) : \E i \in DOMAIN list : list[i] = Qubit(q)
<1>1. /\ n \in Nat /\ DOMAIN gate.operands = 1 .. n /\ DOMAIN QubitsOf(gate) = 1 .. n
      /\ QubitsOf(gate) \in Seq(Objects) /\ CregsOf(gate) \in Seq(Objects) /\ BregsOf(gate) \in Seq(Objects)
      /\ \A i \in 1 .. n : QubitsOf(gate)[i] = Qubit(gate.operands[i]) /\ QubitsOf(gate)[i] \in Objects
  <2>1. /\ QubitsOf(gate) \in Seq(Objects) /\ CregsOf(gate) \in Seq(Objects) /\ BregsOf(gate) \in Seq(Objects)
        /\ gate.operands \in Seq(Qubits)
    BY DEF IsGate, HasOperands
  <2>2. /\ DOMAIN QubitsOf(gate) = DOMAIN gate.operands
        /\ \A i \in DOMAIN gate.operands : QubitsOf(gate)[i] = Qubit(gate.operands[i])
    BY DEF QubitsOf
  <2>3. \A i \in DOMAIN QubitsOf(gate) : QubitsOf(gate)[i] \in Objects
    BY <2>1
  <2> QED BY <2>1, <2>2, <2>3
<1> HIDE DEF n
<1>0. FALSE \in Commutation(o) /\ Suits("default", FALSE) /\ "default" \in AnyKind
  BY AllSuit DEF AnyKind
<1>2. \A objs : \A kind : KindOf("default", objs[kind])
  BY DEF KindOf
<1>3. \A i \in 1 .. n : KindOf("z", QubitsOf(gate)[i]) /\ KindOf("x", QubitsOf(gate)[i])
  BY <1>1 DEF KindOf
<1>4. ASSUME NEW objs \in Seq(Objects), touched(objs), NEW kind, NEW commutes \in Commutation(o),
             kind \in AnyKind, Suits(kind, commutes),
             \A i \in DOMAIN objs : KindOf(kind, objs[i]), IsWait(gate) => kind = "default"
      PROVE  OnEach(objs, kind, commutes) \in Seq(Events(o)) /\ TouchesAll(gate, OnEach(objs, kind, commutes))
  <2>1. /\ OnEach(objs, kind, commutes) \in Seq(Events(o))
        /\ DOMAIN OnEach(objs, kind, commutes) = DOMAIN objs
        /\ \A i \in DOMAIN objs : OnEach(objs, kind, commutes)[i] =
             [object |-> objs[i], event |-> kind, commutes |-> commutes]
    BY <1>4, OnEachLegal
  <2> QED BY <1>4, <2>1 DEF TouchesAll
<1>5. touched(QubitsOf(gate))
  BY <1>1 DEF ToSet
<1>6. touched(AllObjects)
  <2>1. \A q \in ToSet(gate.operands) : Qubit(q) \in Objects
    BY <1>1 DEF ToSet
  <2> QED BY <2>1, AllOfThem
<1>7. objects \in Seq(Objects) /\ touched(objects)
  <2> DEFINE s == QubitsOf(gate) \o CregsOf(gate)
  <2>1. s \in Seq(Objects) /\ \A j \in DOMAIN QubitsOf(gate) : \E i \in DOMAIN s : s[i] = QubitsOf(gate)[j]
    BY <1>1, Concatenated DEF Holds
  <2>2. touched(s)
    BY <1>5, <2>1
  <2> HIDE DEF s
  <2>3. /\ s \o BregsOf(gate) \in Seq(Objects)
        /\ Holds(s \o BregsOf(gate), s)
    BY <1>1, <2>1, Concatenated
  <2>4. touched(s \o BregsOf(gate))
    BY <2>2, <2>3 DEF Holds
  <2> QED BY <2>3, <2>4 DEF s
<1> HIDE DEF touched, objects
<1>8. CASE gate.name = "display"
  <2>1. Signature(gate, o) = OnEach(AllObjects, "default", FALSE)
    BY <1>8 DEF Signature, IsClassical, ZRotations, XRotations
  <2>2. AllObjects \in Seq(Objects)
    BY AllOfThem
  <2> QED BY <1>0, <1>2, <1>4, <1>6, <2>1, <2>2
<1>9. CASE IsClassical(gate)
  <2>1. Signature(gate, o) = OnEach(CregsOf(gate), "default", FALSE)
    BY <1>9 DEF Signature, IsClassical, ZRotations, XRotations
  <2>2. OnEach(CregsOf(gate), "default", FALSE) \in Seq(Events(o))
    BY <1>0, <1>1, <1>2, OnEachLegal
  <2> QED BY <1>9, <2>1, <2>2 DEF TouchesAll
<1>10. CASE gate.name = "cnot"
  <2> DEFINE a == <<QubitsOf(gate)[1]>>  b == <<QubitsOf(gate)[2]>>
             s == OnEach(a, "z", o.multi)  t == OnEach(b, "x", o.multi)
  <2>1. Signature(gate, o) = s \o t
    BY <1>10 DEF Signature, IsClassical, ZRotations, XRotations
  <2>2. n = 2 /\ 1 \in 1 .. n /\ 2 \in 1 .. n
    <3>1. n = 2
      BY <1>10 DEF IsGate, HasOperands, n
    <3> QED BY <3>1
  <2>3. /\ a \in Seq(Objects) /\ b \in Seq(Objects) /\ DOMAIN a = {1} /\ DOMAIN b = {1}
        /\ a[1] = QubitsOf(gate)[1] /\ b[1] = QubitsOf(gate)[2]
    BY <1>1, <2>2
  <2> HIDE DEF a, b
  <2>4. o.multi \in Commutation(o) /\ Suits("z", o.multi) /\ Suits("x", o.multi) /\ "x" \in AnyKind /\ "z" \in AnyKind
    BY AllSuit DEF EventKinds, AnyKind
  <2>5. /\ s \in Seq(Events(o)) /\ DOMAIN s = DOMAIN a
        /\ \A i \in DOMAIN a : s[i] = [object |-> a[i], event |-> "z", commutes |-> o.multi]
    <3>1. \A i \in DOMAIN a : KindOf("z", a[i])
      BY <1>3, <2>2, <2>3
    <3> QED BY <2>3, <2>4, <3>1, OnEachLegal
  <2>6. /\ t \in Seq(Events(o)) /\ DOMAIN t = DOMAIN b
        /\ \A i \in DOMAIN b : t[i] = [object |-> b[i], event |-> "x", commutes |-> o.multi]
    <3>1. \A i \in DOMAIN b : KindOf("x", b[i])
      BY <1>3, <2>2, <2>3
    <3> QED BY <2>3, <2>4, <3>1, OnEachLegal
  <2> HIDE DEF s, t
  <2>7. /\ s \o t \in Seq(Events(o))
        /\ \E i \in DOMAIN (s \o t) : (s \o t)[i] = s[1]
        /\ \E i \in DOMAIN (s \o t) : (s \o t)[i] = t[1]
    <3>1. 1 \in DOMAIN s /\ 1 \in DOMAIN t
      BY <2>3, <2>5, <2>6
    <3>2. s \in Seq(Events(o)) /\ t \in Seq(Events(o))
      BY <2>5, <2>6
    <3>3. /\ s \o t \in Seq(Events(o))
          /\ Holds(s \o t, s) /\ Holds(s \o t, t)
      BY <3>2, Concatenated
    <3> QED BY <3>1, <3>3 DEF Holds
  <2>8. ASSUME NEW q \in ToSet(gate.operands)
        PROVE  \E i \in DOMAIN (s \o t) : (s \o t)[i].object = Qubit(q)
    <3>1. s[1].object = Qubit(gate.operands[1]) /\ t[1].object = Qubit(gate.operands[2])
      BY <1>1, <2>2, <2>3, <2>5, <2>6
    <3>2. q = gate.operands[1] \/ q = gate.operands[2]
      BY <1>1, <2>2 DEF ToSet
    <3> QED BY <2>7, <3>1, <3>2
  <2> QED BY <1>10, <2>1, <2>7, <2>8 DEF TouchesAll, IsWait
<1>11. CASE gate.name \in {"cz", "cphase"}
  <2>1. Signature(gate, o) = OnEach(QubitsOf(gate), "z", o.multi)
    BY <1>11 DEF Signature, IsClassical, ZRotations, XRotations
  <2>2. o.multi \in Commutation(o) /\ Suits("z", o.multi) /\ "z" \in AnyKind /\ ~IsWait(gate)
    BY <1>11, AllSuit DEF EventKinds, IsWait, AnyKind
  <2> QED BY <1>1, <1>3, <1>4, <1>5, <2>1, <2>2
<1>12. CASE gate.name \in ZRotations
  <2>1. Signature(gate, o) = OnEach(QubitsOf(gate), "z", o.single)
    BY <1>12 DEF Signature, IsClassical, ZRotations, XRotations
  <2>2. o.single \in Commutation(o) /\ Suits("z", o.single) /\ "z" \in AnyKind /\ ~IsWait(gate)
    BY <1>12, AllSuit DEF EventKinds, IsWait, ZRotations, AnyKind
  <2> QED BY <1>1, <1>3, <1>4, <1>5, <2>1, <2>2
<1>13. CASE gate.name \in XRotations
  <2>1. Signature(gate, o) = OnEach(QubitsOf(gate), "x", o.single)
    BY <1>13 DEF Signature, IsClassical, ZRotations, XRotations
  <2>2. o.single \in Commutation(o) /\ Suits("x", o.single) /\ "x" \in AnyKind /\ ~IsWait(gate)
    BY <1>13, AllSuit DEF EventKinds, IsWait, XRotations, AnyKind
  <2> QED BY <1>1, <1>3, <1>4, <1>5, <2>1, <2>2
<1>14. CASE ~(\/ gate.name = "display" \/ IsClassical(gate) \/ gate.name = "cnot"
              \/ gate.name \in {"cz", "cphase"} \/ gate.name \in ZRotations \/ gate.name \in XRotations)
  <2>1. Signature(gate, o) = OnEach(objects, "default", FALSE)
    BY <1>14 DEF Signature, objects
  <2> QED BY <1>0, <1>2, <1>4, <1>7, <2>1
<1> QED BY <1>8, <1>9, <1>10, <1>11, <1>12, <1>13, <1>14

LEMMA EventsLegal ==
  ASSUME NEW gate, IsGate(gate), NEW o
  PROVE  EventsOf(gate, o) \in Seq(Events(o)) /\ TouchesAll(gate, EventsOf(gate, o))
<1> DEFINE s == ConditionEvents(gate)  t == Signature(gate, o)
<1>1. s \in Seq(Events(o))
  <2>1. CondOf(gate) \in Seq(Objects)
    BY DEF IsGate, HasOperands
  <2>2. \A i \in DOMAIN CondOf(gate) : KindOf("read", CondOf(gate)[i])
    BY DEF CondOf, KindOf
  <2>3. Suits("read", TRUE) /\ "read" \in AnyKind /\ TRUE \in Commutation(o)
    BY AllSuit DEF EventKinds, AnyKind
  <2> QED BY <2>1, <2>2, <2>3, OnEachLegal  DEF ConditionEvents
<1>2. t \in Seq(Events(o)) /\ TouchesAll(gate, t)
  BY SignatureLegal
<1> HIDE DEF s, t
<1>3. s \o t \in Seq(Events(o)) /\ \A j \in DOMAIN t : \E i \in DOMAIN (s \o t) : (s \o t)[i] = t[j]
  BY <1>1, <1>2, Concatenated DEF Holds
<1>4. TouchesAll(gate, s \o t)
  BY <1>2, <1>3 DEF TouchesAll
<1> QED BY <1>3, <1>4 DEF EventsOf, s, t

-----------------------------------------------------------------------------
(* The history of a kernel.                                                *)

SourceHistory == {<<0, [object |-> u, event |-> "default", commutes |-> FALSE]>> : u \in Objects}

\* Up to the gate n.
GateHistory(k, o, n) == SourceHistory \cup (UNION {Marked(m, EventsOf(k[m], o)) : m \in 1 .. n})

SinkEvents == OnEach(AllObjects, "default", FALSE)

WholeHistory(k, o) == GateHistory(k, o, Len(k)) \cup Marked(Len(k) + 1, SinkEvents)

\* The graph g is that of the history H, up to the node n.
Records(g, H, n) ==
  /\ LegalHistory(H, n) /\ GraphHolds(g, H)
  /\ \A E \in Nat : n <= E => \A c \in [0 .. E -> Int], d \in [0 .. E -> Nat] : Forces(g, H, c, d)

LEMMA SourceRecorded == Records(EmptyGraph, SourceHistory, 0)
<1> DEFINE start(u) == <<0, [object |-> u, event |-> "default", commutes |-> FALSE]>>
           m == [last |-> "default", default |-> 0, run |-> [e \in {"x", "z", "read"} |-> {}]]
<1>1. \A p \in SourceHistory : \E u \in Objects : p = start(u)
  BY DEF SourceHistory
<1>2. \A u \in Objects : start(u) \in SourceHistory
  BY DEF SourceHistory
<1>3. \A u \in Objects : /\ start(u)[1] = 0 /\ start(u)[2].object = u
                         /\ start(u)[2].event = "default" /\ ~start(u)[2].commutes
  OBVIOUS
<1> HIDE DEF start
<1>4. LegalHistory(SourceHistory, 0)
  <2> SUFFICES ASSUME NEW u \in Objects PROVE start(u)[1] \in 0 .. 0 /\ LegalEvent(start(u)[2])
    BY <1>1 DEF LegalHistory
  <2> QED BY <1>3 DEF LegalEvent, KindOf
<1>5. /\ EmptyGraph.machine = [u \in Objects |-> m] /\ EmptyGraph.arcs = {}
      /\ m \in Machines /\ m.last = "default" /\ m.default = 0 /\ \A kind \in EventKinds : m.run[kind] = {}
  BY DEF EmptyGraph, Machines, EventKinds, AnyKind
<1> HIDE DEF m
<1>6. GraphHolds(EmptyGraph, SourceHistory)
  <2>1. \A u \in Objects : Remembers(m, u, SourceHistory)
    BY <1>2, <1>3, <1>5 DEF Remembers, KindOf
  <2>2. \A u \in Objects : EmptyGraph.machine[u] = m
    BY <1>5
  <2> QED BY <1>5, <2>1, <2>2 DEF GraphHolds
<1>7. ASSUME NEW E \in Nat, NEW c \in [0 .. E -> Int], NEW d \in [0 .. E -> Nat]
      PROVE  Forces(EmptyGraph, SourceHistory, c, d)
  <2>1. \A p \in SourceHistory : p[1] = 0 /\ p[2].event = "default"
    BY <1>1, <1>3
  <2>2. UpToNode(c, d, 0, 0) /\ DefaultSources(m) = {0}
    BY <1>5 DEF UpToNode, DefaultSources
  <2>3. "default" \notin EventKinds
    BY DEF EventKinds
  <2>4. \A u \in Objects : Covers(m, u, SourceHistory, c, d)
    BY <1>5, <2>1, <2>2, <2>3 DEF Covers
  <2>5. InOrderOf(SourceHistory, c, d)
    BY <2>1 DEF InOrderOf
  <2>6. \A u \in Objects : EmptyGraph.machine[u] = m
    BY <1>5
  <2> QED BY <2>4, <2>5, <2>6 DEF Forces
<1> QED BY <1>4, <1>6, <1>7 DEF Records

LEMMA MoreRecorded ==
  ASSUME NEW g, NEW H, NEW n \in Nat, Records(g, H, n), NEW o, NEW events \in Seq(Events(o))
  PROVE  Records(AllEvents(g, n + 1, events), H \cup Marked(n + 1, events), n + 1)
<1> DEFINE node == n + 1
           h == AllEvents(g, node, events)
           J == H \cup Marked(node, events)
<1>1. node \in Nat \ {0} /\ LegalHistory(H, node) /\ GraphHolds(g, H)
  BY DEF Records, LegalHistory
<1>2. /\ events \in Seq({events[i] : i \in DOMAIN events})
      /\ \A i \in DOMAIN events : LegalEvent(events[i])
  <2>1. \A i \in DOMAIN events : events[i] \in Events(o)
    OBVIOUS
  <2>2. DOMAIN events = 1 .. Len(events) /\ Len(events) \in Nat
    OBVIOUS
  <2>3. events = [i \in 1 .. Len(events) |-> events[i]]
    BY <2>2
  <2> QED BY <2>1, <2>2, <2>3 DEF Events
<1> HIDE DEF node
<1>3. /\ LegalHistory(J, node) /\ GraphHolds(h, J)
      /\ \A E \in Nat : node <= E =>
           \A c \in [0 .. E -> Int], d \in [0 .. E -> Nat] :
             Forces(g, H, c, d) => Forces(h, J, c, d)
  BY <1>1, <1>2, EventsAdded
<1>4. \A E \in Nat : node <= E => n <= E
  BY DEF node
<1> HIDE DEF h, J
<1>5. \A E \in Nat : node <= E => \A c \in [0 .. E -> Int], d \in [0 .. E -> Nat] : Forces(h, J, c, d)
  BY <1>3, <1>4 DEF Records
<1>6. Records(h, J, node)
  BY <1>3, <1>5 DEF Records
<1> QED BY <1>6 DEF h, J, node

LEMMA KernelEvents ==
  ASSUME NEW k, NEW o, IsKernel(k, o), NEW n \in DOMAIN k
  PROVE  /\ EventsOf(k[n], o) \in Seq(Events(o)) /\ EventsOf(k[n], o) # <<>>
         /\ TouchesAll(k[n], EventsOf(k[n], o))
         /\ k[n].operands \in Seq(Qubits) /\ k[n].name \in Names
         /\ IsClassical(k[n]) => k[n].operands = <<>>
<1>1. IsGate(k[n])
  BY DEF IsKernel, IsGate
<1> QED BY <1>1, EventsLegal DEF IsKernel, HasOperands

LEMMA GateRecorded ==
  ASSUME NEW k, NEW o, IsKernel(k, o), NEW n \in Nat, n < Len(k), NEW g,
         Records(g, GateHistory(k, o, n), n)
  PROVE  Records(AddGate(g, n + 1, k[n + 1], o), GateHistory(k, o, n + 1), n + 1)
<1>1. n + 1 \in DOMAIN k
  <2>1. Len(k) \in Nat /\ DOMAIN k = 1 .. Len(k)
    BY DEF IsKernel
  <2> QED BY <2>1
<1> DEFINE events == EventsOf(k[n + 1], o)
<1>2. events \in Seq(Events(o))
  BY <1>1, KernelEvents
<1>3. AddGate(g, n + 1, k[n + 1], o) = AllEvents(g, n + 1, events)
  BY DEF AddGate, AllEvents
<1>4. GateHistory(k, o, n + 1) = GateHistory(k, o, n) \cup Marked(n + 1, events)
  <2>1. \A m : m \in 1 .. n + 1 <=> m \in 1 .. n \/ m = n + 1
    OBVIOUS
  <2> QED BY <2>1 DEF GateHistory
<1> HIDE DEF events
<1> QED BY <1>2, <1>3, <1>4, MoreRecorded

LEMMA SinkLegal ==
  ASSUME NEW o
  PROVE  /\ SinkEvents \in Seq(Events(o))
         /\ \A u \in Objects : \E i \in DOMAIN SinkEvents :
              SinkEvents[i] = [object |-> u, event |-> "default", commutes |-> FALSE]
<1>1. /\ AllObjects \in Seq(Objects)
      /\ \A u \in Objects : \E i \in DOMAIN AllObjects : AllObjects[i] = u
  BY AllOfThem
<1>2. FALSE \in Commutation(o) /\ Suits("default", FALSE) /\ "default" \in AnyKind
  BY AllSuit
<1>3. \A i \in DOMAIN AllObjects : KindOf("default", AllObjects[i])
  BY DEF KindOf
<1>4. /\ SinkEvents \in Seq(Events(o)) /\ DOMAIN SinkEvents = DOMAIN AllObjects
      /\ \A i \in DOMAIN AllObjects : SinkEvents[i] =
           [object |-> AllObjects[i], event |-> "default", commutes |-> FALSE]
  <2> DEFINE event(i) == [object |-> AllObjects[i], event |-> "default", commutes |-> FALSE]
  <2>1. \A i \in DOMAIN AllObjects : event(i) \in Events(o)
    <3> SUFFICES ASSUME NEW i \in DOMAIN AllObjects PROVE event(i) \in Events(o)
      OBVIOUS
    <3>1. AllObjects[i] \in Objects
      BY <1>1
    <3>2. event(i) \in [object : Objects, event : AnyKind, commutes : Commutation(o)]
      BY <1>2, <3>1, Zenon
    <3>3. /\ event(i).object = AllObjects[i] /\ event(i).event = "default" /\ ~event(i).commutes
      OBVIOUS
    <3> HIDE DEF event
    <3>4. LegalEvent(event(i))
      BY <1>3, <3>1, <3>3 DEF LegalEvent
    <3> QED BY <3>2, <3>4 DEF Events
  <2>2. SinkEvents = [i \in DOMAIN AllObjects |-> event(i)]
    BY DEF SinkEvents, OnEach
  <2>3. DOMAIN AllObjects = 1 .. Len(AllObjects) /\ Len(AllObjects) \in Nat
    BY <1>1
  <2> HIDE DEF event
  <2>4. [i \in DOMAIN AllObjects |-> event(i)] \in Seq(Events(o))
    BY <2>1, <2>3
  <2> QED BY <2>2, <2>4 DEF event
<1> QED BY <1>1, <1>4

LEMMA SinkRecorded ==
  ASSUME NEW k, NEW o, IsKernel(k, o), NEW g, Records(g, GateHistory(k, o, Len(k)), Len(k))
  PROVE  Records(AddSink(g, Len(k) + 1), WholeHistory(k, o), Len(k) + 1)
<1>1. Len(k) \in Nat
  BY DEF IsKernel
<1>2. SinkEvents \in Seq(Events(o))
  BY SinkLegal
<1>3. AddSink(g, Len(k) + 1) = AllEvents(g, Len(k) + 1, SinkEvents)
  BY DEF AddSink, AllEvents, SinkEvents
<1> QED BY <1>1, <1>2, <1>3, MoreRecorded DEF WholeHistory

-----------------------------------------------------------------------------
(* What the graph of a kernel demands.                                     *)

Durations(k) == [n \in Nodes(k) |-> DurationOf(k, n)]

\* The cycles keep what has to stay in order in order, between the source and the sink.
MeetsAll(k, o, c) ==
  /\ \A m, n \in DOMAIN k : m < n /\ InConflict(k[m], k[n], o) => Ends(c, Durations(k), m, n)
  /\ \A n \in DOMAIN k : Ends(c, Durations(k), 0, n) /\ Ends(c, Durations(k), n, Len(k) + 1)
  /\ k # <<>> => Ends(c, Durations(k), 0, Len(k) + 1)

\* The arcs of the graph order what has to stay in order, and nothing else.
Demands(k, o, g) ==
  /\ \A a \in g.arcs : /\ a = <<a[1], a[2]>> /\ a[1] < a[2]
                       /\ a[1] \in 0 .. Len(k) /\ a[2] \in 1 .. Len(k) + 1
                       /\ a[1] # 0 /\ a[2] # Len(k) + 1 => InConflict(k[a[1]], k[a[2]], o)
  /\ \A c \in [Nodes(k) -> Int] : Respects(c, Durations(k), g.arcs) => MeetsAll(k, o, c)

LEMMA KernelNodes ==
  ASSUME NEW k, NEW o, IsKernel(k, o)
  PROVE  /\ Len(k) \in Nat /\ DOMAIN k = 1 .. Len(k) /\ Nodes(k) = 0 .. Len(k) + 1
         /\ Sink(k) = Len(k) + 1
         /\ \A n \in DOMAIN k : Durations(k)[n] = Duration[k[n].name] /\ Duration[k[n].name] \in Nat
         /\ Durations(k)[0] = 1 /\ Durations(k)[Len(k) + 1] = 0
         /\ Durations(k) \in [0 .. Len(k) + 1 -> Nat]
         /\ \A n \in Nodes(k) : Durations(k)[n] = DurationOf(k, n)
<1>1. Len(k) \in Nat /\ DOMAIN k = 1 .. Len(k) /\ Nodes(k) = 0 .. Len(k) + 1 /\ Sink(k) = Len(k) + 1
  BY DEF IsKernel, Nodes, Sink
<1>2. \A n \in DOMAIN k : Duration[k[n].name] \in Nat
  BY DurationAssumption DEF IsKernel, HasOperands
<1>3. \A n \in Nodes(k) : Durations(k)[n] = DurationOf(k, n)
  BY DEF Durations
<1>4. \A n \in Nodes(k) :
        DurationOf(k, n) = IF n = 0 THEN 1 ELSE IF n = Len(k) + 1 THEN 0 ELSE Duration[k[n].name]
  BY <1>1 DEF DurationOf
<1>5. \A n \in DOMAIN k : n \in Nodes(k) /\ n # 0 /\ n # Len(k) + 1
  BY <1>1
<1>6. 0 \in Nodes(k) /\ Len(k) + 1 \in Nodes(k) /\ Len(k) + 1 # 0
  BY <1>1
<1>7. \A n \in Nodes(k) : n = 0 \/ n = Len(k) + 1 \/ n \in DOMAIN k
  BY <1>1
<1>8. DOMAIN Durations(k) = Nodes(k) /\ Durations(k) = [n \in Nodes(k) |-> Durations(k)[n]]
  BY DEF Durations
<1>9. \A n \in Nodes(k) : Durations(k)[n] \in Nat
  BY <1>2, <1>3, <1>4, <1>7
<1> QED BY <1>1, <1>2, <1>3, <1>4, <1>5, <1>6, <1>8, <1>9

LEMMA InHistory ==
  ASSUME NEW k, NEW o, IsKernel(k, o)
  PROVE  /\ \A u \in Objects : \E p \in WholeHistory(k, o) :
              p[1] = 0 /\ p[2].object = u /\ p[2].event = "default"
         /\ \A n \in DOMAIN k : \A i \in DOMAIN EventsOf(k[n], o) :
              <<n, EventsOf(k[n], o)[i]>> \in WholeHistory(k, o)
         /\ \A u \in Objects : \E p \in WholeHistory(k, o) :
              p[1] = Len(k) + 1 /\ p[2].object = u /\ p[2].event = "default" /\ ~p[2].commutes
         /\ \A p \in WholeHistory(k, o) : p[1] \in DOMAIN k =>
              \E i \in DOMAIN EventsOf(k[p[1]], o) : p[2] = EventsOf(k[p[1]], o)[i]
<1>1. Len(k) \in Nat /\ DOMAIN k = 1 .. Len(k)
  BY KernelNodes
<1>2. \A p : p \in WholeHistory(k, o) <=>
        \/ p \in SourceHistory
        \/ \E n \in DOMAIN k : p \in Marked(n, EventsOf(k[n], o))
        \/ p \in Marked(Len(k) + 1, SinkEvents)
  BY <1>1 DEF WholeHistory, GateHistory
<1>3. \A n, events : \A p : p \in Marked(n, events) <=> \E i \in DOMAIN events : p = <<n, events[i]>>
  BY DEF Marked
<1>4. ASSUME NEW u \in Objects
      PROVE  \E p \in WholeHistory(k, o) : p[1] = 0 /\ p[2].object = u /\ p[2].event = "default"
  <2> DEFINE p == <<0, [object |-> u, event |-> "default", commutes |-> FALSE]>>
  <2>1. p \in SourceHistory /\ p[1] = 0 /\ p[2].object = u /\ p[2].event = "default"
    BY DEF SourceHistory
  <2> HIDE DEF p
  <2> QED BY <1>2, <2>1
<1>5. ASSUME NEW u \in Objects
      PROVE  \E p \in WholeHistory(k, o) :
               p[1] = Len(k) + 1 /\ p[2].object = u /\ p[2].event = "default" /\ ~p[2].commutes
  <2>1. PICK i \in DOMAIN SinkEvents :
          SinkEvents[i] = [object |-> u, event |-> "default", commutes |-> FALSE]
    BY SinkLegal
  <2> DEFINE p == <<Len(k) + 1, SinkEvents[i]>>
  <2>2. p \in Marked(Len(k) + 1, SinkEvents)
    BY <1>3
  <2>3. p[1] = Len(k) + 1 /\ p[2].object = u /\ p[2].event = "default" /\ ~p[2].commutes
    BY <2>1
  <2> HIDE DEF p
  <2> QED BY <1>2, <2>2, <2>3
<1>6. ASSUME NEW p \in WholeHistory(k, o), p[1] \in DOMAIN k
      PROVE  \E i \in DOMAIN EventsOf(k[p[1]], o) : p[2] = EventsOf(k[p[1]], o)[i]
  <2>1. p[1] # 0 /\ p[1] # Len(k) + 1
    BY <1>1, <1>6
  <2>2. p \notin SourceHistory
    BY <2>1 DEF SourceHistory
  <2>3. p \notin Marked(Len(k) + 1, SinkEvents)
    BY <1>3, <2>1
  <2>4. PICK n \in DOMAIN k : p \in Marked(n, EventsOf(k[n], o))
    BY <1>2, <2>2, <2>3
  <2>5. PICK i \in DOMAIN EventsOf(k[n], o) : p = <<n, EventsOf(k[n], o)[i]>>
    BY <1>3, <2>4
  <2> QED BY <2>5
<1> QED BY <1>2, <1>3, <1>4, <1>5, <1>6

LEMMA ClosedDemands ==
  ASSUME NEW k, NEW o, IsKernel(k, o), NEW g, Records(g, WholeHistory(k, o), Len(k) + 1), IsDag(g)
  PROVE  Demands(k, o, g)
<1> DEFINE H == WholeHistory(k, o)
           d == Durations(k)
           ev(n) == EventsOf(k[n], o)
<1>1. /\ Len(k) \in Nat /\ DOMAIN k = 1 .. Len(k) /\ Nodes(k) = 0 .. Len(k) + 1
      /\ d \in [0 .. Len(k) + 1 -> Nat]
  BY KernelNodes
<1> HIDE DEF d
<1>2. LegalHistory(H, Len(k) + 1) /\ GraphHolds(g, H)
  BY DEF Records
<1>3. \A c \in [Nodes(k) -> Int] : Respects(c, d, g.arcs) => InOrderOf(H, c, d)
  <2>1. Len(k) + 1 \in Nat /\ Len(k) + 1 <= Len(k) + 1
    BY <1>1
  <2>2. \A c \in [0 .. Len(k) + 1 -> Int] : Forces(g, H, c, d)
    BY <1>1, <2>1 DEF Records
  <2> QED BY <1>1, <2>2 DEF Forces
<1>4. ASSUME NEW n \in DOMAIN k, NEW i \in DOMAIN ev(n)
      PROVE  <<n, ev(n)[i]>> \in H /\ LegalEvent(ev(n)[i])
  <2>1. <<n, ev(n)[i]>> \in H
    BY InHistory
  <2> QED BY <1>2, <2>1 DEF LegalHistory
<1>5. ASSUME NEW n \in DOMAIN k
      PROVE  \E i \in DOMAIN ev(n) : TRUE
  <2>1. ev(n) \in Seq(Events(o)) /\ ev(n) # <<>>
    BY KernelEvents
  <2> HIDE DEF ev
  <2>2. Len(ev(n)) \in Nat /\ Len(ev(n)) # 0 /\ DOMAIN ev(n) = 1 .. Len(ev(n))
    BY <2>1
  <2>3. 1 \in DOMAIN ev(n)
    BY <2>2
  <2> QED BY <2>3
<1>6. ASSUME NEW m \in DOMAIN k, NEW n \in DOMAIN k
      PROVE  InConflict(k[m], k[n], o) <=>
               \E i \in DOMAIN ev(m), j \in DOMAIN ev(n) :
                 ev(m)[i].object = ev(n)[j].object /\ Apart(ev(m)[i], ev(n)[j])
  BY DEF InConflict, Apart
<1>7. \A p \in H : p[1] \in DOMAIN k => \E i \in DOMAIN ev(p[1]) : p[2] = ev(p[1])[i]
  BY InHistory
<1>8. ASSUME NEW u \in Objects
      PROVE  /\ \E p \in H : p[1] = 0 /\ p[2].object = u /\ p[2].event = "default"
             /\ \E p \in H : /\ p[1] = Len(k) + 1 /\ p[2].object = u
                             /\ p[2].event = "default" /\ ~p[2].commutes
  BY InHistory
<1> HIDE DEF H, ev
<1>9. ASSUME NEW a \in g.arcs
      PROVE  /\ a = <<a[1], a[2]>> /\ a[1] < a[2]
             /\ a[1] \in 0 .. Len(k) /\ a[2] \in 1 .. Len(k) + 1
             /\ a[1] # 0 /\ a[2] # Len(k) + 1 => InConflict(k[a[1]], k[a[2]], o)
  <2>1. PICK p \in H, r \in H : /\ a = <<p[1], r[1]>> /\ p[1] <= r[1] /\ 1 <= r[1]
                                /\ p[2].object = r[2].object /\ Apart(p[2], r[2])
    BY <1>2 DEF GraphHolds
  <2>2. p[1] \in 0 .. Len(k) + 1 /\ r[1] \in 0 .. Len(k) + 1 /\ a[1] = p[1] /\ a[2] = r[1]
    BY <1>2, <2>1 DEF LegalHistory
  <2>3. a[1] # a[2]
    <3> SUFFICES ASSUME a[1] = a[2] PROVE FALSE
      OBVIOUS
    <3>1. {a[1]} \in SUBSET {b[1] : b \in g.arcs}
      OBVIOUS
    <3>2. \E n \in {a[1]} : \A b \in g.arcs : b[2] = n => b[1] \notin {a[1]}
      BY <3>1 DEF IsDag
    <3> QED BY <3>2
  <2>4. a[1] < a[2] /\ a[1] \in 0 .. Len(k) /\ a[2] \in 1 .. Len(k) + 1
    BY <1>1, <2>1, <2>2, <2>3
  <2>5. ASSUME a[1] # 0, a[2] # Len(k) + 1 PROVE InConflict(k[a[1]], k[a[2]], o)
    <3>1. a[1] \in DOMAIN k /\ a[2] \in DOMAIN k
      BY <1>1, <2>4, <2>5
    <3>2. PICK i \in DOMAIN ev(a[1]) : p[2] = ev(a[1])[i]
      BY <1>7, <2>2, <3>1
    <3>3. PICK j \in DOMAIN ev(a[2]) : r[2] = ev(a[2])[j]
      BY <1>7, <2>2, <3>1
    <3> QED BY <1>6, <2>1, <3>1, <3>2, <3>3
  <2> QED BY <2>1, <2>2, <2>4, <2>5
<1>10. ASSUME NEW c \in [Nodes(k) -> Int], Respects(c, d, g.arcs)
       PROVE  MeetsAll(k, o, c)
  <2>1. \A p, r \in H : p[1] < r[1] /\ p[2].object = r[2].object /\ Apart(p[2], r[2]) => Ends(c, d, p[1], r[1])
    BY <1>3, <1>10 DEF InOrderOf
  <2>2. ASSUME NEW m \in DOMAIN k, NEW n \in DOMAIN k, m < n, InConflict(k[m], k[n], o)
        PROVE  Ends(c, d, m, n)
    <3>1. PICK i \in DOMAIN ev(m), j \in DOMAIN ev(n) :
                 ev(m)[i].object = ev(n)[j].object /\ Apart(ev(m)[i], ev(n)[j])
      BY <1>6, <2>2
    <3> DEFINE p == <<m, ev(m)[i]>>  r == <<n, ev(n)[j]>>
    <3>2. p \in H /\ r \in H
      BY <1>4
    <3>3. p[1] = m /\ p[2] = ev(m)[i] /\ r[1] = n /\ r[2] = ev(n)[j]
      OBVIOUS
    <3> HIDE DEF p, r
    <3> QED BY <2>1, <2>2, <3>1, <3>2, <3>3
  <2>3. ASSUME NEW n \in DOMAIN k
        PROVE  Ends(c, d, 0, n) /\ Ends(c, d, n, Len(k) + 1) /\ Objects # {}
    <3>1. PICK i \in DOMAIN ev(n) : TRUE
      BY <1>5
    <3> DEFINE p == <<n, ev(n)[i]>>
    <3>2. p \in H /\ LegalEvent(ev(n)[i]) /\ p[1] = n /\ p[2] = ev(n)[i]
      BY <1>4
    <3> HIDE DEF p
    <3>3. ev(n)[i].object \in Objects
      BY <3>2 DEF LegalEvent
    <3>4. PICK s \in H : s[1] = 0 /\ s[2].object = ev(n)[i].object /\ s[2].event = "default"
      BY <1>8, <3>3
    <3>5. PICK e \in H : /\ e[1] = Len(k) + 1 /\ e[2].object = ev(n)[i].object
                         /\ e[2].event = "default" /\ ~e[2].commutes
      BY <1>8, <3>3
    <3>6. Apart(s[2], p[2])
      BY <3>2, <3>4 DEF Apart, LegalEvent, EventKinds
    <3>7. Apart(p[2], e[2])
      BY <3>5 DEF Apart
    <3>8. 0 < n /\ n < Len(k) + 1
      BY <1>1
    <3> QED BY <2>1, <3>2, <3>3, <3>4, <3>5, <3>6, <3>7, <3>8
  <2>4. k # <<>> => Ends(c, d, 0, Len(k) + 1)
    <3> SUFFICES ASSUME k # <<>> PROVE Ends(c, d, 0, Len(k) + 1)
      OBVIOUS
    <3>1. 1 \in DOMAIN k
      BY <1>1 DEF IsKernel
    <3>2. PICK u \in Objects : TRUE
      BY <2>3, <3>1
    <3>3. PICK s \in H : s[1] = 0 /\ s[2].object = u /\ s[2].event = "default"
      BY <1>8
    <3>4. PICK e \in H : e[1] = Len(k) + 1 /\ e[2].object = u /\ e[2].event = "default" /\ ~e[2].commutes
      BY <1>8
    <3>5. 0 < Len(k) + 1 /\ Apart(s[2], e[2])
      BY <1>1, <3>4 DEF Apart
    <3> QED BY <2>1, <3>3, <3>4, <3>5
  <2> QED BY <2>2, <2>3, <2>4 DEF MeetsAll, d
<1> QED BY <1>9, <1>10 DEF Demands, d

-----------------------------------------------------------------------------
(* Schedules without resources.                                            *)

Values(z, v, B) == {z} \cup {v[m] : m \in B}

LEMMA LargestOf ==
  ASSUME NEW N \in Nat, NEW B \in SUBSET (0 .. N), NEW v, \A m \in B : v[m] \in Int, NEW z \in Int
  PROVE  LET S == Values(z, v, B)
         IN /\ Largest(S) \in Int /\ z <= Largest(S)
            /\ \A m \in B : v[m] <= Largest(S)
            /\ Largest(S) = z \/ \E m \in B : Largest(S) = v[m]
            /\ Smallest(S) \in Int /\ Smallest(S) <= z
            /\ \A m \in B : Smallest(S) <= v[m]
            /\ Smallest(S) = z \/ \E m \in B : Smallest(S) = v[m]
<1> DEFINE T == {v[m] : m \in B}
           S == {z} \cup T
<1>1. IsFiniteSet(T)
  <2>1. IsFiniteSet(B)
    <3>1. IsFiniteSet(0 .. N)
      BY FS_Interval
    <3> QED BY <3>1, FS_Subset
  <2> QED BY <2>1, ImageFinite
<1>2. IsFiniteSet(S)
  <2> HIDE DEF T
  <2>1. IsFiniteSet(T \cup {z})
    BY <1>1, FS_AddElement
  <2>2. S = T \cup {z}
    OBVIOUS
  <2> QED BY <2>1, <2>2
<1>3. S \in SUBSET Int /\ S # {} /\ z \in S /\ \A m \in B : v[m] \in S
  OBVIOUS
<1>4. \A x \in S : x = z \/ \E m \in B : x = v[m]
  OBVIOUS
<1> HIDE DEF S, T
<1>5. /\ Largest(S) \in S /\ \A y \in S : y <= Largest(S)
      /\ Smallest(S) \in S /\ \A y \in S : Smallest(S) <= y
  BY <1>2, <1>3, LargestAndSmallest
<1>6. /\ Largest(S) \in Int /\ z <= Largest(S)
      /\ \A m \in B : v[m] <= Largest(S)
      /\ Largest(S) = z \/ \E m \in B : Largest(S) = v[m]
      /\ Smallest(S) \in Int /\ Smallest(S) <= z
      /\ \A m \in B : Smallest(S) <= v[m]
      /\ Smallest(S) = z \/ \E m \in B : Smallest(S) = v[m]
  BY <1>3, <1>4, <1>5
<1> QED BY <1>6 DEF S, T, Values

\* When a gate can start, given when those before it do.
StartAfter(k, g, f, n) == Largest({0} \cup {f[m] + DurationOf(k, m) : m \in Before(g, n)})

LEMMA StartAfterFacts ==
  ASSUME NEW k, NEW o, IsKernel(k, o), NEW g, Demands(k, o, g), NEW n \in Nodes(k),
         NEW f, \A m \in Before(g, n) : f[m] \in Int
  PROVE  /\ Before(g, n) \subseteq {m \in Nodes(k) : m < n}
         /\ StartAfter(k, g, f, n) \in Int /\ 0 <= StartAfter(k, g, f, n)
         /\ \A m \in Before(g, n) : f[m] + Durations(k)[m] <= StartAfter(k, g, f, n)
         /\ \/ StartAfter(k, g, f, n) = 0
            \/ \E m \in Before(g, n) : StartAfter(k, g, f, n) = f[m] + Durations(k)[m]
<1> DEFINE B == Before(g, n)
           v == [m \in B |-> f[m] + DurationOf(k, m)]
           S == Values(0, v, B)
<1>1. /\ Len(k) \in Nat /\ Nodes(k) = 0 .. Len(k) + 1
      /\ \A m \in Nodes(k) : Durations(k)[m] = DurationOf(k, m) /\ Durations(k)[m] \in Nat
  BY KernelNodes
<1>2. B \subseteq {m \in Nodes(k) : m < n}
  <2>1. \A a \in g.arcs : a[1] < a[2] /\ a[1] \in 0 .. Len(k)
    BY DEF Demands
  <2> QED BY <1>1, <2>1 DEF Before
<1>3. B \in SUBSET (0 .. Len(k) + 1) /\ \A m \in B : v[m] = f[m] + Durations(k)[m] /\ v[m] \in Int
  BY <1>1, <1>2
<1>4. StartAfter(k, g, f, n) = Largest(S)
  BY DEF StartAfter, Values
<1> HIDE DEF B, v
<1>5. /\ Largest(S) \in Int /\ 0 <= Largest(S)
      /\ \A m \in B : v[m] <= Largest(S)
      /\ Largest(S) = 0 \/ \E m \in B : Largest(S) = v[m]
  <2> DEFINE N == Len(k) + 1
  <2>1. N \in Nat /\ B \in SUBSET (0 .. N) /\ \A m \in B : v[m] \in Int
    BY <1>1, <1>3
  <2> HIDE DEF N
  <2>2. 0 \in Int
    OBVIOUS
  <2> QED BY ONLY <2>1, <2>2, LargestOf, ZenonT(60)
<1> HIDE DEF S
<1>6. /\ StartAfter(k, g, f, n) \in Int /\ 0 <= StartAfter(k, g, f, n)
      /\ \A m \in B : f[m] + Durations(k)[m] <= StartAfter(k, g, f, n)
      /\ \/ StartAfter(k, g, f, n) = 0
         \/ \E m \in B : StartAfter(k, g, f, n) = f[m] + Durations(k)[m]
  BY <1>3, <1>4, <1>5
<1> QED BY <1>2, <1>6 DEF B

\* The ASAP schedule is the solution of its equations.
LEMMA AsapSolved ==
  ASSUME NEW k, NEW o, IsKernel(k, o), NEW g, Demands(k, o, g), NEW c, c = AsapCycles(k, g)
  PROVE  /\ c \in [Nodes(k) -> Int]
         /\ \A n \in Nodes(k) : 0 <= c[n]
         /\ \A n \in Nodes(k) :
              c[n] = 0 \/ \E m \in Before(g, n) : m \in Nodes(k) /\ c[n] = c[m] + Durations(k)[m]
         /\ Respects(c, Durations(k), g.arcs)
<1> DEFINE N == Len(k) + 1
           Rule(f) == f = [n \in Nodes(k) |-> StartAfter(k, g, f, n)]
<1>1. N \in Nat /\ Nodes(k) = 0 .. N
  BY KernelNodes
<1>2. c = CHOOSE f : Rule(f)
  BY DEF AsapCycles, StartAfter
<1>3. \E f : Rule(f)
  <2> DEFINE rank == [n \in 0 .. N |-> n]
             G == [p \in [0 .. N -> Int] \X (0 .. N) |-> StartAfter(k, g, p[1], p[2])]
  <2>1. \A f \in [0 .. N -> Int], n \in 0 .. N : G[<<f, n>>] = StartAfter(k, g, f, n)
    OBVIOUS
  <2>2. \A f \in [0 .. N -> Int], n \in 0 .. N :
          /\ StartAfter(k, g, f, n) \in Int /\ Before(g, n) \subseteq {m \in Nodes(k) : m < n}
    <3> SUFFICES ASSUME NEW f \in [0 .. N -> Int], NEW n \in 0 .. N
                 PROVE  /\ StartAfter(k, g, f, n) \in Int /\ Before(g, n) \subseteq {m \in Nodes(k) : m < n}
      OBVIOUS
    <3>1. Before(g, n) \subseteq 0 .. N
      <4>1. \A a \in g.arcs : a[1] \in 0 .. Len(k)
        BY DEF Demands
      <4> QED BY <1>1, <4>1 DEF Before
    <3>2. \A m \in Before(g, n) : f[m] \in Int
      BY <3>1
    <3> QED BY <1>1, <3>2, StartAfterFacts
  <2>3. G \in [[0 .. N -> Int] \X (0 .. N) -> Int]
    BY <2>2
  <2>4. rank \in [0 .. N -> 0 .. N]
    OBVIOUS
  <2>5. ASSUME NEW n \in 0 .. N, NEW f \in [0 .. N -> Int], NEW h \in [0 .. N -> Int],
               \A m \in 0 .. N : rank[m] < rank[n] => f[m] = h[m]
        PROVE  G[<<f, n>>] = G[<<h, n>>]
    <3>1. \A m \in Before(g, n) : f[m] = h[m]
      BY <1>1, <2>2, <2>5
    <3>2. StartAfter(k, g, f, n) = StartAfter(k, g, h, n)
      BY <3>1 DEF StartAfter
    <3> QED BY <2>1, <3>2
  <2> HIDE DEF G, rank, N
  <2>6. PICK f \in [0 .. N -> Int] : \A n \in 0 .. N : f[n] = G[<<f, n>>]
    BY <1>1, <2>3, <2>4, <2>5, Recursion
  <2>7. Rule(f)
    BY <1>1, <2>1, <2>6
  <2> QED BY <2>7
<1>4. Rule(c)
  <2> HIDE DEF Rule
  <2> QED BY <1>2, <1>3
<1>5. \A n \in 0 .. N : c[n] = StartAfter(k, g, c, n)
  BY <1>1, <1>4
<1>6. DOMAIN c = 0 .. N /\ c = [n \in 0 .. N |-> c[n]]
  BY <1>1, <1>4
<1> HIDE DEF Rule, N
<1>7. \A n \in 0 .. N : c[n] \in Int
  <2> DEFINE S == {n \in 0 .. N : c[n] \notin Int}
  <2> SUFFICES ASSUME S # {} PROVE FALSE
    OBVIOUS
  <2>1. PICK n \in S : \A y \in S : n <= y
    <3>1. S \in SUBSET (0 .. N)
      OBVIOUS
    <3> HIDE DEF S
    <3> QED BY <1>1, <3>1, FirstAndLast
  <2>2. n \in 0 .. N /\ c[n] \notin Int /\ \A m \in 0 .. N : m < n => c[m] \in Int
    <3>1. \A m \in 0 .. N : m < n => ~(n <= m)
      OBVIOUS
    <3> QED BY <2>1, <3>1
  <2>3. \A m \in Before(g, n) : c[m] \in Int
    <3>1. \A a \in g.arcs : a[1] < a[2] /\ a[1] \in 0 .. Len(k)
      BY DEF Demands
    <3> QED BY <2>2, <3>1 DEF Before, N
  <2>4. StartAfter(k, g, c, n) \in Int
    BY <1>1, <2>2, <2>3, StartAfterFacts
  <2> QED BY <1>5, <2>2, <2>4
<1>8. ASSUME NEW n \in 0 .. N
      PROVE  /\ Before(g, n) \subseteq {m \in Nodes(k) : m < n}
             /\ 0 <= c[n]
             /\ \A m \in Before(g, n) : c[m] + Durations(k)[m] <= c[n]
             /\ c[n] = 0 \/ \E m \in Before(g, n) : c[n] = c[m] + Durations(k)[m]
  <2>1. Before(g, n) \subseteq 0 .. N
    <3>1. \A a \in g.arcs : a[1] \in 0 .. Len(k)
      BY DEF Demands
    <3> QED BY <1>1, <3>1 DEF Before, N
  <2>2. \A m \in Before(g, n) : c[m] \in Int
    BY <1>7, <2>1
  <2>3. c[n] = StartAfter(k, g, c, n) /\ n \in Nodes(k)
    BY <1>1, <1>5
  <2> QED BY <2>2, <2>3, StartAfterFacts
<1>9. Respects(c, Durations(k), g.arcs)
  <2> SUFFICES ASSUME NEW a \in g.arcs PROVE Ends(c, Durations(k), a[1], a[2])
    BY DEF Respects
  <2>1. a[2] \in 0 .. N /\ a[1] \in Before(g, a[2])
    BY <1>1 DEF Demands, Before, N
  <2> QED BY <1>8, <2>1 DEF Ends
<1> QED BY <1>1, <1>6, <1>7, <1>8, <1>9

\* The ASAP schedule starts every node as early as any schedule can.
LEMMA AsapFirst ==
  ASSUME NEW k, NEW o, IsKernel(k, o), k # <<>>, NEW g, Demands(k, o, g), NEW c, c = AsapCycles(k, g)
  PROVE  /\ MeetsAll(k, o, c) /\ c[0] = 0
         /\ \A n \in 1 .. Len(k) + 1 :
              /\ 1 <= c[n]
              /\ \E m \in Before(g, n) : m \in Nodes(k) /\ m < n /\ c[n] = c[m] + Durations(k)[m]
         /\ \A n \in 0 .. Len(k) : c[n] + Durations(k)[n] <= c[Len(k) + 1]
         /\ \A e \in [Nodes(k) -> Int] : Respects(e, Durations(k), g.arcs) =>
              \A n \in Nodes(k) : e[0] + c[n] <= e[n]
<1> DEFINE d == Durations(k)
           N == Len(k) + 1
<1>1. /\ c \in [Nodes(k) -> Int] /\ \A n \in Nodes(k) : 0 <= c[n]
      /\ \A n \in Nodes(k) : c[n] = 0 \/ \E m \in Before(g, n) : m \in Nodes(k) /\ c[n] = c[m] + d[m]
      /\ Respects(c, d, g.arcs)
  BY AsapSolved
<1>2. /\ N \in Nat /\ 1 <= N /\ Nodes(k) = 0 .. N /\ DOMAIN k = 1 .. Len(k) /\ Len(k) \in Nat /\ Len(k) >= 1
      /\ d \in [0 .. N -> Nat] /\ d[0] = 1
  <2>1. Len(k) # 0
    BY DEF IsKernel
  <2> QED BY <2>1, KernelNodes
<1>3. MeetsAll(k, o, c)
  BY <1>1 DEF Demands
<1> HIDE DEF d
<1>4. \A n \in 1 .. Len(k) : Ends(c, d, 0, n) /\ Ends(c, d, n, N)
  BY <1>2, <1>3 DEF MeetsAll, d
<1>5. Ends(c, d, 0, N)
  BY <1>3 DEF MeetsAll, d
<1> HIDE DEF N
<1>6. \A n \in Nodes(k) : \A m \in Before(g, n) : <<m, n>> \in g.arcs /\ m < n /\ m \in 0 .. N
  <2>1. \A a \in g.arcs : a = <<a[1], a[2]>> /\ a[1] < a[2] /\ a[1] \in 0 .. Len(k)
    BY DEF Demands
  <2> QED BY <1>2, <2>1 DEF Before, N
<1>7. c[0] = 0
  <2>1. 0 \in Nodes(k)
    BY ONLY <1>2
  <2>2. \A m \in Before(g, 0) : m < 0 /\ m \in 0 .. N
    BY ONLY <1>6, <2>1, ZenonT(30)
  <2>3. \A m \in 0 .. N : ~(m < 0)
    BY ONLY <1>2, SMTT(30)
  <2>4. ~ \E m \in Before(g, 0) : TRUE
    BY ONLY <2>2, <2>3, ZenonT(30)
  <2> QED BY ONLY <1>1, <2>1, <2>4, SMTT(30)
<1>8. ASSUME NEW n \in 1 .. N
      PROVE  1 <= c[n] /\ \E m \in Before(g, n) : m \in Nodes(k) /\ m < n /\ c[n] = c[m] + d[m]
  <2>1. Ends(c, d, 0, n) /\ n \in Nodes(k)
    <3>1. n = N \/ n \in 1 .. Len(k)
      BY <1>2 DEF N
    <3> QED BY <1>2, <1>4, <1>5, <3>1
  <2>2. 1 <= c[n]
    BY <1>2, <1>7, <2>1 DEF Ends
  <2>3. c[n] # 0
    BY <2>2
  <2> QED BY <1>1, <1>6, <2>1, <2>2, <2>3
<1>9. ASSUME NEW n \in 0 .. Len(k) PROVE c[n] + d[n] <= c[N]
  <2>1. n = 0 \/ n \in 1 .. Len(k)
    BY <1>2
  <2> QED BY <1>4, <1>5, <2>1 DEF Ends
<1>10. ASSUME NEW e \in [Nodes(k) -> Int], Respects(e, d, g.arcs), NEW n \in Nodes(k)
       PROVE  e[0] + c[n] <= e[n]
  <2> DEFINE S == {i \in 0 .. N : ~(e[0] + c[i] <= e[i])}
  <2>1. S = {}
    <3> SUFFICES ASSUME S # {} PROVE FALSE
      OBVIOUS
    <3>1. PICK i \in S : \A y \in S : i <= y
      <4>1. S \in SUBSET (0 .. N)
        OBVIOUS
      <4> HIDE DEF S
      <4> QED BY <1>2, <4>1, FirstAndLast
    <3>2. i \in 0 .. N /\ ~(e[0] + c[i] <= e[i])
      OBVIOUS
    <3>3. i \in 1 .. N
      BY <1>2, <1>7, <3>2
    <3>4. PICK m \in Before(g, i) : m \in Nodes(k) /\ m < i /\ c[i] = c[m] + d[m]
      BY <1>8, <3>3
    <3>5. m \in 0 .. N /\ ~(i <= m)
      BY <1>2, <3>3, <3>4
    <3>6. m \notin S
      <4> HIDE DEF S
      <4> QED BY <3>1, <3>5
    <3>7. e[0] + c[m] <= e[m]
      BY <3>5, <3>6
    <3>8. e[m] + d[m] <= e[i]
      <4>1. <<m, i>> \in g.arcs /\ <<m, i>>[1] = m /\ <<m, i>>[2] = i
        BY <1>2, <1>6, <3>2, <3>4
      <4> QED BY <1>10, <4>1 DEF Respects, Ends
    <3>9. /\ e[0] \in Int /\ e[m] \in Int /\ e[i] \in Int /\ c[m] \in Int /\ c[i] \in Int /\ d[m] \in Nat
      BY <1>1, <1>2, <3>2, <3>5
    <3> QED BY <3>2, <3>4, <3>7, <3>8, <3>9
  <2> QED BY <1>2, <2>1
<1> QED BY <1>3, <1>7, <1>8, <1>9, <1>10 DEF d, N

\* Something comes after every node but the sink.
LEMMA HasAfter ==
  ASSUME NEW k, NEW o, IsKernel(k, o), k # <<>>, NEW g, Demands(k, o, g), NEW n \in 0 .. Len(k)
  PROVE  After(g, n) # {}
<1> SUFFICES ASSUME After(g, n) = {} PROVE FALSE
  OBVIOUS
<1> DEFINE d == Durations(k)
           N == Len(k) + 1
           c == AsapCycles(k, g)
           e == [c EXCEPT ![n] = c[N] + 1]
<1>1. c \in [Nodes(k) -> Int] /\ Respects(c, d, g.arcs)
  BY AsapSolved
<1>2. \A i \in 0 .. Len(k) : c[i] + d[i] <= c[N]
  BY AsapFirst
<1>3. /\ N \in Nat /\ Nodes(k) = 0 .. N /\ DOMAIN k = 1 .. Len(k) /\ Len(k) \in Nat
      /\ d \in [0 .. N -> Nat] /\ d[0] = 1
  BY KernelNodes
<1> HIDE DEF c, d
<1>4. n \in 0 .. N /\ N \in 0 .. N /\ n # N /\ 0 \in 0 .. N
  BY <1>3
<1>5. e \in [Nodes(k) -> Int] /\ e[n] = c[N] + 1 /\ \A i \in Nodes(k) \ {n} : e[i] = c[i]
  BY <1>1, <1>3, <1>4
<1> HIDE DEF e
<1>6. ASSUME NEW a \in g.arcs PROVE Ends(e, d, a[1], a[2])
  <2>1. /\ a[1] < a[2] /\ a[1] \in 0 .. Len(k) /\ a[1] \in 0 .. N /\ a[2] \in 0 .. N
    BY <1>3 DEF Demands
  <2>2. a[1] # n
    BY DEF After
  <2>3. c[a[1]] + d[a[1]] <= c[a[2]] /\ c[a[1]] + d[a[1]] <= c[N]
    BY <1>1, <1>2, <2>1 DEF Respects, Ends
  <2>4. e[a[1]] = c[a[1]] /\ (e[a[2]] = c[a[2]] \/ e[a[2]] = c[N] + 1)
    BY <1>3, <1>5, <2>1, <2>2
  <2>5. c[a[1]] \in Int /\ c[a[2]] \in Int /\ c[N] \in Int /\ d[a[1]] \in Nat
    BY <1>1, <1>3, <1>4, <2>1
  <2> QED BY <2>3, <2>4, <2>5 DEF Ends
<1>7. MeetsAll(k, o, e)
  BY <1>5, <1>6 DEF Demands, Respects, d
<1>8. Ends(e, d, n, N)
  <2>1. n = 0 \/ n \in DOMAIN k
    BY <1>3
  <2> QED BY <1>7, <2>1 DEF MeetsAll, d
<1>9. e[N] = c[N] /\ d[n] \in Nat /\ c[N] \in Int
  BY <1>1, <1>3, <1>4, <1>5
<1> QED BY <1>5, <1>8, <1>9 DEF Ends

\* So does something come before every node but the source.
LEMMA HasBefore ==
  ASSUME NEW k, NEW o, IsKernel(k, o), k # <<>>, NEW g, Demands(k, o, g), NEW n \in 1 .. Len(k) + 1
  PROVE  Before(g, n) # {}
BY AsapFirst

-----------------------------------------------------------------------------
(* The length of the longest chain of gates that have to stay in order.    *)

Chain(n) == {m \in 1 .. n - 1 : InConflict(kernel[m], kernel[n], options)}
EndIn(f, n) ==
  IF n = 0 THEN 1 ELSE DurationOf(kernel, n) + Largest({1} \cup {f[m] : m \in Chain(n)})

LEMMA EndsAsap ==
  ASSUME IsKernel(kernel, options), kernel # <<>>, NEW g, Demands(kernel, options, g),
         NEW c, c = AsapCycles(kernel, g)
  PROVE  EndOf = [n \in 0 .. Len(kernel) |-> c[n] + Durations(kernel)[n]]
<1> DEFINE d == Durations(kernel)
           L == Len(kernel)
           f == [n \in 0 .. L |-> c[n] + d[n]]
           Rule(e) == e = [n \in 0 .. L |-> EndIn(e, n)]
<1>1. /\ c \in [Nodes(kernel) -> Int] /\ MeetsAll(kernel, options, c) /\ c[0] = 0
      /\ \A n \in 1 .. L + 1 :
           /\ 1 <= c[n]
           /\ \E m \in Before(g, n) : m \in Nodes(kernel) /\ m < n /\ c[n] = c[m] + d[m]
  BY AsapSolved, AsapFirst
<1>2. /\ L \in Nat /\ Nodes(kernel) = 0 .. L + 1 /\ DOMAIN kernel = 1 .. L
      /\ d \in [0 .. L + 1 -> Nat] /\ d[0] = 1
      /\ \A n \in Nodes(kernel) : d[n] = DurationOf(kernel, n)
  BY KernelNodes
<1>3. \A m, n \in 1 .. L : m < n /\ InConflict(kernel[m], kernel[n], options) => c[m] + d[m] <= c[n]
  BY <1>1, <1>2 DEF MeetsAll, Ends
<1>4. EndOf = CHOOSE e : Rule(e)
  BY DEF EndOf, EndIn, Chain
<1> HIDE DEF d, L
<1>5. ASSUME NEW n \in 0 .. L PROVE f[n] = EndIn(f, n)
  <2>1. CASE n = 0
    BY <1>1, <1>2, <2>1 DEF EndIn
  <2>2. CASE n # 0
    <3> DEFINE S == Values(1, f, Chain(n))
    <3>0. n \in 1 .. L /\ n \in 0 .. L + 1 /\ n \in 1 .. L + 1 /\ n # L + 1
      BY <1>2, <2>2
    <3>1. Chain(n) \in SUBSET (0 .. L) /\ \A m \in Chain(n) : f[m] \in Int
      <4>1. \A m \in Chain(n) : m \in 0 .. L /\ m \in 0 .. L + 1
        BY <1>2, <3>0 DEF Chain
      <4>2. \A m \in 0 .. L : m \in Nodes(kernel) /\ c[m] \in Int /\ d[m] \in Int /\ f[m] = c[m] + d[m]
        BY <1>1, <1>2
      <4> HIDE DEF f
      <4>3. \A m \in 0 .. L : f[m] \in Int
        BY <4>2
      <4> QED BY <4>1, <4>3
    <3>2. EndIn(f, n) = d[n] + Largest(S)
      BY <1>2, <2>2, <3>0 DEF EndIn, Values
    <3>3. 1 \in Int
      OBVIOUS
    <3>4. /\ Largest(S) \in Int /\ 1 <= Largest(S)
          /\ \A m \in Chain(n) : f[m] <= Largest(S)
          /\ Largest(S) = 1 \/ \E m \in Chain(n) : Largest(S) = f[m]
      <4> HIDE DEF f
      <4> QED BY ONLY <1>2, <3>1, <3>3, LargestOf, ZenonT(60)
    <3> HIDE DEF S
    <3>5. c[n] \in Int /\ d[n] \in Nat
      BY <1>1, <1>2, <3>0
    <3>6. Largest(S) <= c[n]
      <4>1. CASE Largest(S) = 1
        BY <1>1, <3>0, <4>1
      <4>2. ASSUME NEW m \in Chain(n), Largest(S) = f[m] PROVE Largest(S) <= c[n]
        <5>1. m \in 1 .. L /\ m < n /\ InConflict(kernel[m], kernel[n], options) /\ m \in 0 .. L
          BY <1>2, <3>0 DEF Chain
        <5> QED BY <1>3, <3>0, <4>2, <5>1
      <4> QED BY <3>4, <4>1, <4>2
    <3>7. c[n] <= Largest(S)
      <4>1. PICK m \in Before(g, n) : m \in Nodes(kernel) /\ m < n /\ c[n] = c[m] + d[m]
        BY <1>1, <3>0
      <4>2. CASE m = 0
        BY <1>1, <1>2, <3>4, <4>1, <4>2
      <4>3. CASE m # 0
        <5>1. m \in 1 .. n - 1 /\ m \in 0 .. L
          BY <1>2, <3>0, <4>1, <4>3
        <5>2. InConflict(kernel[m], kernel[n], options)
          <6>1. PICK a \in g.arcs : a[1] = m /\ a[2] = n
            BY <4>1 DEF Before
          <6> QED BY <3>0, <4>3, <6>1 DEF Demands, L
        <5>3. m \in Chain(n)
          BY <5>1, <5>2 DEF Chain
        <5> QED BY <3>4, <4>1, <5>1, <5>3
      <4> QED BY <4>2, <4>3
    <3>8. Largest(S) = c[n]
      BY <3>4, <3>5, <3>6, <3>7
    <3>9. f[n] = c[n] + d[n]
      OBVIOUS
    <3> HIDE DEF f
    <3> QED BY <3>2, <3>5, <3>8, <3>9
  <2> QED BY <2>1, <2>2
<1>6. Rule(f)
  <2>1. f = [n \in 0 .. L |-> f[n]]
    OBVIOUS
  <2> HIDE DEF f
  <2> QED BY <1>5, <2>1
<1>7. Rule(EndOf)
  <2> HIDE DEF Rule, f
  <2> QED BY <1>4, <1>6
<1>8. \A n \in 0 .. L : EndOf[n] = EndIn(EndOf, n) /\ f[n] = EndIn(f, n)
  <2> HIDE DEF f
  <2> QED BY <1>6, <1>7
<1>9. EndOf = [n \in 0 .. L |-> EndOf[n]] /\ f = [n \in 0 .. L |-> f[n]]
  <2> HIDE DEF f
  <2> QED BY <1>6, <1>7
<1> HIDE DEF Rule, f
<1>10. \A n \in 0 .. L : EndOf[n] = f[n]
  <2> DEFINE S == {n \in 0 .. L : EndOf[n] # f[n]}
  <2> SUFFICES ASSUME S # {} PROVE FALSE
    OBVIOUS
  <2>1. PICK n \in S : \A y \in S : n <= y
    <3>1. S \in SUBSET (0 .. L)
      OBVIOUS
    <3> HIDE DEF S
    <3> QED BY <1>2, <3>1, FirstAndLast
  <2>2. n \in 0 .. L /\ EndOf[n] # f[n] /\ \A m \in 0 .. L : m < n => EndOf[m] = f[m]
    <3>1. \A m \in 0 .. L : m < n => ~(n <= m)
      BY <1>2
    <3> QED BY <2>1, <3>1
  <2>3. \A m \in Chain(n) : EndOf[m] = f[m]
    BY <1>2, <2>2 DEF Chain
  <2>4. EndIn(EndOf, n) = EndIn(f, n)
    BY <2>3 DEF EndIn
  <2> QED BY <1>8, <2>2, <2>4
<1>11. EndOf = f
  BY <1>9, <1>10
<1> QED BY <1>11 DEF f, d, L

\* It is the length of the ASAP schedule.
LEMMA LengthAsap ==
  ASSUME IsKernel(kernel, options), kernel # <<>>, NEW g, Demands(kernel, options, g),
         NEW c, c = AsapCycles(kernel, g)
  PROVE  Largest({EndOf[n] : n \in 0 .. Len(kernel)}) = c[End]
<1> DEFINE d == Durations(kernel)
           L == Len(kernel)
           S == Values(1, EndOf, 0 .. L)
<1>1. EndOf = [n \in 0 .. L |-> c[n] + d[n]]
  BY EndsAsap
<1>2. /\ L \in Nat /\ Nodes(kernel) = 0 .. L + 1 /\ End = L + 1
      /\ d \in [0 .. L + 1 -> Nat] /\ d[0] = 1
  BY KernelNodes DEF End
<1>3. /\ c \in [Nodes(kernel) -> Int] /\ c[0] = 0
      /\ \A n \in 0 .. L : c[n] + d[n] <= c[L + 1]
      /\ 1 <= c[L + 1]
      /\ \E m \in Before(g, L + 1) : m \in Nodes(kernel) /\ m < L + 1 /\ c[L + 1] = c[m] + d[m]
  <2>1. L + 1 \in 1 .. L + 1
    BY <1>2
  <2> QED BY <2>1, AsapSolved, AsapFirst
<1> HIDE DEF d, L
<1>4. \A n \in 0 .. L : EndOf[n] = c[n] + d[n] /\ EndOf[n] \in Int
  BY <1>1, <1>2, <1>3
<1>5. EndOf[0] = 1 /\ 0 \in 0 .. L
  BY <1>2, <1>3, <1>4
<1>6. S = {EndOf[n] : n \in 0 .. L}
  BY <1>5 DEF Values
<1>7. /\ Largest(S) \in Int /\ 1 <= Largest(S)
      /\ \A m \in 0 .. L : EndOf[m] <= Largest(S)
      /\ Largest(S) = 1 \/ \E m \in 0 .. L : Largest(S) = EndOf[m]
  <2>1. (0 .. L) \in SUBSET (0 .. L) /\ 1 \in Int
    OBVIOUS
  <2>2. L \in Nat
    BY <1>2
  <2>3. \A m \in 0 .. L : EndOf[m] \in Int
    BY <1>4
  <2> QED BY ONLY <2>1, <2>2, <2>3, LargestOf, ZenonT(60)
<1> HIDE DEF S
<1>8. Largest(S) <= c[L + 1]
  BY <1>3, <1>4, <1>7
<1>9. c[L + 1] <= Largest(S)
  <2>1. PICK m : m \in Nodes(kernel) /\ m < L + 1 /\ c[L + 1] = c[m] + d[m]
    BY <1>3
  <2>2. m \in 0 .. L
    BY <1>2, <2>1
  <2> QED BY <1>4, <1>7, <2>1, <2>2
<1>10. c[L + 1] \in Int
  <2>1. L + 1 \in Nodes(kernel)
    BY <1>2
  <2> QED BY <1>3, <2>1
<1>11. Largest(S) = c[L + 1]
  BY <1>7, <1>8, <1>9, <1>10
<1> QED BY <1>2, <1>6, <1>11 DEF L

\* When a gate has to start, given when those after it do.
StartBefore(g, f, n) ==
  Smallest({ALAP_SINK_CYCLE} \cup {f[m] - DurationOf(kernel, n) : m \in After(g, n)})

LEMMA StartBeforeFacts ==
  ASSUME IsKernel(kernel, options), NEW g, Demands(kernel, options, g), NEW n \in Nodes(kernel),
         NEW f, \A m \in After(g, n) : f[m] \in Int
  PROVE  /\ After(g, n) \subseteq {m \in Nodes(kernel) : n < m}
         /\ StartBefore(g, f, n) \in Int /\ StartBefore(g, f, n) <= ALAP_SINK_CYCLE
         /\ \A m \in After(g, n) : StartBefore(g, f, n) + Durations(kernel)[n] <= f[m]
         /\ \/ StartBefore(g, f, n) = ALAP_SINK_CYCLE
            \/ \E m \in After(g, n) : StartBefore(g, f, n) + Durations(kernel)[n] = f[m]
<1> DEFINE B == After(g, n)
           v == [m \in B |-> f[m] - DurationOf(kernel, n)]
           S == Values(ALAP_SINK_CYCLE, v, B)
<1>1. /\ Len(kernel) \in Nat /\ Nodes(kernel) = 0 .. Len(kernel) + 1
      /\ Durations(kernel)[n] = DurationOf(kernel, n) /\ Durations(kernel)[n] \in Nat
  BY KernelNodes
<1>2. B \subseteq {m \in Nodes(kernel) : n < m}
  <2>1. \A a \in g.arcs : a[1] < a[2] /\ a[2] \in 1 .. Len(kernel) + 1
    BY DEF Demands
  <2> QED BY <1>1, <2>1 DEF After
<1>3. /\ B \in SUBSET (0 .. Len(kernel) + 1)
      /\ \A m \in B : v[m] + Durations(kernel)[n] = f[m] /\ v[m] \in Int
  BY <1>1, <1>2
<1>4. StartBefore(g, f, n) = Smallest(S)
  BY DEF StartBefore, Values
<1> HIDE DEF B, v
<1>5. /\ Smallest(S) \in Int /\ Smallest(S) <= ALAP_SINK_CYCLE
      /\ \A m \in B : Smallest(S) <= v[m]
      /\ Smallest(S) = ALAP_SINK_CYCLE \/ \E m \in B : Smallest(S) = v[m]
  <2> DEFINE N == Len(kernel) + 1
  <2>1. N \in Nat /\ B \in SUBSET (0 .. N) /\ \A m \in B : v[m] \in Int
    BY <1>1, <1>3
  <2> HIDE DEF N
  <2>2. ALAP_SINK_CYCLE \in Int
    BY SinkCycleAssumption
  <2> QED BY ONLY <2>1, <2>2, LargestOf, ZenonT(60)
<1> HIDE DEF S
<1>6. /\ StartBefore(g, f, n) \in Int /\ StartBefore(g, f, n) <= ALAP_SINK_CYCLE
      /\ \A m \in B : StartBefore(g, f, n) + Durations(kernel)[n] <= f[m]
      /\ \/ StartBefore(g, f, n) = ALAP_SINK_CYCLE
         \/ \E m \in B : StartBefore(g, f, n) + Durations(kernel)[n] = f[m]
  BY <1>1, <1>3, <1>4, <1>5
<1> QED BY <1>2, <1>6 DEF B

\* The ALAP schedule is the solution of its equations.
LEMMA AlapSolved ==
  ASSUME IsKernel(kernel, options), NEW g, Demands(kernel, options, g), NEW c, c = AlapCycles(g)
  PROVE  /\ c \in [Nodes(kernel) -> Int]
         /\ \A n \in Nodes(kernel) :
              \/ c[n] = ALAP_SINK_CYCLE
              \/ \E m \in After(g, n) : m \in Nodes(kernel) /\ n < m /\ c[n] + Durations(kernel)[n] = c[m]
         /\ Respects(c, Durations(kernel), g.arcs)
<1> DEFINE N == Len(kernel) + 1
           Rule(f) == f = [n \in Nodes(kernel) |-> StartBefore(g, f, n)]
<1>1. N \in Nat /\ Nodes(kernel) = 0 .. N
  BY KernelNodes
<1>2. c = CHOOSE f : Rule(f)
  BY DEF AlapCycles, StartBefore
<1>0. \A n \in Nodes(kernel) : After(g, n) \subseteq {m \in Nodes(kernel) : n < m}
  <2>1. \A a \in g.arcs : a[1] < a[2] /\ a[2] \in 1 .. Len(kernel) + 1
    BY DEF Demands
  <2> QED BY <1>1, <2>1 DEF After
<1>3. \E f : Rule(f)
  <2> DEFINE rank == [n \in 0 .. N |-> N - n]
             G == [p \in [0 .. N -> Int] \X (0 .. N) |-> StartBefore(g, p[1], p[2])]
  <2>1. \A f \in [0 .. N -> Int], n \in 0 .. N : G[<<f, n>>] = StartBefore(g, f, n)
    OBVIOUS
  <2>2. \A f \in [0 .. N -> Int], n \in 0 .. N : StartBefore(g, f, n) \in Int
    <3> SUFFICES ASSUME NEW f \in [0 .. N -> Int], NEW n \in 0 .. N
                 PROVE  StartBefore(g, f, n) \in Int
      OBVIOUS
    <3>1. \A m \in After(g, n) : f[m] \in Int
      BY <1>0, <1>1
    <3> QED BY <1>1, <3>1, StartBeforeFacts
  <2>3. G \in [[0 .. N -> Int] \X (0 .. N) -> Int]
    BY <2>2
  <2>4. rank \in [0 .. N -> 0 .. N]
    BY <1>1
  <2>5. ASSUME NEW n \in 0 .. N, NEW f \in [0 .. N -> Int], NEW h \in [0 .. N -> Int],
               \A m \in 0 .. N : rank[m] < rank[n] => f[m] = h[m]
        PROVE  G[<<f, n>>] = G[<<h, n>>]
    <3>1. \A m \in After(g, n) : f[m] = h[m]
      <4>1. \A m \in 0 .. N : n < m => rank[m] < rank[n]
        BY <1>1
      <4> QED BY <1>0, <1>1, <2>5, <4>1
    <3>2. StartBefore(g, f, n) = StartBefore(g, h, n)
      BY <3>1 DEF StartBefore
    <3> QED BY <2>1, <3>2
  <2> HIDE DEF G, rank, N
  <2>6. PICK f \in [0 .. N -> Int] : \A n \in 0 .. N : f[n] = G[<<f, n>>]
    BY <1>1, <2>3, <2>4, <2>5, Recursion
  <2>7. Rule(f)
    BY <1>1, <2>1, <2>6
  <2> QED BY <2>7
<1>4. Rule(c)
  <2> HIDE DEF Rule
  <2> QED BY <1>2, <1>3
<1>5. \A n \in 0 .. N : c[n] = StartBefore(g, c, n)
  BY <1>1, <1>4
<1>6. DOMAIN c = 0 .. N /\ c = [n \in 0 .. N |-> c[n]]
  BY <1>1, <1>4
<1> HIDE DEF Rule, N
<1>7. \A n \in 0 .. N : c[n] \in Int
  <2> DEFINE S == {n \in 0 .. N : c[n] \notin Int}
  <2> SUFFICES ASSUME S # {} PROVE FALSE
    OBVIOUS
  <2>1. PICK n \in S : \A y \in S : y <= n
    <3>1. S \in SUBSET (0 .. N)
      OBVIOUS
    <3> HIDE DEF S
    <3> QED BY <1>1, <3>1, FirstAndLast
  <2>2. n \in 0 .. N /\ c[n] \notin Int /\ \A m \in 0 .. N : n < m => c[m] \in Int
    <3>1. \A m \in 0 .. N : n < m => ~(m <= n)
      OBVIOUS
    <3> QED BY <2>1, <3>1
  <2>3. \A m \in After(g, n) : c[m] \in Int
    BY <1>0, <1>1, <2>2
  <2>4. StartBefore(g, c, n) \in Int
    BY <1>1, <2>2, <2>3, StartBeforeFacts
  <2> QED BY <1>5, <2>2, <2>4
<1>8. ASSUME NEW n \in 0 .. N
      PROVE  /\ c[n] <= ALAP_SINK_CYCLE
             /\ \A m \in After(g, n) : c[n] + Durations(kernel)[n] <= c[m]
             /\ \/ c[n] = ALAP_SINK_CYCLE
                \/ \E m \in After(g, n) : c[n] + Durations(kernel)[n] = c[m]
  <2>1. \A m \in After(g, n) : c[m] \in Int
    BY <1>0, <1>1, <1>7
  <2>2. c[n] = StartBefore(g, c, n) /\ n \in Nodes(kernel)
    BY <1>1, <1>5
  <2> QED BY <2>1, <2>2, StartBeforeFacts
<1>9. Respects(c, Durations(kernel), g.arcs)
  <2> SUFFICES ASSUME NEW a \in g.arcs PROVE Ends(c, Durations(kernel), a[1], a[2])
    BY DEF Respects
  <2>1. a[1] \in 0 .. N /\ a[2] \in After(g, a[1])
    BY <1>1 DEF Demands, After, N
  <2> QED BY <1>8, <2>1 DEF Ends
<1> QED BY <1>0, <1>1, <1>6, <1>7, <1>8, <1>9

\* Moving all nodes by as many cycles changes nothing.
LEMMA ShiftedRespects ==
  ASSUME IsKernel(kernel, options), NEW g, Demands(kernel, options, g),
         NEW c \in [Nodes(kernel) -> Int], Respects(c, Durations(kernel), g.arcs)
  PROVE  /\ Shifted(c) \in [Nodes(kernel) -> Int] /\ Respects(Shifted(c), Durations(kernel), g.arcs)
         /\ Shifted(c)[0] = 0
         /\ \A n \in Nodes(kernel) : Shifted(c)[n] = c[n] - c[0]
<1> DEFINE d == Durations(kernel)
           N == Len(kernel) + 1
<1>1. /\ N \in Nat /\ Nodes(kernel) = 0 .. N /\ d \in [0 .. N -> Nat]
      /\ \A a \in g.arcs : a[1] \in 0 .. N /\ a[2] \in 0 .. N
  <2>1. Len(kernel) \in Nat /\ Nodes(kernel) = 0 .. N /\ d \in [0 .. N -> Nat]
    BY KernelNodes
  <2>2. \A a \in g.arcs : a[1] \in 0 .. Len(kernel) /\ a[2] \in 1 .. Len(kernel) + 1
    BY DEF Demands
  <2> QED BY <2>1, <2>2
<1> HIDE DEF N, d
<1>2. Shifted(c) = [n \in 0 .. N |-> c[n] - c[0]] /\ 0 \in 0 .. N /\ \A n \in 0 .. N : c[n] \in Int
  BY <1>1 DEF Shifted
<1>3. /\ Shifted(c) \in [Nodes(kernel) -> Int] /\ Shifted(c)[0] = 0
      /\ \A n \in Nodes(kernel) : Shifted(c)[n] = c[n] - c[0]
  BY <1>1, <1>2
<1>4. ASSUME NEW a \in g.arcs PROVE Ends(Shifted(c), d, a[1], a[2])
  <2>1. c[a[1]] + d[a[1]] <= c[a[2]]
    BY DEF Respects, Ends, d
  <2>2. /\ Shifted(c)[a[1]] = c[a[1]] - c[0] /\ Shifted(c)[a[2]] = c[a[2]] - c[0]
        /\ c[a[1]] \in Int /\ c[a[2]] \in Int /\ c[0] \in Int /\ d[a[1]] \in Int
    <3>1. a[1] \in 0 .. N /\ a[2] \in 0 .. N
      BY <1>1
    <3>2. \A n \in 0 .. N : Shifted(c)[n] = c[n] - c[0] /\ c[n] \in Int /\ d[n] \in Nat
      BY <1>1, <1>2, <1>3
    <3> QED BY ONLY <1>2, <3>1, <3>2
  <2> QED BY <2>1, <2>2 DEF Ends
<1> QED BY <1>3, <1>4 DEF Respects, d

\* The ALAP schedule is as long as the ASAP schedule.
LEMMA AlapLength ==
  ASSUME IsKernel(kernel, options), kernel # <<>>, NEW g, Demands(kernel, options, g)
  PROVE  Shifted(AlapCycles(g))[End] = AsapCycles(kernel, g)[End]
<1> DEFINE d == Durations(kernel)
           N == Len(kernel) + 1
           alap == AlapCycles(g)
           asap == AsapCycles(kernel, g)
           sunk == Shifted(alap)
<1>1. /\ N \in Nat /\ Nodes(kernel) = 0 .. N /\ d \in [0 .. N -> Nat] /\ End = N
  BY KernelNodes DEF End
<1>2. /\ alap \in [Nodes(kernel) -> Int] /\ Respects(alap, d, g.arcs)
      /\ \A n \in Nodes(kernel) :
           \/ alap[n] = ALAP_SINK_CYCLE
           \/ \E m \in After(g, n) : m \in Nodes(kernel) /\ n < m /\ alap[n] + d[n] = alap[m]
  BY AlapSolved
<1>3. /\ asap \in [Nodes(kernel) -> Int] /\ Respects(asap, d, g.arcs)
  BY AsapSolved
<1>4. /\ asap[0] = 0
      /\ \A n \in 0 .. Len(kernel) : asap[n] + d[n] <= asap[N]
      /\ \A e \in [Nodes(kernel) -> Int] : Respects(e, d, g.arcs) =>
              \A n \in Nodes(kernel) : e[0] + asap[n] <= e[n]
  BY AsapFirst
<1> HIDE DEF alap, asap
<1>5. /\ sunk \in [Nodes(kernel) -> Int] /\ Respects(sunk, d, g.arcs) /\ sunk[0] = 0
      /\ \A n \in Nodes(kernel) : sunk[n] = alap[n] - alap[0]
  BY <1>2, ShiftedRespects
<1> HIDE DEF sunk, d
<1>6. asap[N] <= sunk[N]
  <2>1. N \in Nodes(kernel) /\ asap[N] \in Int
    BY <1>1, <1>3
  <2> QED BY <1>4, <1>5, <2>1
<1>7. \A n \in 0 .. N : asap[n] <= asap[N]
  <2>1. \A n \in 0 .. N : n = N \/ n \in 0 .. Len(kernel)
    BY <1>1 DEF N
  <2>2. \A n \in 0 .. N : asap[n] \in Int /\ d[n] \in Nat
    BY <1>1, <1>3
  <2> HIDE DEF N
  <2>3. N \in 0 .. N
    BY <1>1
  <2> QED BY <1>4, <2>1, <2>2, <2>3
<1> HIDE DEF N
<1>8. alap[N] = ALAP_SINK_CYCLE
  <2>1. N \in Nodes(kernel) /\ \A m \in Nodes(kernel) : ~(N < m)
    BY <1>1
  <2> QED BY <1>2, <2>1
<1>9. \A n \in 0 .. N : ALAP_SINK_CYCLE - asap[N] + asap[n] <= alap[n]
  <2> DEFINE S == {n \in 0 .. N : ~(ALAP_SINK_CYCLE - asap[N] + asap[n] <= alap[n])}
  <2> SUFFICES ASSUME S # {} PROVE FALSE
    OBVIOUS
  <2>1. PICK n \in S : \A y \in S : y <= n
    <3>1. S \in SUBSET (0 .. N)
      OBVIOUS
    <3> HIDE DEF S
    <3> QED BY <1>1, <3>1, FirstAndLast
  <2>2. n \in 0 .. N /\ ~(ALAP_SINK_CYCLE - asap[N] + asap[n] <= alap[n])
    OBVIOUS
  <2>3. ALAP_SINK_CYCLE \in Int /\ asap[N] \in Int /\ asap[n] \in Int /\ alap[n] \in Int /\ d[n] \in Nat
    BY <1>1, <1>2, <1>3, <2>2, SinkCycleAssumption
  <2>4. alap[n] # ALAP_SINK_CYCLE
    BY <1>7, <2>2, <2>3
  <2>5. PICK m \in After(g, n) : m \in Nodes(kernel) /\ n < m /\ alap[n] + d[n] = alap[m]
    BY <1>1, <1>2, <2>2, <2>4
  <2>6. m \in 0 .. N /\ ~(m <= n) /\ asap[m] \in Int /\ alap[m] \in Int
    BY <1>1, <1>2, <1>3, <2>2, <2>5
  <2>7. m \notin S
    <3> HIDE DEF S
    <3> QED BY <2>1, <2>6
  <2>8. ALAP_SINK_CYCLE - asap[N] + asap[m] <= alap[m]
    BY <2>6, <2>7
  <2>9. asap[n] + d[n] <= asap[m]
    <3>1. PICK a \in g.arcs : a[1] = n /\ a[2] = m
      BY <2>5 DEF After
    <3> QED BY <1>3, <3>1 DEF Respects, Ends
  <2> QED BY ONLY <2>2, <2>3, <2>5, <2>6, <2>8, <2>9
<1>10. sunk[N] <= asap[N]
  <2>1. 0 \in 0 .. N /\ N \in 0 .. N
    BY <1>1
  <2>2. asap[N] \in Int /\ alap[0] \in Int /\ alap[N] \in Int
    BY <1>1, <1>2, <1>3, <2>1
  <2>3. ALAP_SINK_CYCLE - asap[N] <= alap[0]
    BY <1>4, <1>9, <2>1, <2>2, SinkCycleAssumption
  <2> QED BY <1>1, <1>5, <1>8, <2>1, <2>2, <2>3
<1>11. sunk[N] \in Int /\ asap[N] \in Int
  BY <1>1, <1>3, <1>5
<1>12. sunk[N] = asap[N]
  BY <1>6, <1>10, <1>11
<1> QED BY <1>1, <1>12 DEF sunk, alap, asap

-----------------------------------------------------------------------------
(* The invariant of the graph.                                             *)

Outcomes == {"building", "listing", "uniform", "done", "fatal"}

\* What job and outcome say of the kernel and its graph.
GraphInv ==
  /\ job \in Jobs /\ options = job.schedule /\ outcome \in Outcomes
  /\ kernel = <<>> => outcome = "building" /\ built = 0 /\ graph = EmptyGraph
  /\ IsKernel(kernel, options) =>
       /\ outcome = "building" =>
            built \in 0 .. Len(kernel) /\ Records(graph, GateHistory(kernel, options, built), built)
       /\ outcome \in {"listing", "uniform", "done"} =>
            kernel # <<>> /\ Demands(kernel, options, graph)

\* The steps after those that build the graph.
Schedules == ListStep \/ FinishListing \/ UniformMove \/ UniformNextCycle \/ FinishUniform

LEMMA JobKept ==
  ASSUME MapperNext
  PROVE  UNCHANGED job
BY DEF MapperNext, SetKernel, MapNonQuantum, MapSingle, MapNeighbours, Complete, Route,
       RouteNowhere, RouteAll, FinishRoute, Decompose, FinishDecompose

LEMMA NothingHistory ==
  ASSUME NEW k, NEW o
  PROVE  GateHistory(k, o, 0) = SourceHistory
<1>1. 1 .. 0 = {}
  OBVIOUS
<1> QED BY <1>1 DEF GateHistory

LEMMA GraphStarts == Init => GraphInv
<1> SUFFICES ASSUME Init PROVE GraphInv
  OBVIOUS
<1>1. /\ job \in Jobs /\ options = job.schedule /\ kernel = <<>> /\ built = 0 /\ graph = EmptyGraph
      /\ outcome = "building"
  BY DEF Init, MapperInit, StartOf
<1>2. 0 \in 0 .. Len(kernel)
  BY <1>1
<1>3. Records(graph, GateHistory(kernel, options, 0), 0)
  BY <1>1, NothingHistory, SourceRecorded
<1> QED BY <1>1, <1>2, <1>3 DEF GraphInv, Outcomes

\* The graph that FinishInit completes.
LEMMA ClosedGraph ==
  ASSUME GraphInv, IsKernel(kernel, options), outcome = "building", built = Len(kernel), IsDag(Closed)
  PROVE  Demands(kernel, options, Closed)
<1>1. Records(graph, GateHistory(kernel, options, Len(kernel)), Len(kernel))
  BY DEF GraphInv
<1>2. Records(AddSink(graph, Len(kernel) + 1), WholeHistory(kernel, options), Len(kernel) + 1)
  BY <1>1, SinkRecorded
<1>3. Closed = AddSink(graph, Len(kernel) + 1)
  BY DEF Closed, End, Sink
<1> QED BY <1>2, <1>3, ClosedDemands

LEMMA GraphStep ==
  ASSUME GraphInv, [Next]_vars
  PROVE  GraphInv'
<1>1. CASE Map \/ UNCHANGED vars
  <2>1. UNCHANGED <<job, kernel, options, graph, built, outcome>>
    BY <1>1, JobKept DEF Map, vars, mapperVars, schedulerVars, graphVars
  <2> QED BY <2>1 DEF GraphInv
<1>2. CASE Hand
  <2>1. /\ outcome = "building" /\ built = 0 /\ kernel = <<>> /\ kernel' # <<>>
        /\ UNCHANGED <<job, options, graph, built, outcome>>
    BY <1>2 DEF Hand, mapperVars
  <2>2. graph = EmptyGraph
    BY <2>1 DEF GraphInv
  <2>3. Records(graph', GateHistory(kernel', options', 0), 0)
    BY <2>1, <2>2, NothingHistory, SourceRecorded
  <2>4. IsKernel(kernel', options') => 0 \in 0 .. Len(kernel')
    BY KernelNodes
  <2> QED BY <2>1, <2>3, <2>4 DEF GraphInv
<1>3. CASE RunScheduler
  <2>1. kernel # <<>> /\ SchedulerNext /\ UNCHANGED job
    BY <1>3 DEF RunScheduler, mapperVars
  <2>2. CASE InitGate
    <3>1. /\ outcome = "building" /\ built < Len(kernel) /\ built' = built + 1
          /\ graph' = AddGate(graph, built + 1, kernel[built + 1], options)
          /\ UNCHANGED <<job, kernel, options, outcome>>
      BY <2>1, <2>2 DEF InitGate
    <3>2. ASSUME IsKernel(kernel, options)
          PROVE  /\ built' \in 0 .. Len(kernel)
                 /\ Records(graph', GateHistory(kernel, options, built'), built')
      <4>1. built \in 0 .. Len(kernel) /\ Records(graph, GateHistory(kernel, options, built), built)
        BY <3>1, <3>2 DEF GraphInv
      <4>2. Len(kernel) \in Nat
        BY <3>2, KernelNodes
      <4>3. built \in Nat /\ built + 1 \in 0 .. Len(kernel)
        BY <3>1, <4>1, <4>2
      <4>4. Records(graph', GateHistory(kernel, options, built + 1), built + 1)
        BY <3>1, <3>2, <4>1, <4>3, GateRecorded
      <4> QED BY <3>1, <4>3, <4>4
    <3> QED BY <2>1, <3>1, <3>2 DEF GraphInv
  <2>3. CASE FinishInit
    <3>1. /\ outcome = "building" /\ built = Len(kernel) /\ graph' = Closed
          /\ UNCHANGED <<kernel, options, built, job>>
          /\ outcome' \in {"fatal", "done", "listing", "uniform"}
          /\ outcome' # "fatal" => IsDag(Closed)
      BY <2>1, <2>3 DEF FinishInit, Refused, StartUnconstrained, StartListing, StartUniform
    <3>2. IsKernel(kernel, options) /\ outcome' # "fatal" => Demands(kernel', options', graph')
      BY <3>1, ClosedGraph
    <3> QED BY <2>1, <3>1, <3>2 DEF GraphInv, Outcomes
  <2>4. CASE Schedules
    <3>1. /\ UNCHANGED <<job, kernel, options, graph, built>>
          /\ outcome \in {"listing", "uniform"} /\ outcome' \in {"listing", "uniform", "done"}
      BY <2>1, <2>4 DEF Schedules, ListStep, FinishListing, UniformMove, UniformNextCycle, FinishUniform, graphVars
    <3> QED BY <2>1, <3>1 DEF GraphInv, Outcomes
  <2> QED BY <2>1, <2>2, <2>3, <2>4 DEF SchedulerNext, Schedules
<1> QED BY <1>1, <1>2, <1>3 DEF Next

-----------------------------------------------------------------------------
(* Schedules, and the uniform scheduler.                                   *)

Fits(g, c) == c \in [Nodes(kernel) -> Int] /\ Respects(c, Durations(kernel), g.arcs)

\* From cycle 0 to the end of the longest chain.
Shortest(g, c) == Fits(g, c) /\ c[0] = 0 /\ c[End] = AsapCycles(kernel, g)[End]

SortedBy(c, list) ==
  /\ list \in [1 .. Len(kernel) -> 1 .. Len(kernel)]
  /\ \A n \in 1 .. Len(kernel) : \E i \in 1 .. Len(kernel) : list[i] = n
  /\ \A i, j \in 1 .. Len(kernel) : list[i] = list[j] => i = j
  /\ \A i, j \in 1 .. Len(kernel) : i < j => Earlier(c, list[i], list[j])

\* A bundle lists gates of its cycle, each once.
Bundle(list, at, c) ==
  /\ list \in Seq(1 .. Len(kernel))
  /\ \A i \in DOMAIN list : c[list[i]] = at
  /\ \A i, j \in DOMAIN list : list[i] = list[j] => i = j

UniformInv ==
  /\ ~options.constrained /\ Shortest(graph, cycle)
  /\ DOMAIN gates_per_cycle = 1 .. Len(gates_per_cycle) /\ Len(gates_per_cycle) \in Nat
  /\ \A at \in DOMAIN gates_per_cycle : Bundle(gates_per_cycle[at], at, cycle)
  /\ curr_cycle \in Int /\ curr_cycle <= Len(gates_per_cycle)
  /\ pred_cycle \in Int /\ pred_cycle < curr_cycle

LEMMA UnconstrainedShortest ==
  ASSUME IsKernel(kernel, options), kernel # <<>>, NEW g, Demands(kernel, options, g)
  PROVE  Shortest(g, AsapCycles(kernel, g)) /\ Shortest(g, Shifted(AlapCycles(g)))
<1>1. Fits(g, AsapCycles(kernel, g)) /\ AsapCycles(kernel, g)[0] = 0
  BY AsapSolved, AsapFirst DEF Fits
<1>2. Fits(g, Shifted(AlapCycles(g))) /\ Shifted(AlapCycles(g))[0] = 0
  BY AlapSolved, ShiftedRespects DEF Fits
<1> QED BY <1>1, <1>2, AlapLength DEF Shortest

LEMMA SortsBy ==
  ASSUME IsKernel(kernel, options), NEW c \in [Nodes(kernel) -> Int]
  PROVE  SortedBy(c, ByCycle(c))
<1>1. Len(kernel) \in Nat /\ DOMAIN kernel = 1 .. Len(kernel) /\ Nodes(kernel) = 0 .. Len(kernel) + 1
  BY KernelNodes
<1>2. \A n \in 1 .. Len(kernel) : c[n] \in Int
  BY <1>1
<1> QED BY <1>1, <1>2, SortedByCycle DEF SortedBy

\* Moving all nodes by as many cycles does not change the order.
LEMMA SortsShifted ==
  ASSUME IsKernel(kernel, options), NEW g, Demands(kernel, options, g), NEW c, Fits(g, c)
  PROVE  SortedBy(Shifted(c), ByCycle(c))
<1>1. /\ Len(kernel) \in Nat /\ Nodes(kernel) = 0 .. Len(kernel) + 1 /\ c \in [Nodes(kernel) -> Int]
      /\ \A n \in Nodes(kernel) : Shifted(c)[n] = c[n] - c[0]
      /\ SortedBy(c, ByCycle(c))
  BY KernelNodes, ShiftedRespects, SortsBy DEF Fits
<1>2. \A m, n \in 1 .. Len(kernel) : Earlier(c, m, n) => Earlier(Shifted(c), m, n)
  <2>1. \A n \in 0 .. Len(kernel) : c[n] \in Int /\ Shifted(c)[n] = c[n] - c[0]
    BY <1>1
  <2>2. 0 \in 0 .. Len(kernel) /\ \A n \in 1 .. Len(kernel) : n \in 0 .. Len(kernel)
    BY <1>1
  <2> QED BY <2>1, <2>2 DEF Earlier
<1>3. \A i \in 1 .. Len(kernel) : ByCycle(c)[i] \in 1 .. Len(kernel)
  BY <1>1 DEF SortedBy
<1> QED BY <1>1, <1>2, <1>3 DEF SortedBy

LEMMA Removed ==
  ASSUME NEW S, NEW list \in Seq(S), NEW i \in DOMAIN list,
         \A j, k \in DOMAIN list : list[j] = list[k] => j = k
  PROVE  LET rest == RemoveAt(list, i)
         IN /\ rest \in Seq(S)
            /\ \A j \in DOMAIN rest : \E k \in DOMAIN list : k # i /\ rest[j] = list[k]
            /\ \A j, k \in DOMAIN rest : rest[j] = rest[k] => j = k
<1> DEFINE L == Len(list)
           rest == RemoveAt(list, i)
<1>1. L \in Nat /\ DOMAIN list = 1 .. L /\ i \in 1 .. L
  OBVIOUS
<1>2. /\ SubSeq(list, 1, i - 1) \in Seq(S) /\ Len(SubSeq(list, 1, i - 1)) = i - 1
      /\ \A j \in 1 .. i - 1 : SubSeq(list, 1, i - 1)[j] = list[j]
  BY <1>1
<1>3. /\ SubSeq(list, i + 1, L) \in Seq(S) /\ Len(SubSeq(list, i + 1, L)) = L - i
      /\ \A j \in 1 .. L - i : SubSeq(list, i + 1, L)[j] = list[i + j]
  <2>1. i + 1 \in 1 .. L + 1 /\ i + 1 \in Nat /\ L \in Nat
    BY <1>1
  <2>2. \A j \in i + 1 .. L : list[j] \in S
    BY <1>1
  <2>3. SubSeq(list, i + 1, L) \in Seq(S)
    BY <2>1, <2>2
  <2>4. Len(SubSeq(list, i + 1, L)) = L - i
    BY <1>1, <2>1
  <2>5. ASSUME NEW j \in 1 .. L - i PROVE SubSeq(list, i + 1, L)[j] = list[i + j]
    <3>1. j \in Nat /\ 1 <= j /\ j <= L - i /\ (i + 1) + j - 1 = i + j
      BY <1>1
    <3> QED BY <1>1, <2>1, <3>1
  <2> QED BY <2>3, <2>4, <2>5
<1>4. rest = SubSeq(list, 1, i - 1) \o SubSeq(list, i + 1, L)
  BY DEF RemoveAt
<1> HIDE DEF rest, L
<1>5. /\ rest \in Seq(S) /\ DOMAIN rest = 1 .. L - 1
      /\ \A j \in 1 .. i - 1 : rest[j] = list[j]
      /\ \A j \in i .. L - 1 : rest[j] = list[j + 1]
  <2> DEFINE s == SubSeq(list, 1, i - 1)  t == SubSeq(list, i + 1, L)
  <2>1. /\ s \in Seq(S) /\ t \in Seq(S) /\ Len(s) = i - 1 /\ Len(t) = L - i /\ rest = s \o t
        /\ (\A j \in 1 .. i - 1 : s[j] = list[j]) /\ \A j \in 1 .. L - i : t[j] = list[i + j]
    BY <1>2, <1>3, <1>4
  <2> HIDE DEF s, t
  <2>2. rest \in Seq(S) /\ Len(rest) = L - 1
    <3>1. s \o t \in Seq(S)
      BY <2>1
    <3>2. Len(s \o t) = Len(s) + Len(t)
      BY <2>1
    <3> QED BY <1>1, <2>1, <3>1, <3>2
  <2>3. \A j \in 1 .. i - 1 : rest[j] = s[j]
    BY <1>1, <2>1
  <2>4. \A j \in i .. L - 1 : rest[j] = t[j - (i - 1)] /\ j - (i - 1) \in 1 .. L - i
    BY <1>1, <2>1
  <2>5. \A j \in i .. L - 1 : i + (j - (i - 1)) = j + 1
    BY <1>1
  <2> QED BY <2>1, <2>2, <2>3, <2>4, <2>5
<1> DEFINE from(j) == IF j < i THEN j ELSE j + 1
<1>6. \A j \in 1 .. L - 1 : from(j) \in 1 .. L /\ from(j) # i /\ rest[j] = list[from(j)]
  BY <1>1, <1>5
<1>7. \A j, k \in 1 .. L - 1 : from(j) = from(k) => j = k
  BY <1>1
<1> HIDE DEF from
<1>8. /\ \A j \in DOMAIN rest : \E k \in DOMAIN list : k # i /\ rest[j] = list[k]
      /\ \A j, k \in DOMAIN rest : rest[j] = rest[k] => j = k
  BY <1>1, <1>5, <1>6, <1>7
<1> QED BY <1>5, <1>8 DEF rest

LEMMA UniformStarts ==
  ASSUME IsKernel(kernel, options), kernel # <<>>, Demands(kernel, options, Closed),
         StartUniform(Closed), graph' = Closed, UNCHANGED <<kernel, options>>
  PROVE  UniformInv'
<1> DEFINE asap == AsapCycles(kernel, Closed)
           L == Len(kernel)
           S == Values(CycleCount(asap), asap, DOMAIN kernel)
           M == Largest(S)
<1>1. /\ L \in Nat /\ DOMAIN kernel = 1 .. L /\ Nodes(kernel) = 0 .. L + 1 /\ End = L + 1
  BY KernelNodes DEF End
<1>2. Shortest(Closed, asap)
  BY UnconstrainedShortest
<1>3. 1 <= asap[End]
  <2>1. End \in 1 .. L + 1
    BY <1>1
  <2> QED BY <1>1, <2>1, AsapFirst
<1>4. /\ cycle' = asap /\ ~options.constrained
      /\ gates_per_cycle' = [c \in 1 .. M |-> Ascending({n \in DOMAIN kernel : asap[n] = c})]
      /\ curr_cycle' = CycleCount(asap) /\ pred_cycle' = CycleCount(asap) - 1
  BY DEF StartUniform, Values
<1> HIDE DEF L, M, asap
<1>5. /\ asap \in [Nodes(kernel) -> Int] /\ CycleCount(asap) \in Nat
  <2>1. asap \in [Nodes(kernel) -> Int] /\ End \in Nodes(kernel)
    BY <1>1, <1>2 DEF Shortest, Fits
  <2>2. asap[End] \in Int
    BY <2>1
  <2> QED BY <1>3, <2>1, <2>2 DEF CycleCount
<1>6. M \in Int /\ CycleCount(asap) <= M
  <2>1. DOMAIN kernel \in SUBSET (0 .. L) /\ L \in Nat /\ CycleCount(asap) \in Int
    BY <1>1, <1>5
  <2>2. \A m \in DOMAIN kernel : asap[m] \in Int
    BY <1>1, <1>5
  <2>3. Largest(S) \in Int /\ CycleCount(asap) <= Largest(S)
    BY ONLY <2>1, <2>2, LargestOf, Zenon
  <2> QED BY <2>3 DEF M
<1>7. ASSUME NEW at \in 1 .. M PROVE Bundle(gates_per_cycle'[at], at, asap)
  <2> DEFINE T == {n \in DOMAIN kernel : asap[n] = at}
             list == Ascending(T)
  <2>1. T \in SUBSET (0 .. L) /\ T \subseteq 1 .. L /\ \A n \in T : asap[n] = at
    BY <1>1
  <2>2. gates_per_cycle'[at] = list
    BY <1>4
  <2> HIDE DEF T
  <2>3. list \in Seq(T) /\ \A i, j \in DOMAIN list : list[i] = list[j] => i = j
    BY <1>1, <2>1, KernelOrder
  <2> HIDE DEF list
  <2>4. list \in Seq(1 .. L) /\ \A i \in DOMAIN list : list[i] \in T
    <3>1. Len(list) \in Nat /\ DOMAIN list = 1 .. Len(list) /\ list = [i \in 1 .. Len(list) |-> list[i]]
      BY <2>3
    <3>2. \A i \in DOMAIN list : list[i] \in T
      BY <2>3, <3>1
    <3>3. \A i \in 1 .. Len(list) : list[i] \in 1 .. L
      BY <2>1, <3>1, <3>2
    <3>4. list \in Seq(1 .. L)
      <4> DEFINE K == Len(list)
                 U == 1 .. L
      <4>1. K \in Nat /\ list = [i \in 1 .. K |-> list[i]] /\ \A i \in 1 .. K : list[i] \in U
        BY <3>1, <3>3
      <4> HIDE DEF K, U
      <4>2. list \in Seq(U)
        BY <4>1
      <4> QED BY <4>2 DEF U
    <3> QED BY <3>2, <3>4
  <2> QED BY <2>1, <2>2, <2>3, <2>4 DEF Bundle, L
<1>8. M \in Nat
  BY <1>5, <1>6
<1>9. DOMAIN gates_per_cycle' = 1 .. M /\ Len(gates_per_cycle') = M
  BY <1>4, <1>8
<1>10. CycleCount(asap) \in Int /\ CycleCount(asap) - 1 \in Int /\ CycleCount(asap) - 1 < CycleCount(asap)
  BY <1>5
<1> QED BY <1>2, <1>4, <1>6, <1>7, <1>8, <1>9, <1>10 DEF UniformInv, Shortest, Fits, Bundle, End

\* A gate that moves stays before those that have to come after it.
LEMMA UniformMoves ==
  ASSUME IsKernel(kernel, options), kernel # <<>>, Demands(kernel, options, graph), UniformInv,
         UniformMove
  PROVE  UniformInv'
<1> DEFINE L == Len(kernel)
           d == Durations(kernel)
<1>1. /\ L \in Nat /\ DOMAIN kernel = 1 .. L /\ Nodes(kernel) = 0 .. L + 1 /\ End = L + 1
      /\ d \in [0 .. L + 1 -> Nat] /\ \A n \in 1 .. L : d[n] = Duration[kernel[n].name]
  BY KernelNodes DEF End
<1>2. /\ UNCHANGED <<kernel, options, graph, curr_cycle>>
      /\ 1 <= pred_cycle
      /\ MoveToBundle \/ (pred_cycle' = pred_cycle - 1 /\ UNCHANGED <<gates_per_cycle, cycle>>)
  BY DEF UniformMove, graphVars, listVars, UniformInv
<1>3. CASE pred_cycle' = pred_cycle - 1 /\ UNCHANGED <<gates_per_cycle, cycle>>
  <2>1. pred_cycle' \in Int /\ pred_cycle' < curr_cycle
    BY <1>3 DEF UniformInv
  <2> QED BY <1>2, <1>3, <2>1 DEF UniformInv, Shortest, Fits, Bundle, End
<1>4. CASE MoveToBundle
  <2> DEFINE from == gates_per_cycle[pred_cycle]
             to == gates_per_cycle[curr_cycle]
  <2>1. PICK i \in DOMAIN from :
          /\ CanMoveTo(from[i])
          /\ gates_per_cycle' = [gates_per_cycle EXCEPT ![pred_cycle] = RemoveAt(@, i),
                                                        ![curr_cycle] = Append(@, from[i])]
          /\ cycle' = [cycle EXCEPT ![from[i]] = curr_cycle]
          /\ UNCHANGED pred_cycle
    BY <1>4 DEF MoveToBundle, BestToMove
  <2> DEFINE n == from[i]
  <2>2. /\ pred_cycle \in DOMAIN gates_per_cycle /\ curr_cycle \in DOMAIN gates_per_cycle
        /\ pred_cycle # curr_cycle
    BY <1>2 DEF UniformInv
  <2>3. Bundle(from, pred_cycle, cycle) /\ Bundle(to, curr_cycle, cycle)
    BY <2>2 DEF UniformInv
  <2>4. n \in 1 .. L /\ cycle[n] = pred_cycle
    BY <2>3 DEF Bundle
  <2>5. cycle \in [Nodes(kernel) -> Int] /\ curr_cycle \in Int /\ pred_cycle \in Int /\ pred_cycle < curr_cycle
    BY DEF UniformInv, Shortest, Fits
  <2>6. /\ DOMAIN gates_per_cycle' = DOMAIN gates_per_cycle
        /\ gates_per_cycle'[pred_cycle] = RemoveAt(from, i)
        /\ gates_per_cycle'[curr_cycle] = Append(to, n)
        /\ \A at \in DOMAIN gates_per_cycle \ {pred_cycle, curr_cycle} :
             gates_per_cycle'[at] = gates_per_cycle[at]
    BY <2>1, <2>2
  <2>7. /\ cycle' \in [Nodes(kernel) -> Int] /\ cycle'[n] = curr_cycle
        /\ \A m \in Nodes(kernel) \ {n} : cycle'[m] = cycle[m]
    BY <1>1, <2>1, <2>4, <2>5
  <2>8. \A m \in After(graph, n) : curr_cycle + d[n] <= cycle[m]
    BY <1>1, <2>1, <2>4 DEF CanMoveTo
  <2>9. ASSUME NEW m \in 1 .. L, m # n PROVE cycle'[m] = cycle[m]
    BY <1>1, <2>7, <2>9
  <2> HIDE DEF n, d, L
  <2>10. Bundle(RemoveAt(from, i), pred_cycle, cycle')
    <3> DEFINE rest == RemoveAt(from, i)
    <3>1. from \in Seq(1 .. L) /\ \A j, k \in DOMAIN from : from[j] = from[k] => j = k
      BY <2>3 DEF Bundle, L
    <3>2. /\ rest \in Seq(1 .. L)
          /\ \A j \in DOMAIN rest : \E k \in DOMAIN from : k # i /\ rest[j] = from[k]
          /\ \A j, k \in DOMAIN rest : rest[j] = rest[k] => j = k
      <4> HIDE DEF from
      <4> QED BY <2>1, <3>1, Removed
    <3> HIDE DEF rest
    <3>3. ASSUME NEW j \in DOMAIN rest PROVE cycle'[rest[j]] = pred_cycle
      <4>1. PICK k \in DOMAIN from : k # i /\ rest[j] = from[k]
        BY <3>2
      <4>2. from[k] \in 1 .. L /\ cycle[from[k]] = pred_cycle
        BY <2>3, <4>1 DEF Bundle, L
      <4>3. from[k] # n
        <5> HIDE DEF from
        <5> QED BY <2>1, <3>1, <4>1 DEF n
      <4> QED BY <2>9, <4>1, <4>2, <4>3
    <3> QED BY <3>2, <3>3 DEF Bundle, rest, L
  <2>11. Bundle(Append(to, n), curr_cycle, cycle')
    <3>1. to \in Seq(1 .. L) /\ \A j \in DOMAIN to : to[j] \in 1 .. L /\ cycle[to[j]] = curr_cycle
      BY <2>3 DEF Bundle, L
    <3>2. \A j, k \in DOMAIN to : to[j] = to[k] => j = k
      BY <2>3 DEF Bundle
    <3> HIDE DEF to
    <3>3. \A j \in DOMAIN to : to[j] # n /\ cycle'[to[j]] = curr_cycle
      BY <2>2, <2>4, <2>9, <3>1
    <3> DEFINE list == Append(to, n)
    <3>4. /\ list \in Seq(1 .. L) /\ DOMAIN list = 1 .. Len(to) + 1 /\ DOMAIN to = 1 .. Len(to) /\ Len(to) \in Nat
          /\ list[Len(to) + 1] = n /\ \A j \in 1 .. Len(to) : list[j] = to[j]
      BY <2>4, <3>1
    <3> HIDE DEF list
    <3>5. \A j \in DOMAIN list : j = Len(to) + 1 \/ j \in 1 .. Len(to)
      BY <3>4
    <3>6. \A j \in DOMAIN list : cycle'[list[j]] = curr_cycle
      BY <2>7, <3>3, <3>4, <3>5
    <3>7. \A j, k \in DOMAIN list : list[j] = list[k] => j = k
      BY <3>2, <3>3, <3>4, <3>5
    <3> QED BY <3>4, <3>6, <3>7 DEF Bundle, list, L
  <2>12. ASSUME NEW at \in DOMAIN gates_per_cycle \ {pred_cycle, curr_cycle}
         PROVE  Bundle(gates_per_cycle[at], at, cycle')
    <3> DEFINE list == gates_per_cycle[at]
    <3>1. Bundle(list, at, cycle)
      BY DEF UniformInv
    <3> HIDE DEF list
    <3>2. list \in Seq(1 .. L) /\ \A j \in DOMAIN list : list[j] \in 1 .. L /\ cycle[list[j]] = at
      BY <3>1 DEF Bundle, L
    <3>3. \A j \in DOMAIN list : list[j] # n
      BY <2>4, <3>2
    <3>4. \A j \in DOMAIN list : cycle'[list[j]] = at
      BY <2>9, <3>2, <3>3
    <3> QED BY <3>1, <3>4 DEF Bundle, list
  <2>13. ASSUME NEW a \in graph.arcs PROVE Ends(cycle', d, a[1], a[2])
    <3>1. /\ a[1] < a[2] /\ a[1] \in 0 .. L + 1 /\ a[2] \in 0 .. L + 1 /\ a[1] \in Int /\ a[2] \in Int
      BY <1>1 DEF Demands, L
    <3>2. cycle[a[1]] + d[a[1]] <= cycle[a[2]]
      BY DEF UniformInv, Shortest, Fits, Respects, Ends, d
    <3>3. CASE a[1] = n
      <4>1. a[2] \in After(graph, n) /\ a[2] # n
        BY <3>1, <3>3 DEF After
      <4> QED BY <1>1, <2>7, <2>8, <3>1, <3>3, <4>1 DEF Ends
    <3>4. CASE a[2] = n
      <4>1. a[1] # n /\ cycle[a[1]] \in Int /\ d[a[1]] \in Nat
        BY <1>1, <2>5, <3>1, <3>4
      <4>2. cycle'[a[1]] = cycle[a[1]]
        BY <1>1, <2>7, <3>1, <4>1 DEF L
      <4>3. cycle'[a[2]] = curr_cycle /\ cycle[a[2]] = pred_cycle
        BY <2>4, <2>7, <3>4
      <4>4. cycle[a[1]] + d[a[1]] <= curr_cycle
        BY <2>5, <3>2, <4>1, <4>3
      <4> QED BY <4>2, <4>3, <4>4 DEF Ends
    <3>5. CASE a[1] # n /\ a[2] # n
      BY <1>1, <2>7, <3>1, <3>2, <3>5 DEF Ends
    <3> QED BY <3>3, <3>4, <3>5
  <2>14. cycle'[0] = cycle[0] /\ cycle'[End] = cycle[End]
    <3>1. 0 \in Nodes(kernel) /\ End \in Nodes(kernel) /\ n # 0 /\ n # End
      BY <1>1, <2>4
    <3> QED BY <2>7, <3>1
  <2>15. Shortest(graph, cycle')
    <3>1. Fits(graph, cycle')
      BY <2>7, <2>13 DEF Fits, Respects, d
    <3> QED BY <2>14, <3>1 DEF UniformInv, Shortest
  <2>16. \A at \in DOMAIN gates_per_cycle' : Bundle(gates_per_cycle'[at], at, cycle')
    BY <2>6, <2>10, <2>11, <2>12
  <2>17. Len(gates_per_cycle') = Len(gates_per_cycle)
    <3>1. DOMAIN gates_per_cycle' = 1 .. Len(gates_per_cycle) /\ Len(gates_per_cycle) \in Nat
      BY <2>6 DEF UniformInv
    <3>2. gates_per_cycle' = [at \in 1 .. Len(gates_per_cycle) |-> gates_per_cycle'[at]]
      BY <2>1, <3>1
    <3> QED BY <3>1, <3>2
  <2> QED BY <1>2, <2>1, <2>6, <2>15, <2>16, <2>17 DEF UniformInv, Shortest, Fits, Bundle, End
<1> QED BY <1>2, <1>3, <1>4

LEMMA UniformAdvances ==
  ASSUME IsKernel(kernel, options), UniformInv, UniformNextCycle
  PROVE  UniformInv'
<1>1. /\ UNCHANGED <<kernel, options, graph, cycle, gates_per_cycle>>
      /\ curr_cycle' = curr_cycle - 1 /\ pred_cycle' = curr_cycle - 2 /\ curr_cycle \in Int
  BY DEF UniformNextCycle, graphVars, UniformInv
<1>2. /\ curr_cycle' \in Int /\ pred_cycle' \in Int /\ pred_cycle' < curr_cycle'
      /\ curr_cycle' <= curr_cycle
  BY <1>1
<1> QED BY <1>1, <1>2 DEF UniformInv, Shortest, Fits, Bundle, End

-----------------------------------------------------------------------------
(* The list scheduler: what is scheduled, and what is available.           *)

\* The ends of an arc, in the direction of the schedule.
Prior(a) == IF Direction = "FORWARD" THEN a[1] ELSE a[2]
Later(a) == IF Direction = "FORWARD" THEN a[2] ELSE a[1]

\* The cycle of a node suits those of the nodes it needs.
MetAt(c, n) == \A a \in graph.arcs : Later(a) = n => Ends(c, Durations(kernel), a[1], a[2])

OrderInv ==
  /\ options.constrained /\ options.target \in {"asap", "alap"}
  /\ cycle \in [Nodes(kernel) -> Int] /\ curr_cycle \in Int
  /\ scheduled \subseteq Nodes(kernel) /\ avlist \subseteq Nodes(kernel) \ scheduled
  /\ \A n \in scheduled \cup avlist : MetAt(cycle, n)
  /\ \A n \in Nodes(kernel) :
       n \in scheduled \cup avlist <=> Needed(graph, n, Direction) \subseteq scheduled

LEMMA DirectedArcs ==
  ASSUME IsKernel(kernel, options), Demands(kernel, options, graph)
  PROVE  /\ \A a \in graph.arcs : /\ Prior(a) \in Nodes(kernel) /\ Later(a) \in Nodes(kernel)
                                  /\ a[1] \in Nodes(kernel) /\ a[2] \in Nodes(kernel) /\ a[1] < a[2]
         /\ \A n, m : m \in Needed(graph, n, Direction) <=>
              \E a \in graph.arcs : Later(a) = n /\ Prior(a) = m
         /\ \A n, m : m \in Depending(graph, n, Direction) <=> n \in Needed(graph, m, Direction)
<1>1. Len(kernel) \in Nat /\ Nodes(kernel) = 0 .. Len(kernel) + 1
  BY KernelNodes
<1>2. \A a \in graph.arcs : a[1] \in Nodes(kernel) /\ a[2] \in Nodes(kernel) /\ a[1] < a[2]
  BY <1>1 DEF Demands
<1>3. CASE Direction = "FORWARD"
  BY <1>2, <1>3 DEF Prior, Later, Needed, Depending, Before, After
<1>4. CASE Direction # "FORWARD"
  BY <1>2, <1>4 DEF Prior, Later, Needed, Depending, Before, After
<1> QED BY <1>3, <1>4

LEMMA EarliestMeets ==
  ASSUME IsKernel(kernel, options), Demands(kernel, options, graph), NEW n \in Nodes(kernel),
         NEW c, \A m \in Needed(graph, n, Direction) : c[m] \in Int
  PROVE  /\ EarliestFrom(n, c) \in Int
         /\ \A e : /\ e[n] = EarliestFrom(n, c)
                   /\ \A m \in Needed(graph, n, Direction) : e[m] = c[m]
                   => MetAt(e, n)
<1>1. CASE Direction = "FORWARD"
  <2>1. \A m \in Before(graph, n) : c[m] \in Int
    BY <1>1 DEF Needed
  <2>2. /\ StartAfter(kernel, graph, c, n) \in Int
        /\ \A m \in Before(graph, n) : c[m] + Durations(kernel)[m] <= StartAfter(kernel, graph, c, n)
    BY <2>1, StartAfterFacts
  <2>3. EarliestFrom(n, c) = StartAfter(kernel, graph, c, n)
    BY <1>1 DEF EarliestFrom, StartAfter
  <2>4. ASSUME NEW e, e[n] = EarliestFrom(n, c), \A m \in Needed(graph, n, Direction) : e[m] = c[m],
               NEW a \in graph.arcs, Later(a) = n
        PROVE  Ends(e, Durations(kernel), a[1], a[2])
    <3>1. a[2] = n /\ a[1] \in Before(graph, n) /\ e[a[1]] = c[a[1]]
      BY <1>1, <2>4 DEF Later, Before, Needed
    <3> QED BY <2>2, <2>3, <2>4, <3>1 DEF Ends
  <2> QED BY <2>2, <2>3, <2>4 DEF MetAt
<1>2. CASE Direction # "FORWARD"
  <2>1. \A m \in After(graph, n) : c[m] \in Int
    BY <1>2 DEF Needed
  <2>2. /\ StartBefore(graph, c, n) \in Int
        /\ \A m \in After(graph, n) : StartBefore(graph, c, n) + Durations(kernel)[n] <= c[m]
    BY <2>1, StartBeforeFacts
  <2>3. EarliestFrom(n, c) = StartBefore(graph, c, n)
    BY <1>2 DEF EarliestFrom, StartBefore
  <2>4. ASSUME NEW e, e[n] = EarliestFrom(n, c), \A m \in Needed(graph, n, Direction) : e[m] = c[m],
               NEW a \in graph.arcs, Later(a) = n
        PROVE  Ends(e, Durations(kernel), a[1], a[2])
    <3>1. a[1] = n /\ a[2] \in After(graph, n) /\ e[a[2]] = c[a[2]]
      BY <1>2, <2>4 DEF Later, After, Needed
    <3> QED BY <2>2, <2>3, <2>4, <3>1 DEF Ends
  <2> QED BY <2>2, <2>3, <2>4 DEF MetAt
<1> QED BY <1>1, <1>2

\* The node that can start first needs nothing, and it alone.
LEMMA OrderStarts ==
  ASSUME IsKernel(kernel, options), kernel # <<>>, Demands(kernel, options, Closed),
         options.target \in {"asap", "alap", "uniform"},
         StartListing(Closed), graph' = Closed, UNCHANGED <<kernel, options>>
  PROVE  OrderInv'
<1> DEFINE L == Len(kernel)
           start == IF options.target = "asap" THEN 0 ELSE ALAP_SINK_CYCLE
           first == IF options.target = "asap" THEN 0 ELSE End
<1>1. /\ options.target \in {"asap", "alap"} /\ options.constrained
      /\ curr_cycle' = start /\ avlist' = {first} /\ scheduled' = {}
      /\ cycle' = [n \in Nodes(kernel) |-> start]
  BY DEF StartListing
<1>2. L \in Nat /\ Nodes(kernel) = 0 .. L + 1 /\ End = L + 1 /\ start \in Int
  BY KernelNodes, SinkCycleAssumption DEF End
<1>3. first \in Nodes(kernel)
  BY <1>2
<1>4. Direction' = Direction /\ (Direction = "FORWARD" <=> options.target = "asap")
  BY <1>1 DEF Direction
<1>5. \A n : Needed(Closed, n, Direction) = IF options.target = "asap" THEN Before(Closed, n)
                                                                      ELSE After(Closed, n)
  BY <1>4 DEF Needed
<1>6. ASSUME NEW n \in Nodes(kernel) PROVE n = first <=> Needed(Closed, n, Direction) = {}
  <2>1. CASE options.target = "asap"
    <3>1. n # 0 => n \in 1 .. L + 1
      BY <1>2
    <3>2. n # 0 => Before(Closed, n) # {}
      BY <3>1, HasBefore
    <3>3. Before(Closed, 0) = {}
      <4>1. \A a \in Closed.arcs : a[2] \in 1 .. L + 1
        BY DEF Demands
      <4> QED BY <1>2, <4>1 DEF Before
    <3> QED BY <1>5, <2>1, <3>2, <3>3
  <2>2. CASE options.target # "asap"
    <3>1. n # End => n \in 0 .. L
      BY <1>2
    <3>2. n # End => After(Closed, n) # {}
      BY <3>1, HasAfter
    <3>3. After(Closed, End) = {}
      <4>1. \A a \in Closed.arcs : a[1] \in 0 .. L
        BY DEF Demands
      <4> QED BY <1>2, <4>1 DEF After
    <3> QED BY <1>5, <2>2, <3>2, <3>3
  <2> QED BY <2>1, <2>2
<1>7. (\A n \in scheduled \cup avlist : MetAt(cycle, n))'
  <2>1. ASSUME NEW a \in Closed.arcs, Later(a)' = first PROVE FALSE
    <3>1. Later(a)' = IF options.target = "asap" THEN a[2] ELSE a[1]
      BY <1>4 DEF Later
    <3>2. Needed(Closed, first, Direction) # {}
      <4>1. CASE options.target = "asap"
        <5>1. a[2] = first
          BY <2>1, <3>1, <4>1
        <5>2. a[1] \in Before(Closed, first)
          BY <5>1 DEF Before
        <5> QED BY <1>5, <4>1, <5>2
      <4>2. CASE options.target # "asap"
        <5>1. a[1] = first
          BY <2>1, <3>1, <4>2
        <5>2. a[2] \in After(Closed, first)
          BY <5>1 DEF After
        <5> QED BY <1>5, <4>2, <5>2
      <4> QED BY <4>1, <4>2
    <3> QED BY <1>3, <1>6, <3>2
  <2>2. \A n : MetAt(cycle, n)' <=>
          \A a \in Closed.arcs : Later(a)' = n => Ends(cycle', Durations(kernel), a[1], a[2])
    BY DEF MetAt
  <2>3. scheduled' \cup avlist' = {first}
    BY <1>1
  <2> HIDE DEF first
  <2> QED BY <2>1, <2>2, <2>3
<1>8. cycle' \in [Nodes(kernel) -> Int] /\ curr_cycle' \in Int
  BY <1>1, <1>2
<1>9. (\A n \in Nodes(kernel) : n \in scheduled \cup avlist <=> Needed(graph, n, Direction) \subseteq scheduled)'
  BY <1>1, <1>4, <1>6
<1> HIDE DEF first
<1> QED BY <1>1, <1>3, <1>7, <1>8, <1>9 DEF OrderInv

\* What Schedule(n) does to the cycles.
CyclesOnce(n) == [cycle EXCEPT ![n] = curr_cycle]

LEMMA OrderSchedules ==
  ASSUME IsKernel(kernel, options), Demands(kernel, options, graph), OrderInv,
         NEW n \in avlist, Schedule(n), UNCHANGED <<kernel, options, graph>>
  PROVE  /\ OrderInv'
         /\ \A m \in scheduled : m # n /\ cycle'[m] = cycle[m]
         /\ cycle'[n] = curr_cycle /\ ImmediatelySchedulable(n)
<1> DEFINE done == scheduled \cup {n}
           released == Released(graph, n, scheduled, Direction)
           now == CyclesOnce(n)
           need(m) == Needed(graph, m, Direction)
<1>1. /\ scheduled' = done /\ avlist' = (avlist \ {n}) \cup released
      /\ cycle' = [m \in DOMAIN cycle |-> IF m \in released THEN EarliestFrom(m, now) ELSE now[m]]
      /\ curr_cycle' = curr_cycle /\ ImmediatelySchedulable(n)
  BY DEF Schedule, Selectable, CyclesOnce
<1>2. /\ \A a \in graph.arcs : Prior(a) \in Nodes(kernel) /\ Later(a) \in Nodes(kernel)
      /\ \A k, m : m \in need(k) <=> \E a \in graph.arcs : Later(a) = k /\ Prior(a) = m
      /\ \A k, m : m \in Depending(graph, k, Direction) <=> k \in need(m)
  BY DirectedArcs
<1>3. /\ cycle \in [Nodes(kernel) -> Int] /\ curr_cycle \in Int
      /\ scheduled \subseteq Nodes(kernel) /\ avlist \subseteq Nodes(kernel) \ scheduled
      /\ \A m \in scheduled \cup avlist : MetAt(cycle, m)
      /\ \A m \in Nodes(kernel) : m \in scheduled \cup avlist <=> need(m) \subseteq scheduled
  BY DEF OrderInv
<1>4. n \in Nodes(kernel) /\ n \notin scheduled /\ n \notin need(n)
  BY <1>3
<1>5. \A m : m \in released <=> n \in need(m) /\ need(m) \subseteq done
  BY <1>2 DEF Released
<1>6. released \subseteq Nodes(kernel)
  BY <1>2, <1>5
<1> HIDE DEF done, released, now
<1>7. \A m \in released : m \notin scheduled \cup avlist /\ m # n
  BY <1>3, <1>4, <1>5, <1>6
<1>8. /\ now \in [Nodes(kernel) -> Int] /\ now[n] = curr_cycle
      /\ \A m \in Nodes(kernel) \ {n} : now[m] = cycle[m]
  BY <1>3, <1>4 DEF CyclesOnce, now
<1>9. /\ DOMAIN cycle' = Nodes(kernel)
      /\ \A m \in released : cycle'[m] = EarliestFrom(m, now)
      /\ \A m \in Nodes(kernel) \ released : cycle'[m] = now[m]
  BY <1>1, <1>3, <1>6
<1>10. done \subseteq Nodes(kernel) \ released
  BY <1>3, <1>4, <1>7 DEF done
<1>11. \A m \in scheduled \cup avlist : m # n => cycle'[m] = cycle[m]
  BY <1>3, <1>7, <1>8, <1>9
<1>12. cycle'[n] = curr_cycle
  BY <1>4, <1>7, <1>8, <1>9
<1>13. \A m \in done : cycle'[m] = now[m]
  BY <1>9, <1>10
<1>14. \A m : MetAt(cycle, m)' <=> MetAt(cycle', m)
  BY DEF MetAt, Later, Direction
<1>15. ASSUME NEW m \in released
       PROVE  EarliestFrom(m, now) \in Int /\ MetAt(cycle', m)
  <2>1. m \in Nodes(kernel) /\ \A j \in need(m) : now[j] \in Int /\ cycle'[j] = now[j]
    BY <1>5, <1>6, <1>8, <1>10, <1>13
  <2>2. cycle'[m] = EarliestFrom(m, now)
    BY <1>9
  <2> QED BY <2>1, <2>2, EarliestMeets
<1>16. cycle' \in [Nodes(kernel) -> Int]
  <2>1. \A m \in Nodes(kernel) : cycle'[m] \in Int
    BY <1>8, <1>9, <1>15
  <2>2. cycle' = [m \in Nodes(kernel) |-> cycle'[m]]
    BY <1>1, <1>9
  <2> QED BY <2>1, <2>2
<1>17. ASSUME NEW m \in scheduled \cup avlist, m # n PROVE MetAt(cycle', m)
  <2> SUFFICES ASSUME NEW a \in graph.arcs, Later(a) = m
               PROVE  Ends(cycle', Durations(kernel), a[1], a[2])
    BY DEF MetAt
  <2>1. Prior(a) \in need(m) /\ need(m) \subseteq scheduled
    BY <1>2, <1>3, <1>17
  <2>2. cycle'[Prior(a)] = cycle[Prior(a)] /\ cycle'[Later(a)] = cycle[Later(a)]
    BY <1>4, <1>11, <1>17, <2>1
  <2>3. cycle'[a[1]] = cycle[a[1]] /\ cycle'[a[2]] = cycle[a[2]]
    BY <2>2 DEF Prior, Later
  <2>4. Ends(cycle, Durations(kernel), a[1], a[2])
    BY <1>3 DEF MetAt
  <2> QED BY <2>3, <2>4 DEF Ends
<1>18. MetAt(cycle', n)
  <2> SUFFICES ASSUME NEW a \in graph.arcs, Later(a) = n
               PROVE  Ends(cycle', Durations(kernel), a[1], a[2])
    BY DEF MetAt
  <2>1. Prior(a) \in need(n) /\ need(n) \subseteq scheduled
    BY <1>2, <1>3
  <2>2. cycle'[Prior(a)] = cycle[Prior(a)]
    BY <1>4, <1>11, <2>1
  <2>3. Ends(cycle, Durations(kernel), a[1], a[2])
    BY <1>3 DEF MetAt
  <2>4. /\ cycle[n] \in Int /\ cycle[Prior(a)] \in Int /\ Durations(kernel)[a[1]] \in Nat
    <3>1. a[1] \in Nodes(kernel) /\ Durations(kernel) \in [Nodes(kernel) -> Nat]
      BY DirectedArcs, KernelNodes
    <3> QED BY <1>2, <1>3, <1>4, <3>1
  <2>5. CASE Direction = "FORWARD"
    <3>1. a[2] = n /\ Prior(a) = a[1] /\ cycle[n] <= curr_cycle
      BY <1>1, <2>5 DEF Later, Prior, ImmediatelySchedulable, OperandsComplete
    <3> QED BY <1>3, <1>12, <2>2, <2>3, <2>4, <3>1 DEF Ends
  <2>6. CASE Direction # "FORWARD"
    <3>1. a[1] = n /\ Prior(a) = a[2] /\ curr_cycle <= cycle[n]
      BY <1>1, <2>6 DEF Later, Prior, ImmediatelySchedulable, OperandsComplete
    <3> QED BY <1>3, <1>12, <2>2, <2>3, <2>4, <3>1 DEF Ends
  <2> QED BY <2>5, <2>6
<1>19. \A m \in scheduled' \cup avlist' : MetAt(cycle', m)
  BY <1>1, <1>15, <1>17, <1>18 DEF done
<1>20. avlist' \subseteq Nodes(kernel) \ scheduled'
  BY <1>1, <1>3, <1>6, <1>7, <1>10 DEF done
<1>21. ASSUME NEW m \in Nodes(kernel) PROVE m \in scheduled' \cup avlist' <=> need(m) \subseteq scheduled'
  <2>1. m \in scheduled' \cup avlist' <=> m \in scheduled \cup avlist \/ m \in released
    BY <1>1 DEF done
  <2>2. need(m) \subseteq done <=> need(m) \subseteq scheduled \/ m \in released
    BY <1>5 DEF done
  <2> QED BY <1>1, <1>3, <2>1, <2>2
<1>22. /\ options'.constrained /\ options'.target \in {"asap", "alap"}
       /\ curr_cycle' \in Int /\ scheduled' \subseteq Nodes(kernel) /\ Direction' = Direction
       /\ graph' = graph
  BY <1>1, <1>3, <1>10 DEF OrderInv, Direction
<1>23. OrderInv'
  BY <1>14, <1>16, <1>19, <1>20, <1>21, <1>22 DEF OrderInv
<1> QED BY <1>1, <1>4, <1>11, <1>12, <1>23

LEMMA OrderWaits ==
  ASSUME OrderInv, AdvanceCurrCycle, UNCHANGED <<kernel, options, graph>>
  PROVE  OrderInv'
<1>1. /\ UNCHANGED <<kernel, options, graph, cycle, avlist, scheduled>>
      /\ curr_cycle' \in {curr_cycle + 1, curr_cycle - 1} /\ curr_cycle \in Int
  BY DEF AdvanceCurrCycle, OrderInv
<1>2. curr_cycle' \in Int
  BY <1>1
<1> QED BY <1>1, <1>2 DEF OrderInv, MetAt, Later, Direction

\* Nothing is left behind: of the nodes that were not scheduled the first would be available.
LEMMA OrderEnds ==
  ASSUME IsKernel(kernel, options), Demands(kernel, options, graph), OrderInv, avlist = {}
  PROVE  scheduled = Nodes(kernel) /\ Fits(graph, cycle)
<1> DEFINE L == Len(kernel) + 1
           left == Nodes(kernel) \ scheduled
<1>1. L \in Nat /\ Nodes(kernel) = 0 .. L
  BY KernelNodes
<1>2. /\ \A a \in graph.arcs : /\ Prior(a) \in Nodes(kernel) /\ Later(a) \in Nodes(kernel)
                               /\ a[1] \in Nodes(kernel) /\ a[2] \in Nodes(kernel) /\ a[1] < a[2]
      /\ \A k, m : m \in Needed(graph, k, Direction) <=>
           \E a \in graph.arcs : Later(a) = k /\ Prior(a) = m
  BY DirectedArcs
<1>3. ASSUME left # {} PROVE FALSE
  <2>1. left \in SUBSET (0 .. L)
    BY <1>1
  <2> HIDE DEF left
  <2>2. (\E x \in left : \A y \in left : x <= y) /\ \E x \in left : \A y \in left : y <= x
    BY <1>1, <1>3, <2>1, FirstAndLast
  <2>3. \E x \in left : \A y \in left : IF Direction = "FORWARD" THEN x <= y ELSE y <= x
    BY <2>2
  <2>4. PICK x \in left : \A y \in left : IF Direction = "FORWARD" THEN x <= y ELSE y <= x
    BY <2>3
  <2>5. Needed(graph, x, Direction) \subseteq scheduled
    <3> SUFFICES ASSUME NEW m \in Needed(graph, x, Direction), m \notin scheduled PROVE FALSE
      OBVIOUS
    <3>1. PICK a \in graph.arcs : Later(a) = x /\ Prior(a) = m
      BY <1>2
    <3>2. m \in left
      BY <1>2, <3>1 DEF left
    <3>3. IF Direction = "FORWARD" THEN m < x ELSE x < m
      BY <1>2, <3>1 DEF Prior, Later
    <3>4. x \in Int /\ m \in Int
      BY <2>1, <3>2
    <3> QED BY <2>4, <3>2, <3>3, <3>4
  <2>6. x \in Nodes(kernel) /\ x \notin scheduled
    BY DEF left
  <2> QED BY <2>5, <2>6 DEF OrderInv
<1>4. scheduled = Nodes(kernel)
  BY <1>3 DEF OrderInv
<1>5. Respects(cycle, Durations(kernel), graph.arcs)
  BY <1>2, <1>4 DEF OrderInv, MetAt, Respects
<1> QED BY <1>4, <1>5 DEF OrderInv, Fits

-----------------------------------------------------------------------------
(* The list scheduler: reservations of qubits.                             *)

ResourceKeys == {"instrument", "inter_core_channel", "qubit"}

\* When a gate has its qubits.
Slot(n)  == Occupied(cycle[n], GateData(kernel[n]))
Slots(q) == {Slot(n) : n \in {m \in scheduled : TakesResources(m) /\ q \in ToSet(kernel[m].operands)}}

Share(m, n) ==
  /\ TakesResources(m) /\ TakesResources(n)
  /\ ToSet(kernel[m].operands) \cap ToSet(kernel[n].operands) # {}

\* The last reservation of a qubit stands for all of them, and no two of them touch.
LaneInv ==
  /\ resources = [config |-> resources.config, prev |-> resources.prev,
                  instrument |-> resources.instrument, channel |-> resources.channel,
                  qubit |-> resources.qubit]
  /\ DOMAIN resources.prev = ResourceKeys
  /\ resources.config.direction = Direction
  /\ \A q \in Qubits : Lane(resources.qubit[q], Direction, resources.prev["qubit"], Slots(q))
  /\ \A m, n \in scheduled : m # n /\ Share(m, n) => ~Touches(Slot(m), Slot(n))

LEMMA KeysOfResources ==
  /\ DOMAIN ResourceNames = 1 .. 3
  /\ {ResourceNames[i] : i \in DOMAIN ResourceNames} = ResourceKeys
  /\ \E i \in DOMAIN ResourceNames : ResourceNames[i] = "qubit"
<1>1. /\ DOMAIN ResourceNames = 1 .. 3
      /\ ResourceNames[1] = "instrument" /\ ResourceNames[2] = "inter_core_channel"
      /\ ResourceNames[3] = "qubit"
  BY DEF ResourceNames
<1>2. \A i \in 1 .. 3 : i = 1 \/ i = 2 \/ i = 3
  OBVIOUS
<1>3. 1 \in 1 .. 3 /\ 2 \in 1 .. 3 /\ 3 \in 1 .. 3
  OBVIOUS
<1> QED BY <1>1, <1>2, <1>3 DEF ResourceKeys

LEMMA LanesStart ==
  ASSUME resources.config = SchedulerConfig, StartListing(Closed), UNCHANGED <<kernel, options>>
  PROVE  LaneInv'
<1> DEFINE config == [resources.config EXCEPT !.direction = Direction]
<1>1. resources' = InitialResources(config) /\ scheduled' = {} /\ Direction' = Direction
  BY DEF StartListing, Direction
<1>2. config.direction = Direction
  <2>1. ResourceConfig = [direction |-> ResourceConfig.direction, exclusive |-> ResourceConfig.exclusive,
                          overlap |-> ResourceConfig.overlap]
    BY ConfigAssumption
  <2>2. "direction" \in DOMAIN ResourceConfig
    BY <2>1
  <2>3. "direction" \in DOMAIN SchedulerConfig
    BY <2>2 DEF SchedulerConfig
  <2> QED BY <2>3
<1> HIDE DEF config
<1>3. /\ resources' = [config |-> resources'.config, prev |-> resources'.prev,
                       instrument |-> resources'.instrument, channel |-> resources'.channel,
                       qubit |-> resources'.qubit]
      /\ resources'.config = config
      /\ resources'.prev = [r \in ResourceKeys |-> IF config.direction = "FORWARD" THEN MIN ELSE MAX]
      /\ resources'.qubit = [q \in Qubits |-> {}]
  BY <1>1, KeysOfResources DEF InitialResources
<1>4. resources'.prev["qubit"] \in Int /\ DOMAIN resources'.prev = ResourceKeys
  BY <1>3, ResourcesAssumption DEF ResourceKeys
<1>5. \A q : Slots(q)' = {}
  BY <1>1 DEF Slots
<1>6. \A q \in Qubits : Lane(resources'.qubit[q], Direction, resources'.prev["qubit"], Slots(q)')
  <2>1. Lane({}, Direction, resources'.prev["qubit"], {})
    BY <1>4, LaneEmpty
  <2> QED BY <1>3, <1>5, <2>1
<1> QED BY <1>1, <1>2, <1>3, <1>4, <1>6 DEF LaneInv

\* A gate that is available is reserved in all resources.
LEMMA ReserveAvailable ==
  ASSUME LaneInv, NEW gate, Available(resources, curr_cycle, gate)
  PROVE  LET after == Reserve(resources, curr_cycle, gate)
         IN /\ after = [config |-> after.config, prev |-> after.prev, instrument |-> after.instrument,
                        channel |-> after.channel, qubit |-> after.qubit]
            /\ after.config = resources.config
            /\ DOMAIN after.prev = ResourceKeys
            /\ after.prev["qubit"] = curr_cycle
            /\ after.qubit = QubitCommit(resources, curr_cycle, gate)
            /\ ~OutOfOrder(resources, "qubit", curr_cycle)
            /\ QubitAvailable(resources, curr_cycle, gate)
<1> DEFINE done == Committing(resources, curr_cycle, gate)
           after == Reserve(resources, curr_cycle, gate)
           p == [r \in DOMAIN resources.prev |-> IF r \in done THEN curr_cycle ELSE resources.prev[r]]
           i == IF "instrument" \in done THEN InstrumentCommit(resources, curr_cycle, gate)
                                         ELSE resources.instrument
           n == IF "inter_core_channel" \in done THEN ChannelCommit(resources, curr_cycle, gate)
                                                 ELSE resources.channel
           u == IF "qubit" \in done THEN QubitCommit(resources, curr_cycle, gate) ELSE resources.qubit
<1>1. after = [config |-> resources.config, prev |-> p, instrument |-> i, channel |-> n, qubit |-> u]
  <2>1. after = [resources EXCEPT !.prev = p, !.instrument = i, !.channel = n, !.qubit = u]
    BY DEF Reserve
  <2> HIDE DEF p, i, n, u, after
  <2>2. resources = [config |-> resources.config, prev |-> resources.prev,
                     instrument |-> resources.instrument, channel |-> resources.channel,
                     qubit |-> resources.qubit]
    BY DEF LaneInv
  <2> QED BY <2>1, <2>2
<1>2. DOMAIN p = ResourceKeys /\ \A r \in ResourceKeys : p[r] = IF r \in done THEN curr_cycle ELSE resources.prev[r]
  BY DEF LaneInv
<1>3. done = ResourceKeys
  <2>1. done = {ResourceNames[j] : j \in DOMAIN ResourceNames}
    BY KeysOfResources DEF Available, Committing
  <2> QED BY <2>1, KeysOfResources
<1>4. p["qubit"] = curr_cycle /\ u = QubitCommit(resources, curr_cycle, gate)
  BY <1>2, <1>3 DEF ResourceKeys
<1>5. GateFits(resources, "qubit", curr_cycle, gate)
  BY KeysOfResources DEF Available
<1>6. ~OutOfOrder(resources, "qubit", curr_cycle) /\ QubitAvailable(resources, curr_cycle, gate)
  BY <1>5 DEF GateFits
<1> HIDE DEF p, i, n, u, after, done
<1>7. /\ after.config = resources.config /\ after.prev = p /\ after.instrument = i
      /\ after.channel = n /\ after.qubit = u
  BY <1>1
<1> QED BY <1>1, <1>2, <1>4, <1>6, <1>7 DEF after

\* What the resources see of a gate.
LEMMA SlotShape ==
  ASSUME IsKernel(kernel, options), NEW n \in Nodes(kernel), TakesResources(n), NEW at \in Int
  PROVE  LET s == Occupied(at, GateData(kernel[n]))
         IN /\ s \in KeyRanges /\ RangeValid(s) /\ s.first = at /\ s.second = at + Durations(kernel)[n]
            /\ OperandsOf(GateData(kernel[n])) = ToSet(kernel[n].operands)
            /\ ToSet(kernel[n].operands) \subseteq Qubits
<1>1. n \in DOMAIN kernel
  BY KernelNodes DEF TakesResources, IsSentinel, End, Sink
<1>2. /\ Durations(kernel)[n] = Duration[kernel[n].name] /\ Duration[kernel[n].name] \in Nat
      /\ kernel[n].operands \in Seq(Qubits)
  BY <1>1, KernelNodes, KernelEvents
<1>3. /\ GateData(kernel[n]).duration = Duration[kernel[n].name]
      /\ GateData(kernel[n]).qubits = kernel[n].operands
  BY DEF GateData
<1>4. /\ OperandsOf(GateData(kernel[n])) = ToSet(kernel[n].operands)
      /\ ToSet(kernel[n].operands) \subseteq Qubits
  BY <1>2, <1>3 DEF OperandsOf, ToSet
<1> QED BY <1>2, <1>3, <1>4 DEF Occupied, RangePair, RangeValid, KeyRanges

LEMMA LanesKept ==
  ASSUME LaneInv, scheduled \subseteq scheduled', UNCHANGED <<kernel, options, resources>>,
         \A m \in scheduled : cycle'[m] = cycle[m],
         \A m \in scheduled' \ scheduled : ~TakesResources(m)
  PROVE  LaneInv'
<1>1. Direction' = Direction /\ \A m : TakesResources(m)' <=> TakesResources(m)
  BY DEF Direction, TakesResources, IsSentinel, End
<1>2. \A m \in scheduled : Slot(m)' = Slot(m)
  BY DEF Slot
<1>3. \A q : Slots(q)' = Slots(q)
  <2>1. \A q : {m \in scheduled' : TakesResources(m)' /\ q \in ToSet(kernel'[m].operands)}
               = {m \in scheduled : TakesResources(m) /\ q \in ToSet(kernel[m].operands)}
    BY <1>1
  <2> QED BY <1>2, <2>1 DEF Slots
<1>4. \A m, n \in scheduled' : m # n /\ Share(m, n)' => ~Touches(Slot(m)', Slot(n)')
  <2>1. \A m, n \in scheduled' : Share(m, n)' => m \in scheduled /\ n \in scheduled /\ Share(m, n)
    BY <1>1 DEF Share
  <2> QED BY <1>2, <2>1 DEF LaneInv
<1> QED BY <1>1, <1>3, <1>4 DEF LaneInv

\* A gate that is available takes qubits that no other gate has at that time.
LEMMA LanesSchedule ==
  ASSUME IsKernel(kernel, options), Demands(kernel, options, graph), OrderInv, LaneInv,
         NEW n \in avlist, Schedule(n), UNCHANGED <<kernel, options, graph>>, TakesResources(n)
  PROVE  LaneInv'
<1> DEFINE gate == GateData(kernel[n])
           new == Occupied(curr_cycle, gate)
           last == resources.prev["qubit"]
           users == ToSet(kernel[n].operands)
<1>1. /\ scheduled' = scheduled \cup {n} /\ resources' = Reserve(resources, curr_cycle, gate)
  BY DEF Schedule
<1>2. /\ ImmediatelySchedulable(n) /\ cycle'[n] = curr_cycle
      /\ \A m \in scheduled : m # n /\ cycle'[m] = cycle[m]
  BY OrderSchedules
<1>3. n \in Nodes(kernel) /\ scheduled \subseteq Nodes(kernel) /\ curr_cycle \in Int
      /\ Direction \in {"FORWARD", "BACKWARD"} /\ Direction' = Direction
  BY DEF OrderInv, Direction
<1>4. /\ new \in KeyRanges /\ RangeValid(new) /\ new.first = curr_cycle
      /\ OperandsOf(gate) = users /\ users \subseteq Qubits
  BY <1>3, SlotShape
<1>5. Available(resources, curr_cycle, gate)
  BY <1>2 DEF ImmediatelySchedulable
<1> HIDE DEF gate
<1>6. /\ resources' = [config |-> resources'.config, prev |-> resources'.prev,
                       instrument |-> resources'.instrument, channel |-> resources'.channel,
                       qubit |-> resources'.qubit]
      /\ resources'.config = resources.config
      /\ DOMAIN resources'.prev = ResourceKeys /\ resources'.prev["qubit"] = curr_cycle
      /\ resources'.qubit = QubitCommit(resources, curr_cycle, gate)
      /\ ~OutOfOrder(resources, "qubit", curr_cycle)
      /\ QubitAvailable(resources, curr_cycle, gate)
  BY <1>1, <1>5, ReserveAvailable
<1>7. \A q \in users : Find(resources.qubit[q], new) = {}
  BY <1>4, <1>6 DEF QubitAvailable, IsFree, new
<1>8. \A q \in Qubits : Lane(resources.qubit[q], Direction, last, Slots(q))
  BY DEF LaneInv
<1>9. ASSUME NEW q \in Qubits PROVE UpTo(Direction, last, curr_cycle)
  <2>1. last \in Int /\ resources.config.direction = Direction
    BY <1>8 DEF Lane, LaneInv
  <2> QED BY <1>3, <1>6, <2>1 DEF UpTo, OutOfOrder
<1>10. \A m : TakesResources(m)' <=> TakesResources(m)
  BY DEF TakesResources, IsSentinel, End
<1>11. (\A m \in scheduled : Slot(m)' = Slot(m)) /\ Slot(n)' = new
  BY <1>2 DEF Slot, gate, new
<1>12. \A q : Slots(q)' = IF q \in users THEN Slots(q) \cup {new} ELSE Slots(q)
  <2>1. \A q : {m \in scheduled' : TakesResources(m)' /\ q \in ToSet(kernel'[m].operands)}
               = {m \in scheduled : TakesResources(m) /\ q \in ToSet(kernel[m].operands)}
                   \cup (IF q \in users THEN {n} ELSE {})
    BY <1>1, <1>10
  <2>2. ASSUME NEW q PROVE Slots(q)' = IF q \in users THEN Slots(q) \cup {new} ELSE Slots(q)
    <3> DEFINE S == {m \in scheduled : TakesResources(m) /\ q \in ToSet(kernel[m].operands)}
               T == IF q \in users THEN {n} ELSE {}
    <3>1. Slots(q)' = {Slot(m)' : m \in S \cup T} /\ Slots(q) = {Slot(m) : m \in S}
      BY <2>1 DEF Slots
    <3>2. \A m \in S : Slot(m)' = Slot(m)
      BY <1>11
    <3>3. \A m \in T : Slot(m)' = new /\ m = n
      BY <1>11
    <3>4. T = IF q \in users THEN {n} ELSE {}
      OBVIOUS
    <3> HIDE DEF S, T, new, users
    <3> QED BY <1>11, <3>1, <3>2, <3>3, <3>4
  <2> QED BY <2>2
<1> HIDE DEF new, users, last
<1>13. ASSUME NEW q \in Qubits PROVE Lane(resources'.qubit[q], Direction, curr_cycle, Slots(q)')
  <2>1. CASE q \notin users
    <3>1. resources'.qubit[q] = resources.qubit[q]
      BY <1>4, <1>6, <2>1 DEF QubitCommit
    <3>2. Slots(q)' = Slots(q)
      BY <1>12, <2>1
    <3> QED BY <1>3, <1>8, <1>9, <3>1, <3>2, LaneWaits
  <2>2. CASE q \in users
    <3> DEFINE kept == IF Direction # "UNDEFINED" THEN {} ELSE resources.qubit[q]
    <3>1. resources'.qubit[q] = SetRange(kept, new, "", FALSE)
      <4>1. resources.config.direction = Direction
        BY DEF LaneInv
      <4> QED BY <1>4, <1>6, <2>2, <4>1 DEF QubitCommit, Reserved, Optimize, new
    <3>2. Lane(SetRange(kept, new, "", FALSE), Direction, new.first, Slots(q) \cup {new})
      <4>1. Direction \in {"FORWARD", "BACKWARD", "UNDEFINED"}
        BY <1>3
      <4>2. UpTo(Direction, last, new.first)
        BY <1>4, <1>9
      <4> QED BY <1>4, <1>7, <1>8, <2>2, <4>1, <4>2, LaneReserve
    <3> QED BY <1>4, <1>12, <2>2, <3>1, <3>2
  <2> QED BY <2>1, <2>2
<1>14. ASSUME NEW m \in scheduled, Share(m, n) PROVE ~Touches(Slot(m), new) /\ ~Touches(new, Slot(m))
  <2>1. TakesResources(m) /\ ToSet(kernel[m].operands) \cap users # {}
    BY <1>14 DEF Share, users
  <2>2. PICK q : q \in ToSet(kernel[m].operands) /\ q \in users
    BY <2>1
  <2>3. q \in Qubits /\ Slot(m) \in Slots(q)
    BY <1>4, <2>1, <2>2 DEF Slots
  <2>4. ~Touches(Slot(m), new)
    <3>1. Lane(resources.qubit[q], Direction, last, Slots(q)) /\ UpTo(Direction, last, new.first)
      BY <1>4, <1>8, <1>9, <2>3
    <3> QED BY <1>4, <1>7, <2>2, <2>3, <3>1, LaneFree
  <2> QED BY <2>4 DEF Touches
<1>15. \A a, b : (Share(a, b)' <=> Share(a, b)) /\ (Share(a, b) <=> Share(b, a))
  BY <1>10 DEF Share
<1>16. ASSUME NEW a \in scheduled', NEW b \in scheduled', a # b, Share(a, b)
       PROVE  ~Touches(Slot(a)', Slot(b)')
  <2>1. CASE a \in scheduled /\ b \in scheduled
    BY <1>11, <1>16, <2>1 DEF LaneInv
  <2>2. CASE a = n /\ b \in scheduled
    BY <1>11, <1>14, <1>15, <1>16, <2>2
  <2>3. CASE b = n /\ a \in scheduled
    BY <1>11, <1>14, <1>15, <1>16, <2>3
  <2> QED BY <1>1, <1>16, <2>1, <2>2, <2>3
<1>17. resources'.config.direction = Direction'
  BY <1>3, <1>6 DEF LaneInv
<1> QED BY <1>3, <1>6, <1>13, <1>15, <1>16, <1>17 DEF LaneInv

-----------------------------------------------------------------------------
(* Finished schedules.                                                     *)

\* No two gates have a qubit at the same time.
QubitsApart(c) ==
  \A m, n \in DOMAIN kernel : m # n /\ Share(m, n) =>
    Ends(c, Durations(kernel), m, n) \/ Ends(c, Durations(kernel), n, m)

DoneInv ==
  /\ Fits(graph, cycle) /\ SortedBy(cycle, sorted)
  /\ options.constrained => QubitsApart(cycle)
  /\ ~options.constrained => Shortest(graph, cycle)

LEMMA SlotsApart ==
  ASSUME IsKernel(kernel, options), LaneInv, scheduled = Nodes(kernel), cycle \in [Nodes(kernel) -> Int]
  PROVE  QubitsApart(cycle)
<1> SUFFICES ASSUME NEW m \in DOMAIN kernel, NEW n \in DOMAIN kernel, m # n, Share(m, n)
             PROVE  Ends(cycle, Durations(kernel), m, n) \/ Ends(cycle, Durations(kernel), n, m)
  BY DEF QubitsApart
<1>1. /\ m \in Nodes(kernel) /\ n \in Nodes(kernel) /\ cycle[m] \in Int /\ cycle[n] \in Int
      /\ Durations(kernel)[m] \in Nat /\ Durations(kernel)[n] \in Nat
  <2>1. /\ DOMAIN kernel = 1 .. Len(kernel) /\ Nodes(kernel) = 0 .. Len(kernel) + 1 /\ Len(kernel) \in Nat
        /\ \A i \in DOMAIN kernel : Durations(kernel)[i] \in Nat
    BY KernelNodes
  <2>2. m \in Nodes(kernel) /\ n \in Nodes(kernel)
    BY <2>1
  <2> QED BY <2>1, <2>2
<1>2. ~Touches(Slot(m), Slot(n))
  BY <1>1 DEF LaneInv
<1>3. /\ Slot(m).first = cycle[m] /\ Slot(m).second = cycle[m] + Durations(kernel)[m]
      /\ Slot(n).first = cycle[n] /\ Slot(n).second = cycle[n] + Durations(kernel)[n]
  BY <1>1, SlotShape DEF Slot, Share
<1> QED BY <1>1, <1>2, <1>3 DEF Touches, Ends

LEMMA ShiftedApart ==
  ASSUME IsKernel(kernel, options), Demands(kernel, options, graph), NEW c, Fits(graph, c), QubitsApart(c)
  PROVE  Fits(graph, Shifted(c)) /\ QubitsApart(Shifted(c))
<1>1. /\ Shifted(c) \in [Nodes(kernel) -> Int] /\ Respects(Shifted(c), Durations(kernel), graph.arcs)
      /\ \A n \in Nodes(kernel) : Shifted(c)[n] = c[n] - c[0]
  BY ShiftedRespects DEF Fits
<1>2. /\ c \in [Nodes(kernel) -> Int] /\ 0 \in Nodes(kernel) /\ DOMAIN kernel \subseteq Nodes(kernel)
      /\ \A i \in DOMAIN kernel : Durations(kernel)[i] \in Nat
  <2>1. /\ DOMAIN kernel = 1 .. Len(kernel) /\ Nodes(kernel) = 0 .. Len(kernel) + 1 /\ Len(kernel) \in Nat
        /\ \A i \in DOMAIN kernel : Durations(kernel)[i] \in Nat
    BY KernelNodes
  <2> QED BY <2>1 DEF Fits
<1>3. ASSUME NEW m \in DOMAIN kernel, NEW n \in DOMAIN kernel, Ends(c, Durations(kernel), m, n)
      PROVE  Ends(Shifted(c), Durations(kernel), m, n)
  <2>1. m \in Nodes(kernel) /\ n \in Nodes(kernel)
    BY <1>2
  <2>2. c[m] \in Int /\ c[n] \in Int /\ c[0] \in Int /\ Durations(kernel)[m] \in Nat
    BY <1>2, <2>1
  <2> QED BY <1>1, <1>3, <2>1, <2>2 DEF Ends
<1>4. QubitsApart(Shifted(c))
  BY <1>3 DEF QubitsApart
<1> QED BY <1>1, <1>4 DEF Fits

LEMMA ListEnds ==
  ASSUME IsKernel(kernel, options), Demands(kernel, options, graph), OrderInv, LaneInv, FinishListing
  PROVE  DoneInv'
<1>1. /\ avlist = {} /\ sorted' = ByCycle(cycle) /\ UNCHANGED <<kernel, options, graph>>
      /\ cycle' = IF Direction = "BACKWARD" THEN Shifted(cycle) ELSE cycle
  BY DEF FinishListing, graphVars
<1>2. scheduled = Nodes(kernel) /\ Fits(graph, cycle)
  BY <1>1, OrderEnds
<1>3. QubitsApart(cycle) /\ options.constrained /\ cycle \in [Nodes(kernel) -> Int]
  BY <1>2, SlotsApart DEF Fits, OrderInv
<1>4. SortedBy(cycle, sorted') /\ SortedBy(Shifted(cycle), sorted')
  BY <1>1, <1>2, <1>3, SortsBy, SortsShifted
<1>5. Fits(graph, Shifted(cycle)) /\ QubitsApart(Shifted(cycle))
  BY <1>2, <1>3, ShiftedApart
<1>6. Fits(graph, cycle') /\ QubitsApart(cycle') /\ SortedBy(cycle', sorted')
  BY <1>1, <1>2, <1>3, <1>4, <1>5
<1> HIDE DEF DoneInv
<1>7. \A m, n : Share(m, n)' <=> Share(m, n)
  BY <1>1 DEF Share, TakesResources, IsSentinel, End
<1> QED BY <1>1, <1>3, <1>6, <1>7 DEF DoneInv, Fits, QubitsApart, SortedBy

LEMMA UnconstrainedEnds ==
  ASSUME IsKernel(kernel, options), kernel # <<>>, Demands(kernel, options, Closed),
         options.target \in {"asap", "alap", "uniform"},
         StartUnconstrained(Closed), graph' = Closed, UNCHANGED <<kernel, options>>
  PROVE  DoneInv'
<1>1. /\ ~options.constrained /\ cycle' \in {AsapCycles(kernel, Closed), Shifted(AlapCycles(Closed))}
      /\ sorted' = ByCycle(cycle')
  BY DEF StartUnconstrained
<1>2. Shortest(Closed, cycle')
  BY <1>1, UnconstrainedShortest
<1>3. SortedBy(cycle', sorted')
  BY <1>1, <1>2, SortsBy DEF Shortest, Fits
<1> QED BY <1>1, <1>2, <1>3 DEF DoneInv, Shortest, Fits, SortedBy, End

LEMMA UniformEnds ==
  ASSUME IsKernel(kernel, options), UniformInv, FinishUniform
  PROVE  DoneInv'
<1>1. /\ UNCHANGED <<kernel, options, graph, cycle>> /\ sorted' = ByCycle(cycle)
      /\ ~options.constrained /\ Shortest(graph, cycle)
  BY DEF FinishUniform, graphVars, UniformInv
<1>2. SortedBy(cycle, sorted')
  BY <1>1, SortsBy DEF Shortest, Fits
<1> QED BY <1>1, <1>2 DEF DoneInv, Shortest, Fits, SortedBy, End

-----------------------------------------------------------------------------
(* The invariant of the scheduler.                                         *)

SchedulerInv ==
  /\ GraphInv
  /\ outcome = "building" => resources.config = SchedulerConfig
  /\ IsKernel(kernel, options) =>
       /\ outcome = "listing" => OrderInv /\ LaneInv
       /\ outcome = "uniform" => UniformInv
       /\ outcome = "done"    => DoneInv

LEMMA SchedulerStarts == Init => SchedulerInv
<1> SUFFICES ASSUME Init PROVE SchedulerInv
  OBVIOUS
<1>1. outcome = "building" /\ resources = InitialResources(SchedulerConfig)
  BY DEF Init, StartOf
<1>2. resources.config = SchedulerConfig
  BY <1>1 DEF InitialResources
<1> QED BY <1>1, <1>2, GraphStarts DEF SchedulerInv

\* The step that completes the graph.
LEMMA FinishesInit ==
  ASSUME SchedulerInv, FinishInit, kernel # <<>>, IsKernel(kernel, options)
  PROVE  /\ outcome' = "listing" => OrderInv' /\ LaneInv'
         /\ outcome' = "uniform" => UniformInv'
         /\ outcome' = "done"    => DoneInv'
<1>1. /\ outcome = "building" /\ built = Len(kernel) /\ graph' = Closed
      /\ UNCHANGED <<kernel, options>>
      /\ \/ Refused /\ outcome' = "fatal"
         \/ ~Refused /\ (StartUnconstrained(Closed) \/ StartListing(Closed) \/ StartUniform(Closed))
  BY DEF FinishInit
<1>2. options.target \in {"asap", "alap", "uniform"}
  BY ScheduleAssumption DEF SchedulerInv, GraphInv
<1>3. CASE Refused /\ outcome' = "fatal"
  BY <1>3
<1>4. ASSUME ~Refused PROVE Demands(kernel, options, Closed)
  BY <1>1, <1>4, ClosedGraph DEF SchedulerInv, Refused
<1>5. CASE ~Refused /\ StartUnconstrained(Closed)
  <2>1. outcome' = "done"
    BY <1>5 DEF StartUnconstrained
  <2> QED BY <1>1, <1>2, <1>4, <1>5, <2>1, UnconstrainedEnds
<1>6. CASE ~Refused /\ StartListing(Closed)
  <2>1. outcome' = "listing" /\ resources.config = SchedulerConfig
    BY <1>1, <1>6 DEF StartListing, SchedulerInv
  <2> QED BY <1>1, <1>2, <1>4, <1>6, <2>1, OrderStarts, LanesStart
<1>7. CASE ~Refused /\ StartUniform(Closed)
  <2>1. outcome' = "uniform"
    BY <1>7 DEF StartUniform
  <2> QED BY <1>1, <1>4, <1>7, <2>1, UniformStarts
<1> QED BY <1>1, <1>3, <1>5, <1>6, <1>7

LEMMA Lists ==
  ASSUME IsKernel(kernel, options), Demands(kernel, options, graph), OrderInv, LaneInv, ListStep
  PROVE  OrderInv' /\ LaneInv'
<1>1. UNCHANGED <<kernel, options, graph>> /\ (AdvanceCurrCycle \/ \E n \in avlist : Schedule(n))
  BY DEF ListStep, graphVars
<1>2. CASE AdvanceCurrCycle
  <2>1. UNCHANGED <<kernel, options, resources, cycle, scheduled>>
    BY <1>1, <1>2 DEF AdvanceCurrCycle
  <2> QED BY <1>1, <1>2, <2>1, OrderWaits, LanesKept
<1>3. ASSUME NEW n \in avlist, Schedule(n) PROVE OrderInv' /\ LaneInv'
  <2>1. OrderInv' /\ \A m \in scheduled : m # n /\ cycle'[m] = cycle[m]
    BY <1>1, <1>3, OrderSchedules
  <2>2. CASE TakesResources(n)
    BY <1>1, <1>3, <2>1, <2>2, LanesSchedule
  <2>3. CASE ~TakesResources(n)
    <3>1. scheduled' = scheduled \cup {n} /\ resources' = resources
      BY <1>3, <2>3 DEF Schedule
    <3> QED BY <1>1, <2>1, <2>3, <3>1, LanesKept
  <2> QED BY <2>2, <2>3
<1> QED BY <1>1, <1>2, <1>3

LEMMA SchedulerStep ==
  ASSUME SchedulerInv, [Next]_vars
  PROVE  SchedulerInv'
<1>0. GraphInv'
  BY GraphStep DEF SchedulerInv
<1>1. CASE Map \/ UNCHANGED vars
  <2>1. UNCHANGED schedulerVars
    BY <1>1 DEF Map, vars
  <2>2. UNCHANGED <<kernel, options, graph, built, outcome, cycle, curr_cycle, avlist, scheduled, resources,
                    gates_per_cycle, pred_cycle, gates_to_go, sorted>>
    BY <2>1 DEF schedulerVars, graphVars, listVars, uniformVars
  <2>3. (OrderInv' <=> OrderInv) /\ (LaneInv' <=> LaneInv) /\ (UniformInv' <=> UniformInv) /\ (DoneInv' <=> DoneInv)
    <3>1. \A m, n : Share(m, n)' <=> Share(m, n)
      BY <2>2 DEF Share, TakesResources, IsSentinel, End
    <3>2. OrderInv' <=> OrderInv
      BY <2>2 DEF OrderInv, MetAt, Later, Direction
    <3>3. LaneInv' <=> LaneInv
      <4>1. (\A q : Slots(q)' = Slots(q)) /\ \A n : Slot(n)' = Slot(n)
        BY <2>2 DEF Slots, Slot, TakesResources, IsSentinel, End
      <4> QED BY <2>2, <3>1, <4>1 DEF LaneInv, Direction
    <3>4. UniformInv' <=> UniformInv
      BY <2>2 DEF UniformInv, Shortest, Fits, Bundle, End
    <3>5. DoneInv' <=> DoneInv
      BY <2>2, <3>1 DEF DoneInv, Shortest, Fits, SortedBy, QubitsApart, End
    <3> QED BY <3>2, <3>3, <3>4, <3>5
  <2> QED BY <1>0, <2>2, <2>3 DEF SchedulerInv
<1>2. CASE Hand
  <2>1. outcome' = "building" /\ outcome = "building" /\ resources' = resources
    BY <1>2 DEF Hand, listVars
  <2> QED BY <1>0, <2>1 DEF SchedulerInv
<1>3. CASE RunScheduler
  <2>1. kernel # <<>> /\ SchedulerNext
    BY <1>3 DEF RunScheduler
  <2>2. CASE InitGate
    <3>1. outcome' = "building" /\ outcome = "building" /\ resources' = resources
      BY <2>2 DEF InitGate, listVars
    <3> QED BY <1>0, <3>1 DEF SchedulerInv
  <2>3. CASE FinishInit
    <3>1. outcome' # "building" /\ UNCHANGED <<kernel, options>>
      BY <2>3 DEF FinishInit, StartUnconstrained, StartListing, StartUniform
    <3> QED BY <1>0, <2>1, <2>3, <3>1, FinishesInit DEF SchedulerInv
  <2>4. CASE Schedules
    <3>1. UNCHANGED <<kernel, options, graph>>
      BY <2>4 DEF Schedules, ListStep, FinishListing, UniformMove, UniformNextCycle, FinishUniform, graphVars
    <3> SUFFICES ASSUME IsKernel(kernel, options)
                 PROVE  /\ outcome' # "building"
                        /\ outcome' = "listing" => OrderInv' /\ LaneInv'
                        /\ outcome' = "uniform" => UniformInv'
                        /\ outcome' = "done"    => DoneInv'
      <4>1. outcome' # "building"
        BY <2>4 DEF Schedules, ListStep, FinishListing, UniformMove, UniformNextCycle, FinishUniform
      <4> QED BY <1>0, <3>1, <4>1 DEF SchedulerInv
    <3>2. outcome \in {"listing", "uniform"}
      BY <2>4 DEF Schedules, ListStep, FinishListing, UniformMove, UniformNextCycle, FinishUniform
    <3>3. Demands(kernel, options, graph)
      BY <3>2 DEF SchedulerInv, GraphInv
    <3>4. CASE ListStep
      <4>1. outcome = "listing" /\ outcome' = "listing"
        BY <3>4 DEF ListStep
      <4> QED BY <3>3, <3>4, <4>1, Lists DEF SchedulerInv
    <3>5. CASE FinishListing
      <4>1. outcome = "listing" /\ outcome' = "done"
        BY <3>5 DEF FinishListing
      <4> QED BY <3>3, <3>5, <4>1, ListEnds DEF SchedulerInv
    <3>6. CASE UniformMove
      <4>1. outcome = "uniform" /\ outcome' = "uniform"
        BY <3>6 DEF UniformMove
      <4> QED BY <2>1, <3>3, <3>6, <4>1, UniformMoves DEF SchedulerInv
    <3>7. CASE UniformNextCycle
      <4>1. outcome = "uniform" /\ outcome' = "uniform"
        BY <3>7 DEF UniformNextCycle
      <4> QED BY <3>7, <4>1, UniformAdvances DEF SchedulerInv
    <3>8. CASE FinishUniform
      <4>1. outcome = "uniform" /\ outcome' = "done"
        BY <3>8 DEF FinishUniform
      <4> QED BY <3>8, <4>1, UniformEnds DEF SchedulerInv
    <3> QED BY <2>4, <3>4, <3>5, <3>6, <3>7, <3>8 DEF Schedules
  <2> QED BY <2>1, <2>2, <2>3, <2>4 DEF SchedulerNext, Schedules
<1> QED BY <1>1, <1>2, <1>3 DEF Next

-----------------------------------------------------------------------------
(* What the properties say of finished schedules.                          *)

\* Gates that share a qubit commute only if both have it reserved.
LEMMA SharedOrOrdered ==
  ASSUME IsKernel(kernel, options), NEW m \in DOMAIN kernel, NEW n \in DOMAIN kernel,
         ToSet(kernel[m].operands) \cap ToSet(kernel[n].operands) # {}
  PROVE  Share(m, n) \/ InConflict(kernel[m], kernel[n], options)
<1>1. /\ ~IsSentinel(m) /\ ~IsSentinel(n)
  BY KernelNodes DEF IsSentinel, End
<1>2. PICK q : q \in ToSet(kernel[m].operands) /\ q \in ToSet(kernel[n].operands)
  OBVIOUS
<1>3. ToSet(<<>>) = {}
  BY DEF ToSet
<1>4. ~IsClassical(kernel[m]) /\ ~IsClassical(kernel[n])
  BY <1>2, <1>3, KernelEvents
<1>5. ASSUME IsWait(kernel[m]) \/ IsWait(kernel[n]) PROVE InConflict(kernel[m], kernel[n], options)
  <2> DEFINE es == EventsOf(kernel[m], options)
             fs == EventsOf(kernel[n], options)
  <2>0. TouchesAll(kernel[m], es) /\ TouchesAll(kernel[n], fs)
    BY KernelEvents
  <2> HIDE DEF es, fs
  <2>1. PICK i \in DOMAIN es : es[i].object = Qubit(q) /\ (IsWait(kernel[m]) => es[i].event = "default")
    BY ONLY <1>2, <1>4, <2>0 DEF TouchesAll
  <2>2. PICK j \in DOMAIN fs : fs[j].object = Qubit(q) /\ (IsWait(kernel[n]) => fs[j].event = "default")
    BY ONLY <1>2, <1>4, <2>0 DEF TouchesAll
  <2>3. fs[j].event = "default" => ~fs[j].commutes
    <3>1. fs \in Seq(Events(options))
      BY KernelEvents DEF fs
    <3>2. fs[j] \in Events(options)
      BY <3>1
    <3>3. LegalEvent(fs[j])
      BY <3>2 DEF Events
    <3> QED BY <3>3 DEF LegalEvent, EventKinds
  <2>4. es[i].object = fs[j].object /\ ~(es[i].event = fs[j].event /\ fs[j].commutes)
    BY <1>5, <2>1, <2>2, <2>3
  <2> QED BY <2>4 DEF InConflict, es, fs
<1>6. ASSUME ~IsWait(kernel[m]), ~IsWait(kernel[n]) PROVE Share(m, n)
  BY <1>1, <1>4, <1>6 DEF Share, TakesResources
<1> QED BY <1>5, <1>6

LEMMA DoneOrder ==
  ASSUME SchedulerInv, IsKernel(kernel, options)
  PROVE  ConflictsScheduled
<1> SUFFICES ASSUME outcome = "done" PROVE ConflictsScheduled
  BY DEF ConflictsScheduled
<1> DEFINE L == Len(kernel)
           d == Durations(kernel)
<1>1. Demands(kernel, options, graph) /\ DoneInv
  BY DEF SchedulerInv, GraphInv
<1>2. /\ L \in Nat /\ DOMAIN kernel = 1 .. L /\ Nodes(kernel) = 0 .. L + 1
      /\ \A n \in 1 .. L : d[n] = DurationOf(kernel, n) /\ d[n] \in Nat
  <2>1. /\ L \in Nat /\ DOMAIN kernel = 1 .. L /\ Nodes(kernel) = 0 .. L + 1
        /\ \A n \in Nodes(kernel) : d[n] = DurationOf(kernel, n)
        /\ d \in [0 .. L + 1 -> Nat]
    BY KernelNodes
  <2> QED BY <2>1
<1>3. cycle \in [Nodes(kernel) -> Int] /\ MeetsAll(kernel, options, cycle) /\ SortedBy(cycle, sorted)
  BY <1>1 DEF DoneInv, Fits, Demands
<1>4. \A n \in 1 .. L : cycle[n] \in Int
  BY <1>2, <1>3
<1> HIDE DEF L, d
<1>5. /\ sorted \in [1 .. L -> 1 .. L] /\ \A n \in 1 .. L : \E i \in 1 .. L : sorted[i] = n
      /\ \A i, j \in 1 .. L : sorted[i] = sorted[j] => i = j
      /\ \A i, j \in 1 .. L : i < j => Earlier(cycle, sorted[i], sorted[j])
  BY <1>3 DEF SortedBy, L
<1>6. Len(sorted) = Len(kernel) /\ ToSet(sorted) = DOMAIN kernel /\ DOMAIN sorted = 1 .. L
  <2>1. Len(sorted) = L /\ DOMAIN sorted = 1 .. L
    BY <1>2, <1>5
  <2>2. ToSet(sorted) = 1 .. L
    <3>1. \A x : x \in ToSet(sorted) <=> \E i \in 1 .. L : x = sorted[i]
      BY <2>1 DEF ToSet
    <3>2. \A i \in 1 .. L : sorted[i] \in 1 .. L
      BY <1>5
    <3>3. \A n \in 1 .. L : \E i \in 1 .. L : sorted[i] = n
      BY <1>5
    <3> QED BY ONLY <3>1, <3>2, <3>3, ZenonT(60)
  <2> QED BY <1>2, <2>1, <2>2 DEF L
<1>7. \A m, n \in 1 .. L : Ends(cycle, d, m, n) => EndsBefore(m, n)
  BY <1>2 DEF Ends, EndsBefore
<1>8. ASSUME NEW i \in 1 .. L, NEW j \in 1 .. L, sorted[i] < sorted[j],
             InConflict(kernel[sorted[i]], kernel[sorted[j]], options)
      PROVE  i < j /\ EndsBefore(sorted[i], sorted[j])
  <2> DEFINE m == sorted[i]
             n == sorted[j]
  <2>1. m \in 1 .. L /\ n \in 1 .. L /\ m < n
    BY <1>5, <1>8
  <2>2. Ends(cycle, d, m, n)
    BY <1>2, <1>3, <1>8, <2>1 DEF MeetsAll, d
  <2>3. cycle[m] <= cycle[n]
    BY <1>2, <1>4, <2>1, <2>2 DEF Ends
  <2>4. ~Earlier(cycle, n, m)
    BY <1>2, <1>4, <2>1, <2>3 DEF Earlier
  <2>5. ~(j < i) /\ i # j
    BY <1>2, <1>5, <2>1, <2>4
  <2> QED BY <1>2, <1>7, <2>1, <2>2, <2>5
<1>9. ASSUME NEW i \in 1 .. L, NEW j \in 1 .. L, sorted[i] < sorted[j], options.constrained,
             ToSet(kernel[sorted[i]].operands) \cap ToSet(kernel[sorted[j]].operands) # {}
      PROVE  EndsBefore(sorted[i], sorted[j]) \/ EndsBefore(sorted[j], sorted[i])
  <2> DEFINE m == sorted[i]
             n == sorted[j]
  <2>1. m \in 1 .. L /\ n \in 1 .. L /\ m # n
    BY <1>2, <1>5, <1>9
  <2>2. Share(m, n) \/ InConflict(kernel[m], kernel[n], options)
    BY <1>2, <1>9, <2>1, SharedOrOrdered
  <2>3. CASE Share(m, n)
    <3>1. Ends(cycle, d, m, n) \/ Ends(cycle, d, n, m)
      BY <1>1, <1>2, <1>9, <2>1, <2>3 DEF DoneInv, QubitsApart, d
    <3> QED BY <1>7, <2>1, <3>1
  <2>4. CASE InConflict(kernel[m], kernel[n], options)
    BY <1>8, <1>9, <2>4
  <2> QED BY <2>2, <2>3, <2>4
<1> QED BY <1>6, <1>8, <1>9 DEF ConflictsScheduled

LEMMA DoneShortest ==
  ASSUME SchedulerInv, IsKernel(kernel, options)
  PROVE  ShortestCircuit
<1> SUFFICES ASSUME outcome = "done", ~options.constrained PROVE ShortestCircuit
  BY DEF ShortestCircuit
<1> DEFINE L == Len(kernel)
           d == Durations(kernel)
<1>1. Demands(kernel, options, graph) /\ kernel # <<>> /\ Shortest(graph, cycle)
  BY DEF SchedulerInv, GraphInv, DoneInv
<1>2. cycle[End] = Largest({EndOf[n] : n \in 0 .. Len(kernel)})
  <2>1. cycle[End] = AsapCycles(kernel, graph)[End]
    BY <1>1 DEF Shortest
  <2> QED BY <1>1, <2>1, LengthAsap
<1>3. /\ L \in Nat /\ DOMAIN kernel = 1 .. L /\ Nodes(kernel) = 0 .. L + 1 /\ End = L + 1
      /\ d[0] = 1 /\ \A n \in Nodes(kernel) : d[n] = DurationOf(kernel, n)
  BY KernelNodes DEF End
<1>4. cycle \in [Nodes(kernel) -> Int] /\ cycle[0] = 0 /\ MeetsAll(kernel, options, cycle)
  BY <1>1 DEF Shortest, Fits, Demands
<1>5. ASSUME NEW n \in DOMAIN kernel
      PROVE  1 <= cycle[n] /\ cycle[n] + DurationOf(kernel, n) <= cycle[End]
  <2>1. Ends(cycle, d, 0, n) /\ Ends(cycle, d, n, L + 1)
    BY <1>4 DEF MeetsAll
  <2>2. d[n] = DurationOf(kernel, n)
    BY <1>3
  <2> HIDE DEF d
  <2> QED BY <1>3, <1>4, <2>1, <2>2 DEF Ends
<1> QED BY <1>2, <1>5 DEF ShortestCircuit

-----------------------------------------------------------------------------
(* The theorems.                                                           *)

\* Whatever the mapper delivers and whatever the job asks for, the graph records what has
\* been added to it, and schedules in the making keep its order and reserve their qubits
\* (scheduler.cc:196-612, 976-1292 and 1311-1500).
THEOREM SchedulerInvariant == Spec => []SchedulerInv
<1>1. SchedulerInv /\ [Next]_vars => SchedulerInv'
  BY SchedulerStep
<1> QED BY SchedulerStarts, <1>1, PTL DEF Spec

\* What the scheduler knows of the graph when it starts to schedule: an arc between two
\* gates is there only if they must stay in order, and cycles that respect the arcs keep
\* everything in order that must be (scheduler.cc:196-612).
THEOREM GraphIsRight ==
  Spec => [](IsKernel(kernel, options) /\ outcome \in {"listing", "uniform", "done"}
               => Demands(kernel, options, graph))
<1>1. SchedulerInv /\ IsKernel(kernel, options) /\ outcome \in {"listing", "uniform", "done"}
        => Demands(kernel, options, graph)
  BY DEF SchedulerInv, GraphInv
<1> QED BY SchedulerInvariant, <1>1, PTL

\* Every schedule has every gate once, gates that must stay in order in order, and with
\* resources no qubit has two gates at a time (scheduler.cc:196-612 and 1121-1292).
THEOREM ScheduleKeepsOrder == Spec => [](IsKernel(kernel, options) => ConflictsScheduled)
<1>1. SchedulerInv => (IsKernel(kernel, options) => ConflictsScheduled)
  BY DoneOrder
<1> QED BY SchedulerInvariant, <1>1, PTL

\* Without resources no gate could be scheduled so that the circuit ended earlier, also
\* when the uniform scheduler moves gates (scheduler.cc:690-792 and 1311-1500).
THEOREM CircuitIsShortest == Spec => [](IsKernel(kernel, options) => ShortestCircuit)
<1>1. SchedulerInv => (IsKernel(kernel, options) => ShortestCircuit)
  BY DoneShortest
<1> QED BY SchedulerInvariant, <1>1, PTL

=============================================================================
