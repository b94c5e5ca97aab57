------------------------------ MODULE PassProofs ----------------------------
(***************************************************************************)
(* Theorems about com/sch/scheduler.h and pass/sch/list_schedule.  First   *)
(* the scheduler: its collections hold what they should, no statement is   *)
(* lost, and every run is a schedule, for every dependency graph and every *)
(* set of resources.  Then what run_on_block() promises of the scheduled   *)
(* block, for every block, every choice of the options and every set of    *)
(* resources: what DdgProofs shows of the graph builder, the first part of *)
(* the scheduler and RangeMapTheory of the reservations, put together.     *)
(***************************************************************************)
EXTENDS ListSchedulePass, RangeMapTheory, FiniteSetTheorems, WellFoundedInduction, TLAPS

-----------------------------------------------------------------------------
(* Finite sets and distances.                                              *)

\* A finite set has an element with the largest key: the smallest of the sets of
\* elements with at least a given key is that of the largest.
LEMMA Farthest ==
  ASSUME NEW S, IsFiniteSet(S), S # {}, NEW k \in [S -> Int]
  PROVE  \E x \in S : \A y \in S : k[y] <= k[x]
<1> DEFINE above(x) == {y \in S : k[x] <= k[y]}
           T == {above(x) : x \in S}
<1>1. IsWellFoundedOn(StrictSubsetOrdering(S), SUBSET S)
  BY FS_StrictSubsetOrderingWellFounded, FS_FiniteSubsetsOfFinite, Zenon
<1>2. T \subseteq SUBSET S /\ T # {}
  <2>1. \A x \in S : above(x) \subseteq S
    OBVIOUS
  <2>2. PICK x \in S : TRUE
    OBVIOUS
  <2> HIDE DEF above
  <2> QED BY <2>1, <2>2
<1>3. PICK A \in T : \A B \in T : <<B, A>> \notin StrictSubsetOrdering(S)
  BY <1>1, <1>2, WFMin, Zenon
<1>4. PICK x \in S : A = above(x)
  BY <1>3
<1>5. SUFFICES ASSUME NEW y \in S, ~(k[y] <= k[x]) PROVE FALSE
  BY <1>4
<1>6. above(y) \subseteq A /\ x \in A /\ x \notin above(y)
  BY <1>4, <1>5
<1>7. <<above(y), A>> \in StrictSubsetOrdering(S)
  BY <1>2, <1>3, <1>6 DEF StrictSubsetOrdering
<1> QED BY <1>3, <1>7

\* Along the direction of a graph, cycles are compared by their distance from zero.
LEMMA Direction ==
  ASSUME NEW d \in {-1, 1}
  PROVE  \/ d = 1 /\ \A c \in Int : d * c = c
         \/ d = -1 /\ \A c \in Int : d * c = -c
OBVIOUS

\* What the shape of a graph says of the predecessors of a node.
LEMMA PredecessorFacts ==
  ASSUME NEW g, IsGraph(g), NEW n \in DOMAIN g.order
  PROVE  /\ Predecessors(g, n) \subseteq DOMAIN g.order /\ IsFiniteSet(Predecessors(g, n))
         /\ Predecessors(g, n) = {} <=> n = g.source
         /\ \A p \in Predecessors(g, n) :
              /\ <<p, n>> \in Edges(g) /\ p # n
              /\ g.weight[<<p, n>>] \in Int /\ 0 <= g.direction * g.weight[<<p, n>>]
<1>1. \A p \in Predecessors(g, n) : <<p, n>> \in Edges(g)
  <2> SUFFICES ASSUME NEW p \in Predecessors(g, n) PROVE <<p, n>> \in Edges(g)
    OBVIOUS
  <2>1. PICK e \in Edges(g) : e[2] = n /\ p = e[1]
    BY DEF Predecessors
  <2>2. e \in (DOMAIN g.order) \X (DOMAIN g.order)
    BY <2>1 DEF IsGraph
  <2> QED BY <2>1, <2>2
<1>2. Predecessors(g, n) \subseteq DOMAIN g.order
  BY <1>1 DEF IsGraph
<1>3. IsFiniteSet(Predecessors(g, n))
  BY <1>2, FS_Subset DEF IsGraph
<1>4. Predecessors(g, n) = {} <=> n = g.source
  BY DEF IsGraph
<1>5. ASSUME NEW p \in Predecessors(g, n)
      PROVE  p # n /\ g.weight[<<p, n>>] \in Int /\ 0 <= g.direction * g.weight[<<p, n>>]
  <2>1. <<p, n>> \in Edges(g)
    BY <1>1
  <2>2. /\ g.order[p] < g.order[n] /\ g.weight[<<p, n>>] \in Int
        /\ g.direction * g.weight[<<p, n>>] >= 0 /\ g.order[n] \in Int
    BY <2>1 DEF IsGraph
  <2>3. g.direction * g.weight[<<p, n>>] \in Int
    BY <2>2 DEF IsGraph
  <2> QED BY <2>2, <2>3
<1> QED BY <1>1, <1>2, <1>3, <1>4, <1>5

\* schedule() computes, for a statement whose predecessors all lie on the scheduled side
\* of zero, the last of the cycles in which they finish.
LEMMA AvailableFromFacts ==
  ASSUME NEW g, IsGraph(g), NEW n \in DOMAIN g.order, NEW cycles \in [DOMAIN g.order -> Int],
         \A p \in Predecessors(g, n) : 0 <= g.direction * cycles[p]
  PROVE  LET from == AvailableFrom(g, n, cycles)
         IN /\ from \in Int /\ 0 <= g.direction * from
            /\ \A p \in Predecessors(g, n) :
                 g.direction * (cycles[p] + g.weight[<<p, n>>]) <= g.direction * from
            /\ from = 0 \/ \E p \in Predecessors(g, n) : from = cycles[p] + g.weight[<<p, n>>]
<1> DEFINE P     == Predecessors(g, n)
           w(p)  == g.weight[<<p, n>>]
           froms == {0} \cup {cycles[p] + w(p) : p \in P}
           from  == AvailableFrom(g, n, cycles)
<1>1. P \subseteq DOMAIN g.order /\ IsFiniteSet(P) /\ \A p \in P : w(p) \in Int /\ 0 <= g.direction * w(p)
  BY PredecessorFacts
<1>2. \/ g.direction = 1 /\ \A c \in Int : g.direction * c = c
      \/ g.direction = -1 /\ \A c \in Int : g.direction * c = -c
  BY Direction DEF IsGraph
<1>3. \A p \in P : cycles[p] \in Int /\ cycles[p] + w(p) \in Int
  BY <1>1
<1>4. \A c \in froms : c \in Int /\ 0 <= g.direction * c /\ Abs(c) = g.direction * c
  <2>1. \A p \in P : 0 <= g.direction * cycles[p]
    OBVIOUS
  <2> HIDE DEF P, w
  <2> QED BY <1>1, <1>2, <1>3, <2>1 DEF Abs
<1>5. \E c \in froms : \A d \in froms : Abs(d) <= Abs(c)
  <2>1. CASE P = {}
    <3>1. froms = {0}
      BY <2>1
    <3> HIDE DEF froms
    <3> QED BY <1>4, <3>1 DEF Abs
  <2>2. CASE P # {}
    <3> DEFINE k == [p \in P |-> Abs(cycles[p] + w(p))]
    <3>1. k \in [P -> Int]
      BY <1>3 DEF Abs
    <3>2. PICK x \in P : \A y \in P : k[y] <= k[x]
      <4> HIDE DEF k, P
      <4> QED BY <1>1, <2>2, <3>1, Farthest
    <3>3. \A y \in P : Abs(cycles[y] + w(y)) <= Abs(cycles[x] + w(x))
      BY <3>2
    <3>4. cycles[x] + w(x) \in froms /\ Abs(0) = 0 /\ 0 <= Abs(cycles[x] + w(x))
      <4>1. x \in P /\ cycles[x] + w(x) \in Int
        BY <1>3, <3>2
      <4> HIDE DEF P, w
      <4> QED BY <4>1 DEF Abs
    <3>5. \A d \in froms : Abs(d) <= Abs(cycles[x] + w(x))
      <4> HIDE DEF P, w
      <4> QED BY <3>3, <3>4
    <3>6. cycles[x] + w(x) \in froms
      BY <3>4
    <3> HIDE DEF froms
    <3> QED BY <3>5, <3>6
  <2> QED BY <2>1, <2>2
<1>6. from \in froms /\ \A d \in froms : Abs(d) <= Abs(from)
  BY <1>5 DEF AvailableFrom
<1>7. from \in Int /\ 0 <= g.direction * from
  BY <1>4, <1>6
<1>8. ASSUME NEW p \in P PROVE g.direction * (cycles[p] + w(p)) <= g.direction * from
  BY <1>4, <1>6
<1>9. from = 0 \/ \E p \in P : from = cycles[p] + w(p)
  BY <1>6
<1> HIDE DEF from, P, w
<1> QED BY <1>7, <1>8, <1>9 DEF from, P, w

\* It only looks at the predecessors.
LEMMA AvailableFromSame ==
  ASSUME NEW g, NEW n, NEW a, NEW b, \A p \in Predecessors(g, n) : a[p] = b[p]
  PROVE  AvailableFrom(g, n, a) = AvailableFrom(g, n, b)
<1>1. {0} \cup {a[p] + g.weight[<<p, n>>] : p \in Predecessors(g, n)}
        = {0} \cup {b[p] + g.weight[<<p, n>>] : p \in Predecessors(g, n)}
  OBVIOUS
<1> QED BY <1>1, Zenon DEF AvailableFrom

\* As long as not everything is scheduled, something is ready: the first in the order.
LEMMA SomeReady ==
  ASSUME NEW g, IsGraph(g), NEW S, DOMAIN g.order \ S # {}
  PROVE  \E m \in DOMAIN g.order \ S : Predecessors(g, m) \subseteq S
<1> DEFINE left == DOMAIN g.order \ S
           k == [m \in left |-> -g.order[m]]
<1>1. IsFiniteSet(left)
  BY FS_Subset DEF IsGraph
<1>2. k \in [left -> Int]
  BY DEF IsGraph
<1>3. PICK m \in left : \A x \in left : k[x] <= k[m]
  <2> HIDE DEF k, left
  <2>1. left # {}
    BY DEF left
  <2> QED BY <1>1, <1>2, <2>1, Farthest
<1>4. ASSUME NEW p \in Predecessors(g, m), p \in left PROVE FALSE
  <2>1. <<p, m>> \in Edges(g)
    BY PredecessorFacts
  <2>2. g.order[p] < g.order[m] /\ g.order[p] \in Int /\ g.order[m] \in Int
    BY <2>1 DEF IsGraph
  <2>3. -g.order[p] <= -g.order[m]
    BY <1>3, <1>4
  <2> QED BY <2>2, <2>3
<1> QED BY <1>3, <1>4, PredecessorFacts

\* Successors and predecessors are two views of the edges.
LEMMA SuccessorIff ==
  ASSUME NEW g, IsGraph(g), NEW n, NEW m
  PROVE  m \in Successors(g, n) <=> m \in DOMAIN g.order /\ n \in Predecessors(g, m)
<1>1. ASSUME m \in Successors(g, n) PROVE m \in DOMAIN g.order /\ n \in Predecessors(g, m)
  <2>1. PICK e \in Edges(g) : e[1] = n /\ m = e[2]
    BY <1>1 DEF Successors
  <2>2. e \in (DOMAIN g.order) \X (DOMAIN g.order)
    BY <2>1 DEF IsGraph
  <2> QED BY <2>1, <2>2 DEF Predecessors
<1>2. ASSUME n \in Predecessors(g, m) PROVE m \in Successors(g, n)
  BY <1>2 DEF Successors, Predecessors
<1> QED BY <1>1, <1>2

-----------------------------------------------------------------------------
(* One step of schedule().                                                 *)

CyclesAfter(n) == [cycleOf EXCEPT ![n] = cycle]
Done(n) == scheduled \cup {n}
ReadyAfter(n) == {m \in Nodes \ Done(n) : Predecessors(graph, m) \subseteq Done(n)}
FromAfter(n, m) == AvailableFrom(graph, m, CyclesAfter(n))
Unblocked(n) == {s \in Successors(graph, n) : Predecessors(graph, s) \subseteq Done(n)}
Due(n, c) == {m \in ReadyAfter(n) : Distance(FromAfter(n, m)) <= Distance(c)}
Later(n, c) == {m \in ReadyAfter(n) : Distance(FromAfter(n, m)) > Distance(c)}
Batches(n, S) == {<<FromAfter(n, m), m>> : m \in S}

\* Distances are signed cycles.
LEMMA DistanceSign ==
  ASSUME IsGraph(graph)
  PROVE  \/ graph.direction = 1 /\ \A c \in Int : Distance(c) = c /\ Distance(c) \in Int
         \/ graph.direction = -1 /\ \A c \in Int : Distance(c) = -c /\ Distance(c) \in Int
BY Direction DEF IsGraph, Distance

\* What is ready has a cycle in which it becomes available.
LEMMA FromFacts ==
  ASSUME SchedInv, NEW m \in Ready
  PROVE  From(m) \in Int /\ 0 <= Distance(From(m))
<1>1. IsGraph(graph) /\ CyclesBehind /\ TypeOK
  BY DEF SchedInv
<1>2. m \in DOMAIN graph.order /\ Predecessors(graph, m) \subseteq scheduled
  BY DEF Ready, Nodes
<1>3. cycleOf \in [DOMAIN graph.order -> Int]
  BY <1>1 DEF TypeOK, Nodes
<1>4. \A p \in Predecessors(graph, m) : 0 <= graph.direction * cycleOf[p]
  BY <1>1, <1>2 DEF CyclesBehind, Distance
<1> QED BY <1>1, <1>2, <1>3, <1>4, AvailableFromFacts DEF From, Distance

\* A listed statement is unscheduled, its predecessors are not, and its time has come.
LEMMA ListedFacts ==
  ASSUME SchedInv, outcome = "running", NEW n \in available
  PROVE  /\ n \in Nodes /\ n \notin scheduled /\ n \in Ready
         /\ Predecessors(graph, n) \subseteq scheduled
         /\ Distance(From(n)) <= Distance(cycle)
BY DEF SchedInv, Collections, Ready

\* Cycles stay behind the current one when n gets it.
LEMMA CyclesAfterFacts ==
  ASSUME SchedInv, outcome = "running", NEW n \in available
  PROVE  /\ CyclesAfter(n) \in [Nodes -> Int] /\ CyclesAfter(n)[n] = cycle
         /\ \A p \in Nodes \ {n} : CyclesAfter(n)[p] = cycleOf[p]
         /\ \A p \in Done(n) : /\ 0 <= Distance(CyclesAfter(n)[p])
                               /\ Distance(CyclesAfter(n)[p]) <= Distance(cycle)
<1>1. cycleOf \in [Nodes -> Int] /\ cycle \in Int /\ 0 <= Distance(cycle) /\ scheduled \subseteq Nodes
  <2>1. TypeOK /\ IsGraph(graph)
    BY DEF SchedInv
  <2>2. Distance(cycle) >= 0 /\ Distance(cycle) \in Int
    BY <2>1, DistanceSign DEF TypeOK
  <2> QED BY <2>1, <2>2 DEF TypeOK
<1>2. n \in Nodes /\ n \notin scheduled
  BY ListedFacts
<1>3. /\ CyclesAfter(n) \in [Nodes -> Int] /\ CyclesAfter(n)[n] = cycle
      /\ \A p \in Nodes \ {n} : CyclesAfter(n)[p] = cycleOf[p]
  BY <1>1, <1>2 DEF CyclesAfter
<1>4. CyclesBehind /\ Distance(cycle) \in Int
  BY <1>1, DistanceSign DEF SchedInv
<1>5. \A p \in Done(n) : p = n \/ (p \in scheduled /\ p # n /\ p \in Nodes)
  BY <1>1, <1>2 DEF Done
<1> QED BY <1>1, <1>3, <1>4, <1>5 DEF CyclesBehind

\* After it, what is ready is what was ready and what n unblocks; the former keep their
\* cycle, the latter become available from the current cycle on.
LEMMA ReadyAfterFacts ==
  ASSUME SchedInv, outcome = "running", NEW n \in available
  PROVE  /\ ReadyAfter(n) = (Ready \ {n}) \cup Unblocked(n)
         /\ Ready \cap Unblocked(n) = {}
         /\ \A m \in ReadyAfter(n) : FromAfter(n, m) \in Int /\ 0 <= Distance(FromAfter(n, m))
         /\ \A m \in Ready \ {n} : FromAfter(n, m) = From(m)
         /\ \A m \in Unblocked(n) : Distance(cycle) <= Distance(FromAfter(n, m))
<1>1. IsGraph(graph) /\ PrecedenceRespected /\ cycle \in Int
  BY DEF SchedInv, TypeOK
<1>2. n \in Nodes /\ n \notin scheduled /\ n \in Ready
  BY ListedFacts
<1>3. Unblocked(n) \subseteq Nodes \ Done(n)
  <2> SUFFICES ASSUME NEW m \in Unblocked(n) PROVE m \in Nodes /\ m # n /\ m \notin scheduled
    BY DEF Done
  <2>1. m \in Nodes /\ n \in Predecessors(graph, m)
    BY <1>1, SuccessorIff DEF Unblocked, Nodes
  <2>2. <<n, m>> \in Edges(graph) /\ n # m
    BY <1>1, <2>1, PredecessorFacts DEF Nodes
  <2>3. m \in scheduled => n \in scheduled
    BY <1>1, <2>2 DEF PrecedenceRespected
  <2> QED BY <1>2, <2>1, <2>2, <2>3
<1>4. \A m \in Unblocked(n) : n \in Predecessors(graph, m) /\ Predecessors(graph, m) \subseteq Done(n)
  BY <1>1, SuccessorIff DEF Unblocked
<1>5. \A m \in Ready : n \notin Predecessors(graph, m) /\ Predecessors(graph, m) \subseteq scheduled
  BY <1>2 DEF Ready
<1>6. ReadyAfter(n) = (Ready \ {n}) \cup Unblocked(n)
  <2>1. ASSUME NEW m \in ReadyAfter(n) PROVE m \in (Ready \ {n}) \cup Unblocked(n)
    <3>1. CASE n \in Predecessors(graph, m)
      BY <1>1, <3>1, SuccessorIff DEF ReadyAfter, Unblocked, Nodes
    <3>2. CASE n \notin Predecessors(graph, m)
      BY <3>2 DEF ReadyAfter, Ready, Done
    <3> QED BY <3>1, <3>2
  <2>2. Ready \ {n} \subseteq ReadyAfter(n)
    BY DEF ReadyAfter, Ready, Done
  <2>3. Unblocked(n) \subseteq ReadyAfter(n)
    BY <1>3, <1>4 DEF ReadyAfter
  <2> QED BY <2>1, <2>2, <2>3
<1>7. Ready \cap Unblocked(n) = {}
  BY <1>4, <1>5
<1>8. ASSUME NEW m \in ReadyAfter(n)
      PROVE  /\ FromAfter(n, m) \in Int /\ 0 <= Distance(FromAfter(n, m))
             /\ \A p \in Predecessors(graph, m) :
                  Distance(CyclesAfter(n)[p] + graph.weight[<<p, m>>]) <= Distance(FromAfter(n, m))
  <2>1. m \in DOMAIN graph.order /\ Predecessors(graph, m) \subseteq Done(n)
    BY DEF ReadyAfter, Nodes
  <2>2. CyclesAfter(n) \in [DOMAIN graph.order -> Int]
    BY CyclesAfterFacts DEF Nodes
  <2>3. \A p \in Predecessors(graph, m) : 0 <= graph.direction * CyclesAfter(n)[p]
    BY <2>1, CyclesAfterFacts DEF Distance
  <2> QED BY <1>1, <2>1, <2>2, <2>3, AvailableFromFacts DEF FromAfter, Distance
<1>9. ASSUME NEW m \in Ready \ {n} PROVE FromAfter(n, m) = From(m)
  <2>1. Predecessors(graph, m) \subseteq Nodes \ {n}
    BY <1>1, <1>5, PredecessorFacts DEF Ready, Nodes
  <2>2. \A p \in Predecessors(graph, m) : CyclesAfter(n)[p] = cycleOf[p]
    BY <2>1, CyclesAfterFacts
  <2> QED BY <2>2, AvailableFromSame DEF FromAfter, From
<1>10. ASSUME NEW m \in Unblocked(n) PROVE Distance(cycle) <= Distance(FromAfter(n, m))
  <2>1. m \in ReadyAfter(n) /\ m \in DOMAIN graph.order /\ n \in Predecessors(graph, m)
    BY <1>3, <1>4, <1>6 DEF Nodes
  <2> DEFINE w == graph.weight[<<n, m>>]
  <2>2. w \in Int /\ 0 <= Distance(w)
    BY <1>1, <2>1, PredecessorFacts DEF Distance
  <2>3. Distance(cycle + w) <= Distance(FromAfter(n, m)) /\ FromAfter(n, m) \in Int
    BY <1>8, <2>1, CyclesAfterFacts
  <2> HIDE DEF w
  <2> QED BY <1>1, <2>2, <2>3, DistanceSign
<1> QED BY <1>6, <1>7, <1>8, <1>9, <1>10

\* The two lists before the jump to the next batch.
LEMMA ListsAfter ==
  ASSUME SchedInv, outcome = "running", NEW n \in available
  PROVE  LET now == {s \in Unblocked(n) : FromAfter(n, s) = cycle}
         IN /\ (available \ {n}) \cup now = Due(n, cycle)
            /\ availableIn \cup Batches(n, Unblocked(n) \ now) = Batches(n, Later(n, cycle))
            /\ Unblocked(n) \subseteq waiting
            /\ waiting \ Unblocked(n) = (Nodes \ Done(n)) \ ReadyAfter(n)
            /\ now \cap (available \ {n}) = {}
<1> DEFINE now == {s \in Unblocked(n) : FromAfter(n, s) = cycle}
<1>1. /\ waiting = (Nodes \ scheduled) \ Ready
      /\ available = {m \in Ready : Distance(From(m)) <= Distance(cycle)}
      /\ availableIn = {<<From(m), m>> : m \in {x \in Ready : Distance(From(x)) > Distance(cycle)}}
  BY DEF SchedInv, Collections
<1>2. IsGraph(graph) /\ cycle \in Int
  BY DEF SchedInv, TypeOK
<1>3. /\ ReadyAfter(n) = (Ready \ {n}) \cup Unblocked(n)
      /\ Ready \cap Unblocked(n) = {}
      /\ \A m \in ReadyAfter(n) : FromAfter(n, m) \in Int /\ 0 <= Distance(FromAfter(n, m))
      /\ \A m \in Ready \ {n} : FromAfter(n, m) = From(m)
      /\ \A m \in Unblocked(n) : Distance(cycle) <= Distance(FromAfter(n, m))
  BY ReadyAfterFacts
<1>4. \A m \in Unblocked(n) : /\ FromAfter(n, m) = cycle <=> Distance(FromAfter(n, m)) <= Distance(cycle)
                              /\ FromAfter(n, m) # cycle <=> Distance(FromAfter(n, m)) > Distance(cycle)
  BY <1>2, <1>3, DistanceSign
<1>5. (available \ {n}) \cup now = Due(n, cycle)
  BY <1>1, <1>3, <1>4 DEF Due
<1>6. n \in available /\ Distance(From(n)) <= Distance(cycle) /\ n \in Ready /\ n \notin scheduled
  BY ListedFacts
<1>7. Later(n, cycle) = {m \in Ready : Distance(From(m)) > Distance(cycle)} \cup (Unblocked(n) \ now)
  <2>1. ~(Distance(From(n)) > Distance(cycle))
    BY <1>2, <1>6, FromFacts, DistanceSign
  <2> QED BY <1>3, <1>4, <2>1 DEF Later
<1>8. availableIn = Batches(n, {m \in Ready : Distance(From(m)) > Distance(cycle)})
  <2>1. \A m \in Ready : Distance(From(m)) > Distance(cycle) => FromAfter(n, m) = From(m)
    <3>1. ~(Distance(From(n)) > Distance(cycle))
      BY <1>2, <1>6, FromFacts, DistanceSign
    <3> QED BY <1>3, <3>1
  <2> QED BY <1>1, <2>1 DEF Batches
<1>9. availableIn \cup Batches(n, Unblocked(n) \ now) = Batches(n, Later(n, cycle))
  <2> HIDE DEF now
  <2> QED BY <1>7, <1>8 DEF Batches
<1>10. Unblocked(n) \subseteq Nodes \ Done(n)
  BY <1>3 DEF ReadyAfter
<1>11. Unblocked(n) \subseteq waiting
  BY <1>1, <1>3, <1>10 DEF Done
<1>12. waiting \ Unblocked(n) = (Nodes \ Done(n)) \ ReadyAfter(n)
  BY <1>1, <1>3, <1>6 DEF Done
<1>13. now \cap (available \ {n}) = {}
  BY <1>1, <1>3
<1> QED BY <1>5, <1>9, <1>11, <1>12, <1>13

\* The nearest batches, when there are any, exist and share their cycle.
LEMMA NearestBatch ==
  ASSUME SchedInv, outcome = "running", NEW n \in available, Later(n, cycle) # {}
  PROVE  LET front == FirstBatch(Batches(n, Later(n, cycle)))
             c == (CHOOSE b \in front : TRUE)[1]
         IN /\ front # {} /\ c \in Int /\ Distance(cycle) < Distance(c)
            /\ front = {<<FromAfter(n, m), m>> : m \in {x \in Later(n, cycle) : FromAfter(n, x) = c}}
            /\ \A m \in Later(n, cycle) : Distance(c) <= Distance(FromAfter(n, m))
<1> DEFINE L == Later(n, cycle)
           all == Batches(n, L)
           front == FirstBatch(all)
           c == (CHOOSE b \in front : TRUE)[1]
           k == [m \in L |-> -Abs(FromAfter(n, m))]
<1>1. IsGraph(graph) /\ cycle \in Int
  BY DEF SchedInv, TypeOK
<1>2. /\ L \subseteq DOMAIN graph.order /\ L # {}
      /\ \A m \in L : /\ FromAfter(n, m) \in Int /\ 0 <= Distance(FromAfter(n, m))
                      /\ Distance(FromAfter(n, m)) > Distance(cycle)
  BY ReadyAfterFacts DEF Later, ReadyAfter, Nodes
<1>3. \A m \in L : Abs(FromAfter(n, m)) = Distance(FromAfter(n, m)) /\ Abs(FromAfter(n, m)) \in Int
  <2> HIDE DEF L
  <2> QED BY <1>1, <1>2, DistanceSign DEF Abs
<1>4. IsFiniteSet(L)
  BY <1>1, <1>2, FS_Subset DEF IsGraph
<1>5. PICK x \in L : \A y \in L : k[y] <= k[x]
  <2>1. k \in [L -> Int]
    BY <1>3
  <2> HIDE DEF k, L
  <2> QED BY <1>2, <1>4, <2>1, Farthest
<1>6. \A y \in L : Abs(FromAfter(n, x)) <= Abs(FromAfter(n, y))
  <2>1. \A y \in L : -Abs(FromAfter(n, y)) <= -Abs(FromAfter(n, x))
    BY <1>5
  <2> HIDE DEF L
  <2> QED BY <1>3, <2>1
<1>7. front = {<<FromAfter(n, m), m>> : m \in {y \in L : \A z \in L : Abs(FromAfter(n, y)) <= Abs(FromAfter(n, z))}}
  <2> DEFINE nearest(y) == \A z \in L : Abs(FromAfter(n, y)) <= Abs(FromAfter(n, z))
  <2> HIDE DEF L
  <2>1. \A y \in L : <<FromAfter(n, y), y>> \in all
    BY DEF Batches
  <2>2. ASSUME NEW b \in front
        PROVE  b \in {<<FromAfter(n, m), m>> : m \in {y \in L : nearest(y)}}
    <3>1. b \in all /\ \A e \in all : Abs(b[1]) <= Abs(e[1])
      BY <2>2 DEF FirstBatch
    <3>2. PICK y \in L : b = <<FromAfter(n, y), y>>
      BY <3>1 DEF Batches
    <3>3. nearest(y)
      BY <2>1, <3>1, <3>2
    <3> QED BY <3>2, <3>3
  <2>3. ASSUME NEW y \in L, nearest(y)
        PROVE  <<FromAfter(n, y), y>> \in front
    <3>1. ASSUME NEW e \in all PROVE Abs(FromAfter(n, y)) <= Abs(e[1])
      <4>1. PICK z \in L : e = <<FromAfter(n, z), z>>
        BY <3>1 DEF Batches
      <4> QED BY <2>3, <4>1
    <3> QED BY <2>1, <3>1 DEF FirstBatch
  <2> HIDE DEF front
  <2> QED BY <2>2, <2>3
<1>8. <<FromAfter(n, x), x>> \in front
  <2> HIDE DEF L, front
  <2> QED BY <1>6, <1>7
<1>9. PICK m \in L : (CHOOSE b \in front : TRUE) = <<FromAfter(n, m), m>>
                     /\ \A z \in L : Abs(FromAfter(n, m)) <= Abs(FromAfter(n, z))
  <2>1. (CHOOSE b \in front : TRUE) \in front
    BY <1>8
  <2> HIDE DEF front, L
  <2> QED BY <1>7, <2>1
<1>10. c = FromAfter(n, m)
  <2>1. c = <<FromAfter(n, m), m>>[1]
    BY <1>9, Zenon
  <2> QED BY <2>1
<1>11. c \in Int /\ Distance(cycle) < Distance(c)
  <2> HIDE DEF c, L
  <2> QED BY <1>1, <1>2, <1>10, DistanceSign
<1>12. \A z \in L : Distance(c) <= Distance(FromAfter(n, z))
  <2> HIDE DEF c, L
  <2> QED BY <1>3, <1>9, <1>10
<1>13. \A y \in L : (\A z \in L : Abs(FromAfter(n, y)) <= Abs(FromAfter(n, z))) <=> FromAfter(n, y) = c
  <2> HIDE DEF c, L
  <2>1. ASSUME NEW y \in L, FromAfter(n, y) = c
        PROVE  \A z \in L : Abs(FromAfter(n, y)) <= Abs(FromAfter(n, z))
    BY <1>9, <1>10, <2>1
  <2>2. ASSUME NEW y \in L, \A z \in L : Abs(FromAfter(n, y)) <= Abs(FromAfter(n, z))
        PROVE  FromAfter(n, y) = c
    <3>1. Abs(FromAfter(n, y)) = Abs(FromAfter(n, m))
      BY <1>3, <1>9, <2>2
    <3>2. Distance(FromAfter(n, y)) = Distance(FromAfter(n, m))
      BY <1>3, <3>1
    <3> QED BY <1>1, <1>2, <1>10, <3>2, DistanceSign
  <2> QED BY <2>1, <2>2
<1>14. front = {<<FromAfter(n, y), y>> : y \in {z \in L : FromAfter(n, z) = c}}
  <2> HIDE DEF c, L, front
  <2> QED BY <1>7, <1>13
<1>15. front # {}
  BY <1>8
<1> HIDE DEF c, L, front
<1> QED BY <1>11, <1>12, <1>14, <1>15 DEF c, L, front

\* Together: schedule() goes to a cycle c, the current one or the next batch's, and puts
\* every statement where it belongs in that cycle; if nothing is listed then, nothing
\* is left.
LEMMA ScheduleEffect ==
  ASSUME SchedInv, outcome = "running", NEW n \in available, Schedule(n)
  PROVE  /\ cycleOf' = CyclesAfter(n) /\ scheduled' = Done(n)
         /\ cycle' \in Int /\ Distance(cycle) <= Distance(cycle')
         /\ waiting' = (Nodes \ Done(n)) \ ReadyAfter(n)
         /\ available' = Due(n, cycle')
         /\ availableIn' = Batches(n, Later(n, cycle'))
         /\ available' = {} => Nodes = Done(n)
         /\ \/ cycle' = cycle
            \/ \A m \in available' : FromAfter(n, m) = cycle'
<1> DEFINE now == {s \in Unblocked(n) : FromAfter(n, s) = cycle}
           listed == (available \ {n}) \cup now
           batches == availableIn \cup Batches(n, Unblocked(n) \ now)
           front == IF listed = {} THEN FirstBatch(batches) ELSE {}
<1>1. /\ cycleOf' = CyclesAfter(n) /\ scheduled' = Done(n)
      /\ waiting' = waiting \ Unblocked(n)
      /\ available' = listed \cup {b[2] : b \in front}
      /\ availableIn' = batches \ front
      /\ cycle' = IF front = {} THEN cycle ELSE (CHOOSE b \in front : TRUE)[1]
  BY DEF Schedule, CyclesAfter, Done, Unblocked, FromAfter, Batches
<1>2. /\ listed = Due(n, cycle) /\ batches = Batches(n, Later(n, cycle))
      /\ waiting \ Unblocked(n) = (Nodes \ Done(n)) \ ReadyAfter(n)
  BY ListsAfter
<1>3. IsGraph(graph) /\ cycle \in Int /\ Distance(cycle) \in Int
  BY DistanceSign DEF SchedInv, TypeOK
<1>4. \A m \in ReadyAfter(n) : FromAfter(n, m) \in Int /\ Distance(FromAfter(n, m)) \in Int
  BY <1>3, ReadyAfterFacts, DistanceSign
<1>5. Due(n, cycle) \cup Later(n, cycle) = ReadyAfter(n)
  BY <1>3, <1>4 DEF Due, Later
<1>6. ReadyAfter(n) = {} => Nodes = Done(n)
  <2>1. Done(n) \subseteq Nodes
    BY ListedFacts DEF Done, SchedInv, TypeOK
  <2> QED BY <1>3, <2>1, SomeReady DEF ReadyAfter, Nodes
<1>7. CASE Due(n, cycle) # {}
  <2>1. front = {}
    BY <1>2, <1>7
  <2>2. cycle' = cycle /\ available' = Due(n, cycle) /\ availableIn' = Batches(n, Later(n, cycle))
    <3> HIDE DEF front, listed, batches
    <3> QED BY <1>1, <1>2, <2>1
  <2>3. available' # {} /\ Distance(cycle) <= Distance(cycle)
    BY <1>3, <1>7, <2>2
  <2> HIDE DEF front, listed, batches, now
  <2> QED BY <1>1, <1>2, <1>3, <2>2, <2>3
<1>8. CASE Due(n, cycle) = {} /\ Later(n, cycle) = {}
  <2>1. front = {} /\ Batches(n, Later(n, cycle)) = {}
    BY <1>2, <1>8 DEF Batches, FirstBatch
  <2>2. cycle' = cycle /\ available' = Due(n, cycle) /\ availableIn' = Batches(n, Later(n, cycle))
    <3> HIDE DEF front, listed, batches
    <3> QED BY <1>1, <1>2, <2>1
  <2>3. Nodes = Done(n) /\ Distance(cycle) <= Distance(cycle)
    BY <1>3, <1>5, <1>6, <1>8
  <2> HIDE DEF front, listed, batches, now
  <2> QED BY <1>1, <1>2, <1>3, <2>2, <2>3
<1>9. CASE Due(n, cycle) = {} /\ Later(n, cycle) # {}
  <2> DEFINE c == (CHOOSE b \in front : TRUE)[1]
             L == Later(n, cycle)
             F == {x \in L : FromAfter(n, x) = c}
  <2>1. front = FirstBatch(Batches(n, L)) /\ L = ReadyAfter(n)
    BY <1>2, <1>5, <1>9
  <2>2. /\ front # {} /\ c \in Int /\ Distance(cycle) < Distance(c)
        /\ front = Batches(n, F)
        /\ \A m \in L : Distance(c) <= Distance(FromAfter(n, m))
    <3> HIDE DEF front
    <3> QED BY <1>9, <2>1, NearestBatch DEF Batches
  <2>3. cycle' = c
    <3> HIDE DEF front
    <3> QED BY <1>1, <2>2
  <2> HIDE DEF front, c
  <2>4. \A m \in L : Distance(FromAfter(n, m)) <= Distance(c) <=> FromAfter(n, m) = c
    <3>1. \A m \in L : FromAfter(n, m) \in Int
      BY <1>4, <2>1
    <3> HIDE DEF L
    <3> QED BY <1>3, <2>2, <3>1, DistanceSign
  <2>5. Due(n, c) = F /\ Later(n, c) = L \ F
    <3>1. \A m \in L : Distance(FromAfter(n, m)) > Distance(c) <=> ~(Distance(FromAfter(n, m)) <= Distance(c))
      <4>1. Distance(c) \in Int
        BY <1>3, <2>2, DistanceSign
      <4> QED BY <1>4, <2>1, <4>1
    <3> HIDE DEF L
    <3> QED BY <2>1, <2>4, <3>1 DEF Due, Later
  <2>6. available' = F
    <3>1. {b[2] : b \in Batches(n, F)} = F
      <4> HIDE DEF F
      <4>1. \A x \in F : <<FromAfter(n, x), x>> \in Batches(n, F) /\ <<FromAfter(n, x), x>>[2] = x
        BY DEF Batches
      <4>2. \A b \in Batches(n, F) : b[2] \in F
        BY DEF Batches
      <4> QED BY <4>1, <4>2
    <3>2. listed = {}
      BY <1>2, <1>9
    <3> HIDE DEF F, listed
    <3> QED BY <1>1, <2>2, <3>1, <3>2
  <2>7. availableIn' = Batches(n, L \ F)
    <3>1. Batches(n, L) \ Batches(n, F) = Batches(n, L \ F)
      <4> HIDE DEF F, L
      <4> QED BY DEF Batches
    <3> HIDE DEF F, batches
    <3> QED BY <1>1, <1>2, <2>2, <3>1
  <2>8. F # {}
    <3> HIDE DEF F
    <3> QED BY <2>2 DEF Batches
  <2>9. Distance(cycle) <= Distance(c)
    BY <1>3, <2>2, DistanceSign
  <2>10. \A m \in available' : FromAfter(n, m) = cycle'
    BY <2>3, <2>6
  <2> HIDE DEF F, L
  <2> QED BY <1>1, <1>2, <2>2, <2>3, <2>5, <2>6, <2>7, <2>8, <2>9, <2>10
<1> QED BY <1>7, <1>8, <1>9

-----------------------------------------------------------------------------
(* The steps of both next-state relations.                                 *)

Scheduling(n) ==
  /\ n \in available /\ outcome = "running" /\ ResourcesAllow(n)
  /\ Schedule(n)
  /\ UNCHANGED inputs /\ blocked' \in Nat

Advancing ==
  /\ outcome = "running" /\ scheduled # {}
  /\ AdvanceCycle
  /\ blocked' \in Nat /\ outcome' \in {"running", "deadlock"}

\* Before the constructor schedules it, the source is the only statement that is listed.
LEMMA SourceListed ==
  ASSUME SchedInv, outcome = "running", scheduled = {}
  PROVE  graph.source \in available /\ ResourcesAllow(graph.source)
<1>1. IsGraph(graph) /\ cycle = 0 /\ ResourcesAllow(graph.source)
  BY DEF SchedInv, BeforeConstruct
<1>2. graph.source \in DOMAIN graph.order /\ Predecessors(graph, graph.source) = {}
  BY <1>1, PredecessorFacts DEF IsGraph
<1>3. graph.source \in Ready
  BY <1>2 DEF Ready, Nodes
<1>4. From(graph.source) = 0
  <2>1. cycleOf \in [DOMAIN graph.order -> Int]
    BY DEF SchedInv, TypeOK, Nodes
  <2> QED BY <1>1, <1>2, <2>1, AvailableFromFacts DEF From
<1>5. Distance(From(graph.source)) <= Distance(cycle)
  BY <1>1, <1>4, DistanceSign
<1> QED BY <1>1, <1>3, <1>5 DEF SchedInv, Collections

\* A step of a caller or of run() schedules, advances, ends run() or changes nothing.
LEMMA StepCases ==
  ASSUME SchedInv, [ApiNext]_vars \/ [RunNext]_vars
  PROVE  (\E n \in Nodes : Scheduling(n)) \/ Advancing \/ RunDone \/ UNCHANGED vars
<1>1. blocked \in Nat /\ outcome \in Outcomes /\ available \subseteq Nodes
  BY DEF SchedInv, TypeOK
<1>2. ASSUME Construct PROVE \E n \in Nodes : Scheduling(n)
  BY <1>1, <1>2, SourceListed DEF Construct, Scheduling
<1>3. ASSUME NEW n \in Nodes, TrySchedule(n) PROVE Scheduling(n)
  BY <1>3 DEF TrySchedule, Scheduling
<1>4. ASSUME Advance PROVE Advancing
  BY <1>1, <1>4 DEF Advance, Advancing
<1>5. ASSUME RunBlocked PROVE Advancing
  BY <1>1, <1>5 DEF RunBlocked, Advancing
<1> QED BY <1>2, <1>3, <1>4, <1>5 DEF ApiNext, RunNext, RunSchedule

LEMMA ScheduleStep ==
  ASSUME SchedInv, NEW n \in Nodes, Scheduling(n)
  PROVE  SchedInv'
<1>1. /\ n \in available /\ outcome = "running" /\ Schedule(n) /\ blocked' \in Nat
      /\ graph' = graph /\ gates' = gates /\ constrained' = constrained /\ heuristic' = heuristic
  BY DEF Scheduling, inputs
<1>2. /\ cycleOf' = CyclesAfter(n) /\ scheduled' = Done(n)
      /\ cycle' \in Int /\ Distance(cycle) <= Distance(cycle')
      /\ waiting' = (Nodes \ Done(n)) \ ReadyAfter(n)
      /\ available' = Due(n, cycle')
      /\ availableIn' = Batches(n, Later(n, cycle'))
      /\ available' = {} => Nodes = Done(n)
  BY <1>1, ScheduleEffect
<1>3. /\ IsGraph(graph) /\ cycle \in Int /\ scheduled \subseteq Nodes
      /\ CyclesBehind /\ PrecedenceRespected /\ heuristic \in Heuristics /\ 0 <= Distance(cycle)
  <2>1. Distance(cycle) >= 0 /\ Distance(cycle) \in Int
    BY DistanceSign DEF SchedInv, TypeOK
  <2> QED BY <2>1 DEF SchedInv, TypeOK
<1>4. /\ n \notin scheduled /\ Predecessors(graph, n) \subseteq scheduled
      /\ n \in Ready /\ Distance(From(n)) <= Distance(cycle)
  BY <1>1, ListedFacts
<1>5. /\ CyclesAfter(n) \in [Nodes -> Int] /\ CyclesAfter(n)[n] = cycle
      /\ \A p \in Nodes \ {n} : CyclesAfter(n)[p] = cycleOf[p]
      /\ \A p \in Done(n) : /\ 0 <= Distance(CyclesAfter(n)[p])
                            /\ Distance(CyclesAfter(n)[p]) <= Distance(cycle)
  BY <1>1, CyclesAfterFacts
<1>6. ReadyAfter(n) \subseteq Nodes \ Done(n) /\ \A m \in ReadyAfter(n) : FromAfter(n, m) \in Int
  BY <1>1, ReadyAfterFacts DEF ReadyAfter
<1>7. /\ Ready' = ReadyAfter(n) /\ Nodes' = Nodes
      /\ \A m : From(m)' = FromAfter(n, m)
      /\ \A c : Distance(c) = graph'.direction * c
  BY <1>1, <1>2 DEF Ready, ReadyAfter, From, FromAfter, Nodes, Distance
<1>8. TypeOK'
  <2>1. outcome' \in Outcomes
    BY <1>1 DEF Schedule, Outcomes
  <2>2. Distance(cycle)' >= 0
    <3>1. Distance(cycle)' = Distance(cycle')
      BY <1>1 DEF Distance
    <3>2. Distance(cycle') \in Int /\ Distance(cycle) \in Int
      BY <1>2, <1>3, DistanceSign
    <3> QED BY <1>2, <1>3, <3>1, <3>2
  <2>3. available' \subseteq Nodes /\ waiting' \subseteq Nodes /\ availableIn' \subseteq Int \X Nodes
    BY <1>2, <1>6 DEF Due, Later, Batches
  <2>4. scheduled' \subseteq Nodes
    BY <1>2, <1>3 DEF Done
  <2> QED BY <1>1, <1>2, <1>5, <1>7, <2>1, <2>2, <2>3, <2>4 DEF TypeOK
<1>9. CyclesBehind'
  <2> SUFFICES ASSUME NEW p \in Done(n)
               PROVE  /\ 0 <= graph.direction * CyclesAfter(n)[p]
                      /\ graph.direction * CyclesAfter(n)[p] <= graph.direction * cycle'
    BY <1>1, <1>2 DEF CyclesBehind, Distance
  <2>1. p \in Nodes
    BY <1>3 DEF Done
  <2>2. /\ Distance(CyclesAfter(n)[p]) \in Int /\ Distance(cycle) \in Int /\ Distance(cycle') \in Int
    BY <1>2, <1>3, <1>5, <2>1, DistanceSign
  <2>3. 0 <= Distance(CyclesAfter(n)[p]) /\ Distance(CyclesAfter(n)[p]) <= Distance(cycle')
    BY <1>2, <1>5, <2>2
  <2> QED BY <2>3 DEF Distance
<1>10. PrecedenceRespected'
  <2> SUFFICES ASSUME NEW e \in Edges(graph), e[2] \in Done(n)
               PROVE  /\ e[1] \in Done(n)
                      /\ graph.direction * (CyclesAfter(n)[e[1]] + graph.weight[e])
                           <= graph.direction * CyclesAfter(n)[e[2]]
    BY <1>1, <1>2 DEF PrecedenceRespected, Distance
  <2>1. e[1] \in Nodes /\ e[2] \in Nodes /\ e = <<e[1], e[2]>> /\ graph.weight[e] \in Int
    BY <1>3 DEF IsGraph, Nodes
  <2>2. CASE e[2] \in scheduled
    <3>1. e[1] \in scheduled /\ Distance(cycleOf[e[1]] + graph.weight[e]) <= Distance(cycleOf[e[2]])
      BY <1>3, <2>2 DEF PrecedenceRespected
    <3>2. CyclesAfter(n)[e[1]] = cycleOf[e[1]] /\ CyclesAfter(n)[e[2]] = cycleOf[e[2]]
      BY <1>4, <1>5, <2>1, <2>2, <3>1
    <3> QED BY <3>1, <3>2 DEF Distance, Done
  <2>3. CASE e[2] = n
    <3>1. e[1] \in Predecessors(graph, n)
      BY <2>3 DEF Predecessors
    <3>2. e[1] \in scheduled /\ e[1] # n
      BY <1>4, <3>1
    <3>3. CyclesAfter(n)[e[1]] = cycleOf[e[1]]
      BY <1>5, <2>1, <3>2
    <3>4. Distance(cycleOf[e[1]] + graph.weight[e]) <= Distance(From(n)) /\ From(n) \in Int
      <4>1. cycleOf \in [DOMAIN graph.order -> Int]
        BY DEF SchedInv, TypeOK, Nodes
      <4>2. \A p \in Predecessors(graph, n) : 0 <= graph.direction * cycleOf[p]
        BY <1>3, <1>4 DEF CyclesBehind, Distance
      <4> QED BY <1>3, <2>1, <2>3, <3>1, <4>1, <4>2, AvailableFromFacts DEF From, Distance, Nodes
    <3>5. Distance(cycleOf[e[1]] + graph.weight[e]) <= Distance(cycle)
      <4>1. cycleOf[e[1]] + graph.weight[e] \in Int
        BY <2>1 DEF SchedInv, TypeOK
      <4>2. /\ Distance(cycleOf[e[1]] + graph.weight[e]) \in Int /\ Distance(From(n)) \in Int
            /\ Distance(cycle) \in Int
        BY <1>3, <3>4, <4>1, DistanceSign
      <4> QED BY <1>4, <3>4, <4>2
    <3> QED BY <1>5, <2>3, <3>2, <3>3, <3>5 DEF Distance, Done
  <2> QED BY <2>2, <2>3 DEF Done
<1>11. Collections'
  <2>1. available' = {m \in Ready' : Distance(From(m))' <= Distance(cycle)'}
    BY <1>1, <1>2, <1>7 DEF Due, Distance
  <2>2. availableIn' = {<<From(m)', m>> : m \in {x \in Ready' : Distance(From(x))' > Distance(cycle)'}}
    BY <1>1, <1>2, <1>7 DEF Later, Batches, Distance
  <2> QED BY <1>2, <1>7, <2>1, <2>2 DEF Collections
<1>12. NeverStuck' /\ BeforeConstruct'
  BY <1>2, <1>7 DEF NeverStuck, BeforeConstruct, Done
<1> QED BY <1>1, <1>3, <1>8, <1>9, <1>10, <1>11, <1>12 DEF SchedInv

LEMMA AdvanceStep ==
  ASSUME SchedInv, Advancing
  PROVE  SchedInv'
<1> DEFINE due == {b \in availableIn : b[1] = cycle + graph.direction}
<1>1. /\ graph' = graph /\ gates' = gates /\ constrained' = constrained /\ heuristic' = heuristic
      /\ cycleOf' = cycleOf /\ scheduled' = scheduled /\ waiting' = waiting
      /\ cycle' = cycle + graph.direction
      /\ available' = available \cup {b[2] : b \in due}
      /\ availableIn' = availableIn \ due
      /\ outcome = "running" /\ scheduled # {} /\ blocked' \in Nat /\ outcome' \in Outcomes
  BY DEF Advancing, AdvanceCycle, inputs, Outcomes
<1>2. /\ TypeOK /\ IsGraph(graph) /\ CyclesBehind /\ PrecedenceRespected /\ NeverStuck
      /\ heuristic \in Heuristics
      /\ waiting = (Nodes \ scheduled) \ Ready
      /\ available = {m \in Ready : Distance(From(m)) <= Distance(cycle)}
      /\ availableIn = {<<From(m), m>> : m \in {x \in Ready : Distance(From(x)) > Distance(cycle)}}
  BY <1>1 DEF SchedInv, Collections
<1>3. /\ cycle \in Int /\ graph.direction \in {-1, 1} /\ cycle' \in Int
      /\ Distance(cycle) \in Int /\ Distance(cycle) >= 0 /\ Distance(cycle') = Distance(cycle) + 1
  <2>1. cycle \in Int /\ graph.direction \in {-1, 1} /\ Distance(cycle) >= 0
    BY <1>2 DEF TypeOK, IsGraph
  <2> QED BY <1>1, <1>2, <2>1, DistanceSign
<1>4. \A m \in Ready : /\ From(m) \in Int /\ Distance(From(m)) \in Int
                       /\ From(m) = cycle' <=> Distance(From(m)) = Distance(cycle) + 1
  BY <1>2, <1>3, FromFacts, DistanceSign
<1>5. /\ Ready' = Ready /\ Nodes' = Nodes
      /\ \A m : From(m)' = From(m)
      /\ \A c : Distance(c) = graph'.direction * c
      /\ Distance(cycle)' = Distance(cycle')
  BY <1>1 DEF Ready, From, Nodes, Distance
<1>6. available' = {m \in Ready : Distance(From(m)) <= Distance(cycle')}
  <2>1. due = {<<From(m), m>> : m \in {x \in Ready : Distance(From(x)) = Distance(cycle')}}
    BY <1>1, <1>2, <1>3, <1>4
  <2>2. {b[2] : b \in due} = {x \in Ready : Distance(From(x)) = Distance(cycle')}
    <3> DEFINE D == {x \in Ready : Distance(From(x)) = Distance(cycle')}
    <3>1. \A x \in D : <<From(x), x>> \in due /\ <<From(x), x>>[2] = x
      BY <2>1
    <3>2. \A b \in due : b[2] \in D
      BY <2>1
    <3> HIDE DEF D, due
    <3> QED BY <3>1, <3>2 DEF D
  <2> HIDE DEF due
  <2> QED BY <1>1, <1>2, <1>3, <1>4, <2>2
<1>7. availableIn' = {<<From(m), m>> : m \in {x \in Ready : Distance(From(x)) > Distance(cycle')}}
  BY <1>1, <1>2, <1>3, <1>4
<1>8. TypeOK'
  <2>1. available' \subseteq Nodes /\ availableIn' \subseteq Int \X Nodes
    BY <1>4, <1>6, <1>7 DEF Ready
  <2> HIDE DEF due
  <2> QED BY <1>1, <1>2, <1>3, <1>5, <2>1 DEF TypeOK
<1>9. CyclesBehind'
  <2>1. \A p \in scheduled : 0 <= Distance(cycleOf[p]) /\ Distance(cycleOf[p]) <= Distance(cycle')
    <3> SUFFICES ASSUME NEW p \in scheduled
                 PROVE  0 <= Distance(cycleOf[p]) /\ Distance(cycleOf[p]) <= Distance(cycle')
      OBVIOUS
    <3>1. cycleOf[p] \in Int
      BY <1>2 DEF TypeOK
    <3>2. Distance(cycleOf[p]) \in Int
      BY <1>2, <3>1, DistanceSign
    <3> QED BY <1>2, <1>3, <3>2 DEF CyclesBehind
  <2> QED BY <1>1, <2>1 DEF CyclesBehind, Distance
<1>10. PrecedenceRespected'
  BY <1>1, <1>2 DEF PrecedenceRespected, Distance
<1>11. Collections'
  <2>1. available' = {m \in Ready' : Distance(From(m))' <= Distance(cycle)'}
    BY <1>1, <1>5, <1>6 DEF Distance
  <2>2. availableIn' = {<<From(m)', m>> : m \in {x \in Ready' : Distance(From(x))' > Distance(cycle)'}}
    BY <1>1, <1>5, <1>7 DEF Distance
  <2>3. waiting' = (Nodes' \ scheduled') \ Ready'
    BY <1>1, <1>2, <1>5
  <2> QED BY <2>1, <2>2, <2>3 DEF Collections
<1>12. NeverStuck' /\ BeforeConstruct'
  <2>1. available \subseteq available'
    BY <1>1
  <2> HIDE DEF due
  <2> QED BY <1>1, <1>2, <1>5, <2>1 DEF NeverStuck, BeforeConstruct
<1> HIDE DEF due
<1> QED BY <1>1, <1>2, <1>8, <1>9, <1>10, <1>11, <1>12 DEF SchedInv

\* run() leaves the loop: only the outcome changes.
LEMMA DoneStep ==
  ASSUME SchedInv, RunDone
  PROVE  SchedInv' /\ outcome' = "done"
<1>1. /\ outcome = "running" /\ scheduled # {} /\ available = {}
      /\ UNCHANGED <<graph, gates, constrained, heuristic, cycleOf, cycle, scheduled, available,
                     waiting, availableIn, resources, blocked>>
  BY DEF RunDone, inputs
<1>2. scheduled = Nodes
  BY <1>1 DEF SchedInv, NeverStuck
<1>3. waiting = {} /\ availableIn = {}
  <2>1. Ready = {}
    BY <1>2 DEF Ready
  <2> QED BY <1>1, <1>2, <2>1 DEF SchedInv, Collections
<1>4. outcome' = "done"
  BY <1>1, <1>2, <1>3 DEF RunDone, IsDone
<1>5. TypeOK' /\ CyclesBehind' /\ PrecedenceRespected' /\ Collections' /\ NeverStuck' /\ BeforeConstruct'
  BY <1>1, <1>4 DEF SchedInv, TypeOK, Outcomes, Nodes, Distance, CyclesBehind, PrecedenceRespected,
                    Collections, NeverStuck, BeforeConstruct
<1> QED BY <1>1, <1>4, <1>5 DEF SchedInv

LEMMA StutterStep ==
  ASSUME SchedInv, UNCHANGED vars
  PROVE  SchedInv'
<1>1. UNCHANGED <<graph, gates, constrained, heuristic, cycleOf, cycle, scheduled, available,
                  waiting, availableIn, resources, blocked, outcome>>
  BY DEF vars
<1>2. Ready' = Ready /\ Nodes' = Nodes /\ \A m : From(m)' = From(m)
  BY <1>1 DEF Ready, From, Nodes
<1>3. ResourcesAllow(graph.source)' = ResourcesAllow(graph.source)
  BY <1>1 DEF ResourcesAllow
<1> QED BY <1>1, <1>2, <1>3 DEF SchedInv, TypeOK, Distance, CyclesBehind, PrecedenceRespected,
                    Collections, NeverStuck, BeforeConstruct, Nodes

\* No resource refuses a statement that is not a gate in cycle 0.
LEMMA IdleAllowed ==
  ASSUME NEW config, NEW gate, IsIdle(gate)
  PROVE  Available(InitialResources(config), 0, gate)
<1> DEFINE rs == InitialResources(config)
<1>1. MIN \in Int /\ MAX \in Int /\ MIN < 0 /\ 0 < MAX
  BY ResourcesAssumption, ProblemsAssumption
<1>2. OperandsOf(gate) = {} /\ Affected(gate) = {} /\ ~UsesChannels(gate)
  BY DEF IsIdle, OperandsOf, Affected, UsesChannels
<1>3. QubitAvailable(rs, 0, gate) /\ InstrumentAvailable(rs, 0, gate) /\ ChannelAvailable(rs, 0, gate)
  BY <1>2 DEF QubitAvailable, InstrumentAvailable, ChannelAvailable
<1>4. ASSUME NEW i \in DOMAIN ResourceNames PROVE ~OutOfOrder(rs, ResourceNames[i], 0)
  <2>1. /\ rs.config = config
        /\ rs.prev[ResourceNames[i]] = IF config.direction = "FORWARD" THEN MIN ELSE MAX
    BY DEF InitialResources
  <2> HIDE DEF rs
  <2> QED BY <1>1, <2>1 DEF OutOfOrder
<1>5. \A i \in DOMAIN ResourceNames : ResourceNames[i] \in {"instrument", "inter_core_channel", "qubit"}
  BY DEF ResourceNames
<1> HIDE DEF rs
<1>6. \A i \in DOMAIN ResourceNames : GateFits(rs, ResourceNames[i], 0, gate)
  BY <1>3, <1>4, <1>5 DEF GateFits
<1> QED BY <1>6 DEF Available, rs

\* A scheduler as its constructor finds it.
Fresh ==
  /\ IsGraph(graph) /\ IsIdle(gates[graph.source]) /\ heuristic \in Heuristics
  /\ cycleOf \in [Nodes -> Int]
  /\ \E config \in ResourceConfigs : resources = ResourcesFor(graph, config)
  /\ StartAvailable

LEMMA FreshSched == Fresh => SchedInv
<1> SUFFICES ASSUME Fresh PROVE SchedInv
  OBVIOUS
<1>2. IsGraph(graph) /\ IsIdle(gates[graph.source])
  BY DEF Fresh
<1>3. /\ heuristic \in Heuristics
      /\ cycleOf \in [Nodes -> Int]
      /\ cycle = 0 /\ scheduled = {} /\ available = {graph.source}
      /\ waiting = Nodes \ {graph.source} /\ availableIn = {} /\ blocked = 0 /\ outcome = "running"
  BY DEF Fresh, StartAvailable
<1>4. PICK config : resources = InitialResources(config)
  BY DEF Fresh, ResourcesFor
<1>5. BeforeConstruct
  BY <1>2, <1>3, <1>4, IdleAllowed DEF BeforeConstruct, ResourcesAllow
<1>6. Distance(0) = 0
  BY <1>2, DistanceSign
<1>7. graph.source \in Nodes /\ Predecessors(graph, graph.source) = {}
  BY <1>2, PredecessorFacts DEF IsGraph, Nodes
<1>8. Ready = {graph.source}
  <2>1. \A n \in Nodes : Predecessors(graph, n) = {} <=> n = graph.source
    BY <1>2, PredecessorFacts DEF Nodes
  <2> QED BY <1>3, <1>7, <2>1 DEF Ready
<1>9. From(graph.source) = 0
  <2>1. cycleOf \in [DOMAIN graph.order -> Int]
    BY <1>3 DEF Nodes
  <2> QED BY <1>2, <1>7, <2>1, AvailableFromFacts DEF From, Nodes
<1>10. Collections
  BY <1>3, <1>6, <1>8, <1>9 DEF Collections
<1>11. TypeOK
  BY <1>3, <1>6, <1>7 DEF TypeOK, Outcomes
<1> QED BY <1>2, <1>3, <1>5, <1>10, <1>11 DEF SchedInv, CyclesBehind, PrecedenceRespected, NeverStuck

LEMMA InitFresh == Init => Fresh
<1> SUFFICES ASSUME Init PROVE Fresh
  OBVIOUS
<1>1. PICK p \in Problems : graph = p.graph /\ gates = p.gates
  BY DEF Init
<1>2. IsGraph(graph) /\ IsIdle(gates[graph.source])
  BY <1>1, ProblemsAssumption
<1> QED BY <1>2 DEF Init, Fresh

LEMMA InitSched == Init => SchedInv
BY InitFresh, FreshSched

LEMMA SchedStep == SchedInv /\ ([ApiNext]_vars \/ [RunNext]_vars) => SchedInv'
BY StepCases, ScheduleStep, AdvanceStep, DoneStep, StutterStep

-----------------------------------------------------------------------------
(* Theorems about every caller of the scheduler.                           *)

\* The inductive invariant holds whatever available statement a caller schedules and
\* whenever it advances.
THEOREM SchedulerInvariant == ApiSpec => []SchedInv
<1>1. SchedInv /\ [ApiNext]_vars => SchedInv'
  BY SchedStep
<1> QED BY <1>1, InitSched, PTL DEF ApiSpec

\* The variables keep their types, and time never runs back towards zero.
THEOREM SchedulerTypes == ApiSpec => []TypeOK
<1>1. SchedInv => TypeOK
  BY DEF SchedInv
<1> QED BY <1>1, SchedulerInvariant, PTL

\* schedule() never gives a statement a cycle before one it depends on has finished,
\* for every graph, in both directions.
THEOREM DependenciesMet == ApiSpec => []PrecedenceRespected
<1>1. SchedInv => PrecedenceRespected
  BY DEF SchedInv
<1> QED BY <1>1, SchedulerInvariant, PTL

\* schedule() and advance() keep every statement in the one collection it belongs to.
THEOREM NothingMisplaced == ApiSpec => []ListedWhenReady
<1>1. SchedInv => ListedWhenReady
  <2> SUFFICES ASSUME SchedInv, outcome = "running", NEW n \in Nodes \ scheduled
               PROVE  LET ready == Predecessors(graph, n) \subseteq scheduled
                      IN /\ n \in waiting <=> ~ready
                         /\ n \in available <=> ready /\ Distance(From(n)) <= Distance(cycle)
                         /\ <<From(n), n>> \in availableIn <=> ready /\ Distance(From(n)) > Distance(cycle)
    BY DEF ListedWhenReady, From
  <2>1. n \in Ready <=> Predecessors(graph, n) \subseteq scheduled
    BY DEF Ready
  <2>2. <<From(n), n>> \in availableIn <=> n \in Ready /\ Distance(From(n)) > Distance(cycle)
    BY DEF SchedInv, Collections
  <2>3. /\ n \in waiting <=> n \notin Ready
        /\ n \in available <=> n \in Ready /\ Distance(From(n)) <= Distance(cycle)
    BY DEF SchedInv, Collections
  <2> QED BY <2>1, <2>2, <2>3
<1> QED BY <1>1, SchedulerInvariant, PTL

\* The list of available statements only runs empty when everything is scheduled.
THEOREM NothingStranded == ApiSpec => []NeverStuck
<1>1. SchedInv => NeverStuck
  BY DEF SchedInv
<1> QED BY <1>1, SchedulerInvariant, PTL

-----------------------------------------------------------------------------
(* Every run of the scheduler is a schedule.                               *)

\* The cycles of the statements that are scheduled; one more for each call of schedule().
Start == [n \in scheduled |-> cycleOf[n]]

LEMMA ScheduleIsPlace ==
  ASSUME SchedInv, NEW n \in Nodes, Scheduling(n)
  PROVE  Promise!Place(n)
<1>1. /\ n \in available /\ outcome = "running" /\ Schedule(n) /\ graph' = graph
  BY DEF Scheduling, inputs
<1>2. cycleOf' = CyclesAfter(n) /\ scheduled' = Done(n)
  BY <1>1, ScheduleEffect
<1>3. /\ CyclesAfter(n)[n] = cycle /\ \A p \in Nodes \ {n} : CyclesAfter(n)[p] = cycleOf[p]
      /\ \A p \in Done(n) : Distance(CyclesAfter(n)[p]) <= Distance(cycle)
  BY <1>1, CyclesAfterFacts
<1>4. n \notin scheduled /\ scheduled \subseteq Nodes /\ Predecessors(graph, n) \subseteq scheduled
  BY <1>1, ListedFacts DEF SchedInv, TypeOK
<1>5. Start' = [p \in Done(n) |-> CyclesAfter(n)[p]]
  BY <1>2 DEF Start
<1>6. \A m \in scheduled : /\ Start[m] = cycleOf[m] /\ Start'[m] = cycleOf[m]
                           /\ graph.direction * Start[m] <= graph.direction * Start'[n]
  BY <1>3, <1>4, <1>5 DEF Start, Done, Distance
<1>7. PrecedenceRespected'
  BY ScheduleStep DEF SchedInv
<1>8. ASSUME NEW p \in Predecessors(graph, n)
      PROVE  /\ p \in scheduled
             /\ graph.direction * (Start[p] + graph.weight[<<p, n>>]) <= graph.direction * Start'[n]
  <2>1. <<p, n>> \in Edges(graph) /\ p \in scheduled /\ n \in Done(n) /\ p # n /\ p \in Nodes
    BY <1>4, PredecessorFacts DEF SchedInv, Nodes, Done
  <2>2. graph.direction * (CyclesAfter(n)[p] + graph.weight[<<p, n>>])
          <= graph.direction * CyclesAfter(n)[n]
    BY <1>1, <1>2, <1>7, <2>1 DEF PrecedenceRespected, Distance
  <2> QED BY <1>3, <1>5, <2>1, <2>2 DEF Start
<1> QED
  BY <1>1, <1>2, <1>4, <1>5, <1>6, <1>8 DEF Promise!Place, Promise!NotAfter, Promise!Predecessors,
     Predecessors, Promise!Edges, Edges, Start, Done

\* schedule() gives statements their cycles once, in the order of the direction and after
\* what they depend on; advance() leaves them alone: the scheduler implements Schedule.
THEOREM SchedulerImplementsSchedule == ApiSpec => ImplementsSchedule
<1>1. Init => Promise!Init
  BY DEF Init, StartAvailable, Promise!Init
<1>2. SchedInv /\ [ApiNext]_vars => [Promise!Next]_<<graph, Start>>
  <2> SUFFICES ASSUME SchedInv, [ApiNext]_vars PROVE [Promise!Next]_<<graph, Start>>
    OBVIOUS
  <2>1. CASE \E n \in Nodes : Scheduling(n)
    BY <2>1, ScheduleIsPlace DEF Promise!Next, Nodes
  <2>2. CASE Advancing \/ RunDone \/ UNCHANGED vars
    <3>1. graph' = graph /\ scheduled' = scheduled /\ cycleOf' = cycleOf
      BY <2>2 DEF Advancing, AdvanceCycle, RunDone, vars, inputs
    <3> QED BY <3>1 DEF Start
  <2> QED BY <2>1, <2>2, StepCases
<1> QED BY <1>1, <1>2, SchedulerInvariant, PTL DEF ApiSpec, ImplementsSchedule, Promise!Spec, Start

-----------------------------------------------------------------------------
(* No assertion fails.                                                     *)

\* Unless the order of the available list moves with the cycles, schedule() finds the
\* statement where the list put it, and no unblocked statement in the wrong collection.
LEMMA ScheduleSucceeds ==
  ASSUME SchedInv, "critical_path" \notin Heuristics, NEW n \in Nodes, Scheduling(n)
  PROVE  outcome' = "running"
<1> DEFINE now == {s \in Unblocked(n) : FromAfter(n, s) = cycle}
<1>1. n \in available /\ outcome = "running" /\ Schedule(n) /\ ResourcesAllow(n)
  BY DEF Scheduling
<1>2. heuristic # "critical_path"
  BY DEF SchedInv
<1>3. EraseFinds(n, CyclesAfter(n)) = {TRUE}
  <2>1. \A a, b : ListedBefore(a, b, cycleOf) <=> ListedBefore(a, b, CyclesAfter(n))
    BY <1>2, Zenon DEF ListedBefore, MoreCritical
  <2> QED BY <2>1 DEF EraseFinds
<1>4. n \notin scheduled /\ Unblocked(n) \subseteq waiting /\ now \cap (available \ {n}) = {}
  BY <1>1, ListedFacts, ListsAfter
<1>5. \E found \in EraseFinds(n, CyclesAfter(n)) :
        outcome' = IF /\ found /\ ResourcesAllow(n) /\ n \notin scheduled
                      /\ Unblocked(n) \subseteq waiting
                      /\ now \cap (available \ {n}) = {}
                   THEN "running" ELSE "failed"
  <2> HIDE DEF now
  <2>1. now = {s \in Unblocked(n) : AvailableFrom(graph, s, CyclesAfter(n)) = cycle}
    BY DEF now, FromAfter
  <2> QED BY <1>1, <2>1, Zenon DEF Schedule, CyclesAfter, Done, Unblocked
<1> HIDE DEF now
<1> QED BY <1>1, <1>3, <1>4, <1>5

LEMMA NoFailureStep ==
  ASSUME SchedInv, NoAssertionFails, "critical_path" \notin Heuristics,
         [ApiNext]_vars \/ [RunNext]_vars
  PROVE  NoAssertionFails'
<1>1. CASE \E n \in Nodes : Scheduling(n)
  BY <1>1, ScheduleSucceeds DEF NoAssertionFails
<1>2. CASE Advancing
  BY <1>2 DEF Advancing, NoAssertionFails
<1>3. CASE RunDone
  BY <1>3, DoneStep DEF NoAssertionFails
<1>4. CASE UNCHANGED vars
  BY <1>4 DEF vars, NoAssertionFails
<1> QED BY <1>1, <1>2, <1>3, <1>4, StepCases

\* Whatever a caller does with the scheduler, none of its assertions fails and no
\* reservation it makes is refused, as long as the available list is not ordered by
\* critical_path, whose criteria schedule() changes under the list.
THEOREM SchedulerNeverFails ==
  ASSUME "critical_path" \notin Heuristics
  PROVE  ApiSpec => []NoAssertionFails
<1>1. Init => NoAssertionFails
  BY DEF Init, StartAvailable, NoAssertionFails
<1>2. SchedInv /\ NoAssertionFails /\ [ApiNext]_vars => NoAssertionFails'
  BY NoFailureStep
<1> QED BY <1>1, <1>2, SchedulerInvariant, PTL DEF ApiSpec

-----------------------------------------------------------------------------
(* run().                                                                  *)

\* The resources have been asked for nothing beyond the current cycle.
Names == {"instrument", "inter_core_channel", "qubit"}

InOrder ==
  /\ resources = [config |-> resources.config, prev |-> resources.prev,
                  instrument |-> resources.instrument, channel |-> resources.channel,
                  qubit |-> resources.qubit]
  /\ resources.config.direction = IF graph.direction > 0 THEN "FORWARD" ELSE "BACKWARD"
  /\ DOMAIN resources.prev = Names
  /\ \A r \in Names : resources.prev[r] \in Int /\ Distance(resources.prev[r]) <= Distance(cycle)

LEMMA NamesOfResources ==
  /\ DOMAIN ResourceNames = 1 .. 3
  /\ {ResourceNames[i] : i \in DOMAIN ResourceNames} = Names
  /\ \A i \in DOMAIN ResourceNames : ResourceNames[i] \in Names
<1>1. /\ DOMAIN ResourceNames = 1 .. 3
      /\ ResourceNames[1] = "instrument" /\ ResourceNames[2] = "inter_core_channel"
      /\ ResourceNames[3] = "qubit"
  BY DEF ResourceNames
<1>2. \A i \in 1 .. 3 : i = 1 \/ i = 2 \/ i = 3
  OBVIOUS
<1>3. 1 \in 1 .. 3 /\ 2 \in 1 .. 3 /\ 3 \in 1 .. 3
  OBVIOUS
<1> QED BY <1>1, <1>2, <1>3 DEF Names

\* What the current cycle is in order for every resource means.
LEMMA OrderedNow ==
  ASSUME IsGraph(graph), cycle \in Int, InOrder
  PROVE  \A r \in Names : ~OutOfOrder(resources, r, cycle)
<1> SUFFICES ASSUME NEW r \in Names PROVE ~OutOfOrder(resources, r, cycle)
  OBVIOUS
<1>1. /\ resources.prev[r] \in Int /\ Distance(resources.prev[r]) <= Distance(cycle)
      /\ resources.config.direction = IF graph.direction > 0 THEN "FORWARD" ELSE "BACKWARD"
  BY DEF InOrder
<1>2. CASE graph.direction = 1 /\ \A c \in Int : Distance(c) = c
  BY <1>1, <1>2 DEF OutOfOrder
<1>3. CASE graph.direction = -1 /\ \A c \in Int : Distance(c) = -c
  BY <1>1, <1>3 DEF OutOfOrder
<1> QED BY <1>2, <1>3, DistanceSign

\* No resource ever refuses a statement that uses none.
LEMMA IdleFits ==
  ASSUME IsGraph(graph), cycle \in Int, InOrder, NEW gate, IsIdle(gate)
  PROVE  Available(resources, cycle, gate)
<1>1. OperandsOf(gate) = {} /\ Affected(gate) = {} /\ ~UsesChannels(gate)
  BY DEF IsIdle, OperandsOf, Affected, UsesChannels
<1>2. /\ QubitAvailable(resources, cycle, gate) /\ InstrumentAvailable(resources, cycle, gate)
      /\ ChannelAvailable(resources, cycle, gate)
  BY <1>1 DEF QubitAvailable, InstrumentAvailable, ChannelAvailable
<1>3. \A r \in Names : GateFits(resources, r, cycle, gate)
  BY <1>2, OrderedNow DEF GateFits, Names
<1> QED BY <1>3, NamesOfResources DEF Available

\* A reservation keeps the order and the configuration.
LEMMA ReserveInOrder ==
  ASSUME InOrder, NEW gate
  PROVE  LET after == Reserve(resources, cycle, gate)
         IN /\ after = [config |-> resources.config, prev |-> after.prev,
                        instrument |-> after.instrument, channel |-> after.channel,
                        qubit |-> after.qubit]
            /\ after.config = resources.config
            /\ DOMAIN after.prev = Names
            /\ \A r \in Names : after.prev[r] = cycle \/ after.prev[r] = resources.prev[r]
            /\ after.instrument \in {resources.instrument, InstrumentCommit(resources, cycle, gate)}
            /\ Available(resources, cycle, gate)
                 => /\ \A r \in Names : after.prev[r] = cycle
                    /\ after.qubit = QubitCommit(resources, cycle, gate)
<1> DEFINE done == Committing(resources, cycle, gate)
           after == Reserve(resources, cycle, gate)
           p == [r \in DOMAIN resources.prev |-> IF r \in done THEN cycle ELSE resources.prev[r]]
           i == IF "instrument" \in done THEN InstrumentCommit(resources, cycle, gate)
                                         ELSE resources.instrument
           n == IF "inter_core_channel" \in done THEN ChannelCommit(resources, cycle, gate)
                                                 ELSE resources.channel
           u == IF "qubit" \in done THEN QubitCommit(resources, cycle, gate) ELSE resources.qubit
<1>1. after = [config |-> resources.config, prev |-> p, instrument |-> i, channel |-> n, qubit |-> u]
  <2>1. after = [resources EXCEPT !.prev = p, !.instrument = i, !.channel = n, !.qubit = u]
    BY DEF Reserve
  <2> HIDE DEF p, i, n, u, after
  <2>2. resources = [config |-> resources.config, prev |-> resources.prev,
                     instrument |-> resources.instrument, channel |-> resources.channel,
                     qubit |-> resources.qubit]
    BY DEF InOrder
  <2> QED BY <2>1, <2>2
<1>2. DOMAIN p = Names /\ \A r \in Names : p[r] = IF r \in done THEN cycle ELSE resources.prev[r]
  BY DEF InOrder
<1>3. Available(resources, cycle, gate) => done = Names
  <2>1. Available(resources, cycle, gate) => done = {ResourceNames[j] : j \in DOMAIN ResourceNames}
    BY NamesOfResources DEF Available, Committing
  <2> QED BY <2>1, NamesOfResources
<1>4. Available(resources, cycle, gate) =>
        (\A r \in Names : p[r] = cycle) /\ u = QubitCommit(resources, cycle, gate)
  BY <1>2, <1>3 DEF Names
<1>6. i \in {resources.instrument, InstrumentCommit(resources, cycle, gate)}
  OBVIOUS
<1> HIDE DEF p, i, n, u, after, done
<1>5. /\ after.config = resources.config /\ after.prev = p /\ after.instrument = i
      /\ after.channel = n /\ after.qubit = u
  BY <1>1
<1> QED BY <1>1, <1>2, <1>4, <1>5, <1>6 DEF after

\* The statements that no resource can refuse.
Unrefused == IF constrained THEN {n \in Nodes : IsIdle(gates[n])} ELSE Nodes

\* They do not wait: run() has scheduled all of them that are listed before it moves on.
NoDelay == outcome = "running" => \A m \in available \cap Unrefused : From(m) = cycle

\* So each of them starts in the very cycle in which the last of its predecessors is finished.
OnTime ==
  \A n \in (scheduled \cap Unrefused) \ {graph.source} :
    \E p \in Predecessors(graph, n) : cycleOf[n] = cycleOf[p] + graph.weight[<<p, n>>]

RunInv == SchedInv /\ InOrder /\ NoDelay /\ OnTime

LEMMA UnrefusedFits ==
  ASSUME SchedInv, InOrder, NEW n \in available \cap Unrefused
  PROVE  n \in Fitting
<1>1. IsGraph(graph) /\ cycle \in Int
  BY DEF SchedInv, TypeOK
<1> QED BY <1>1, IdleFits DEF Unrefused, Fitting, ResourcesAllow

\* run() is only ever blocked by statements that use resources.
LEMMA RunCases ==
  ASSUME SchedInv, InOrder, [RunNext]_vars
  PROVE  \/ \E n \in Nodes : Scheduling(n)
         \/ Advancing /\ available \cap Unrefused = {} /\ available # {} /\ Fitting = {}
         \/ RunDone
         \/ UNCHANGED vars
<1>1. blocked \in Nat
  BY DEF SchedInv, TypeOK
<1>2. ASSUME RunBlocked
      PROVE  Advancing /\ available \cap Unrefused = {} /\ available # {} /\ Fitting = {}
  <2>1. Fitting = {} /\ available # {}
    BY <1>2 DEF RunBlocked
  <2>2. Advancing
    BY <1>1, <1>2 DEF RunBlocked, Advancing
  <2> QED BY <2>1, <2>2, UnrefusedFits
<1>3. ASSUME Construct PROVE \E n \in Nodes : Scheduling(n)
  BY <1>1, <1>3, SourceListed DEF Construct, Scheduling, SchedInv, TypeOK
<1>4. ASSUME NEW n \in Nodes, RunSchedule(n) PROVE Scheduling(n)
  BY <1>4 DEF RunSchedule, TrySchedule, Scheduling
<1> QED BY <1>2, <1>3, <1>4 DEF RunNext

\* schedule() reserves in order.
LEMMA ScheduleInOrder ==
  ASSUME SchedInv, InOrder, NEW n \in Nodes, Scheduling(n)
  PROVE  InOrder'
<1>1. /\ n \in available /\ outcome = "running" /\ Schedule(n)
      /\ graph' = graph /\ constrained' = constrained /\ gates' = gates
  BY DEF Scheduling, inputs
<1>2. cycle' \in Int /\ Distance(cycle) <= Distance(cycle') /\ cycle \in Int /\ IsGraph(graph)
  BY <1>1, ScheduleEffect DEF SchedInv, TypeOK
<1>3. \A c : Distance(c)' = graph.direction * c'
  BY <1>1 DEF Distance
<1>4. ASSUME NEW c \in Int, Distance(c) <= Distance(cycle) PROVE Distance(c) <= Distance(cycle')
  BY <1>2, <1>4, DistanceSign
<1>5. resources' = IF constrained THEN Reserve(resources, cycle, gates[n]) ELSE resources
  BY <1>1 DEF Schedule
<1>6. /\ resources' = [config |-> resources'.config, prev |-> resources'.prev,
                       instrument |-> resources'.instrument, channel |-> resources'.channel,
                       qubit |-> resources'.qubit]
      /\ resources'.config = resources.config
      /\ DOMAIN resources'.prev = Names
      /\ \A r \in Names : resources'.prev[r] = cycle \/ resources'.prev[r] = resources.prev[r]
  <2>1. CASE ~constrained
    BY <1>5, <2>1 DEF InOrder
  <2>2. CASE constrained
    <3>1. resources' = Reserve(resources, cycle, gates[n])
      BY <1>5, <2>2
    <3> QED BY <3>1, ReserveInOrder
  <2> QED BY <2>1, <2>2
<1>7. \A r \in Names : resources'.prev[r] \in Int /\ Distance(resources'.prev[r]) <= Distance(cycle')
  <2> SUFFICES ASSUME NEW r \in Names
               PROVE  resources'.prev[r] \in Int /\ Distance(resources'.prev[r]) <= Distance(cycle')
    OBVIOUS
  <2>1. resources.prev[r] \in Int /\ Distance(resources.prev[r]) <= Distance(cycle)
    BY DEF InOrder
  <2> QED BY <1>2, <1>4, <1>6, <2>1
<1>8. resources'.config.direction = IF graph.direction > 0 THEN "FORWARD" ELSE "BACKWARD"
  BY <1>6 DEF InOrder
<1> QED BY <1>1, <1>6, <1>7, <1>8 DEF InOrder, Distance

LEMMA InOrderStep ==
  ASSUME SchedInv, InOrder, [RunNext]_vars
  PROVE  InOrder'
<1>1. CASE \E n \in Nodes : Scheduling(n)
  BY <1>1, ScheduleInOrder
<1>2. CASE Advancing
  <2>1. /\ resources' = resources /\ graph' = graph /\ cycle' = cycle + graph.direction
        /\ IsGraph(graph) /\ cycle \in Int
    BY <1>2 DEF Advancing, AdvanceCycle, inputs, SchedInv, TypeOK
  <2>2. \A c : Distance(c)' = graph.direction * c'
    BY <2>1 DEF Distance
  <2>3. ASSUME NEW c \in Int, Distance(c) <= Distance(cycle) PROVE Distance(c) <= Distance(cycle')
    <3>1. cycle' \in Int
      BY <2>1 DEF IsGraph
    <3> QED BY <2>1, <2>3, <3>1, DistanceSign
  <2>4. \A r \in Names : resources.prev[r] \in Int /\ Distance(resources.prev[r]) <= Distance(cycle')
    BY <2>3 DEF InOrder
  <2> QED BY <2>1, <2>4 DEF InOrder, Distance
<1>3. CASE RunDone \/ UNCHANGED vars
  <2>1. resources' = resources /\ graph' = graph /\ cycle' = cycle
    BY <1>3 DEF RunDone, vars, inputs
  <2> QED BY <2>1 DEF InOrder, Distance
<1> QED BY <1>1, <1>2, <1>3, RunCases

\* A statement that did not wait starts when the last of its predecessors has finished.
LEMMA FromPredecessor ==
  ASSUME SchedInv, outcome = "running", NEW n \in available, From(n) = cycle, n # graph.source
  PROVE  \E p \in Predecessors(graph, n) : cycle = cycleOf[p] + graph.weight[<<p, n>>]
<1> DEFINE P == Predecessors(graph, n)
           end(p) == cycleOf[p] + graph.weight[<<p, n>>]
<1>1. IsGraph(graph) /\ n \in DOMAIN graph.order /\ P \subseteq scheduled
  BY ListedFacts DEF SchedInv, Nodes
<1>2. /\ P # {} /\ \A p \in P : graph.weight[<<p, n>>] \in Int
      /\ \A p \in P : 0 <= graph.direction * graph.weight[<<p, n>>]
  BY <1>1, PredecessorFacts
<1>3. \A p \in P : cycleOf[p] \in Int /\ 0 <= graph.direction * cycleOf[p]
  BY <1>1 DEF SchedInv, TypeOK, CyclesBehind, Distance
<1>4. cycleOf \in [DOMAIN graph.order -> Int]
  BY DEF SchedInv, TypeOK, Nodes
<1>5. /\ \A p \in P : graph.direction * end(p) <= graph.direction * cycle
      /\ cycle = 0 \/ \E p \in P : cycle = end(p)
  BY <1>1, <1>3, <1>4, AvailableFromFacts DEF From
<1>6. ASSUME cycle = 0, NEW p \in P PROVE end(p) = 0
  <2>1. /\ cycleOf[p] \in Int /\ graph.weight[<<p, n>>] \in Int
        /\ 0 <= graph.direction * cycleOf[p] /\ 0 <= graph.direction * graph.weight[<<p, n>>]
        /\ graph.direction * end(p) <= graph.direction * 0
    BY <1>2, <1>3, <1>5, <1>6
  <2>2. graph.direction \in {-1, 1}
    BY <1>1 DEF IsGraph
  <2> QED BY <2>1, <2>2
<1> HIDE DEF P
<1>7. \E p \in P : cycle = end(p)
  BY <1>2, <1>5, <1>6
<1> QED BY <1>7 DEF P

LEMMA ScheduleOnTime ==
  ASSUME SchedInv, NoDelay, OnTime, NEW n \in Nodes, Scheduling(n)
  PROVE  NoDelay' /\ OnTime'
<1>1. /\ n \in available /\ outcome = "running" /\ Schedule(n)
      /\ graph' = graph /\ gates' = gates /\ constrained' = constrained
  BY DEF Scheduling, inputs
<1>2. /\ cycleOf' = CyclesAfter(n) /\ scheduled' = Done(n) /\ available' = Due(n, cycle')
      /\ cycle' = cycle \/ \A m \in available' : FromAfter(n, m) = cycle'
  BY <1>1, ScheduleEffect
<1>3. IsGraph(graph) /\ cycle \in Int /\ scheduled \subseteq Nodes /\ Unrefused' = Unrefused
  BY <1>1 DEF SchedInv, TypeOK, Unrefused, Nodes
<1>4. /\ ReadyAfter(n) = (Ready \ {n}) \cup Unblocked(n)
      /\ \A m \in ReadyAfter(n) : FromAfter(n, m) \in Int
      /\ \A m \in Ready \ {n} : FromAfter(n, m) = From(m)
      /\ \A m \in Unblocked(n) : Distance(cycle) <= Distance(FromAfter(n, m))
  BY <1>1, ReadyAfterFacts
<1>5. \A m \in available \cap Unrefused : From(m) = cycle
  BY <1>1 DEF NoDelay
<1>6. available = {m \in Ready : Distance(From(m)) <= Distance(cycle)}
  BY <1>1 DEF SchedInv, Collections
<1>7. \A m \in Due(n, cycle) \cap Unrefused : FromAfter(n, m) = cycle
  <2> SUFFICES ASSUME NEW m \in Due(n, cycle) \cap Unrefused PROVE FromAfter(n, m) = cycle
    OBVIOUS
  <2>1. m \in ReadyAfter(n) /\ Distance(FromAfter(n, m)) <= Distance(cycle) /\ FromAfter(n, m) \in Int
    BY <1>4 DEF Due
  <2>2. CASE m \in Ready \ {n}
    BY <1>4, <1>5, <1>6, <2>1, <2>2
  <2>3. CASE m \in Unblocked(n)
    BY <1>3, <1>4, <2>1, <2>3, DistanceSign
  <2> QED BY <1>4, <2>1, <2>2, <2>3
<1>8. \A m : From(m)' = FromAfter(n, m)
  BY <1>1, <1>2 DEF From, FromAfter
<1>9. NoDelay'
  BY <1>2, <1>3, <1>7, <1>8 DEF NoDelay
<1>10. n \notin scheduled /\ Predecessors(graph, n) \subseteq scheduled
  BY <1>1, ListedFacts
<1>11. ASSUME NEW m \in Done(n) \cap Unrefused, m # graph.source
       PROVE  \E p \in Predecessors(graph, m) :
                CyclesAfter(n)[m] = CyclesAfter(n)[p] + graph.weight[<<p, m>>]
  <2>1. \A p \in scheduled : CyclesAfter(n)[p] = cycleOf[p]
    BY <1>1, <1>3, <1>10, CyclesAfterFacts
  <2>2. CASE m = n
    <3>1. CyclesAfter(n)[n] = cycle
      BY <1>1, CyclesAfterFacts
    <3>2. \E p \in Predecessors(graph, n) : cycle = cycleOf[p] + graph.weight[<<p, n>>]
      BY <1>1, <1>5, <1>11, <2>2, FromPredecessor
    <3> QED BY <1>10, <2>1, <2>2, <3>1, <3>2
  <2>3. CASE m \in scheduled
    <3>1. PICK p \in Predecessors(graph, m) : cycleOf[m] = cycleOf[p] + graph.weight[<<p, m>>]
      BY <1>11, <2>3 DEF OnTime
    <3>2. p \in scheduled
      <4>1. m \in DOMAIN graph.order
        BY <1>3, <2>3 DEF Nodes
      <4>2. <<p, m>> \in Edges(graph)
        BY <1>3, <4>1, PredecessorFacts
      <4> QED BY <2>3, <4>2 DEF SchedInv, PrecedenceRespected
    <3> QED BY <2>1, <2>3, <3>1, <3>2
  <2> QED BY <1>11, <2>2, <2>3 DEF Done
<1> QED BY <1>1, <1>2, <1>3, <1>9, <1>11 DEF OnTime

\* What becomes available when run() is blocked has not waited either.
LEMMA AdvanceOnTime ==
  ASSUME SchedInv, NoDelay, OnTime, Advancing, available \cap Unrefused = {}
  PROVE  NoDelay' /\ OnTime'
<1>1. /\ outcome = "running" /\ cycle' = cycle + graph.direction
      /\ UNCHANGED <<graph, gates, constrained, cycleOf, scheduled>>
  BY DEF Advancing, AdvanceCycle, inputs
<1>2. /\ IsGraph(graph) /\ cycle \in Int
      /\ available = {m \in Ready : Distance(From(m)) <= Distance(cycle)}
  BY <1>1 DEF SchedInv, TypeOK, Collections
<1>3. Unrefused' = Unrefused /\ Ready' = Ready /\ \A m : From(m)' = From(m)
  BY <1>1 DEF Unrefused, Nodes, Ready, From
<1>4. OnTime'
  BY <1>1, <1>3 DEF OnTime
<1>5. ASSUME outcome' = "running", NEW m \in available' \cap Unrefused PROVE From(m) = cycle'
  <2>1. m \in Ready' /\ Distance(From(m))' <= Distance(cycle)'
    BY <1>5, AdvanceStep DEF SchedInv, Collections
  <2>2. m \in Ready /\ graph.direction * From(m) <= graph.direction * cycle'
    BY <1>1, <1>3, <2>1 DEF Distance
  <2>3. ~(graph.direction * From(m) <= graph.direction * cycle)
    BY <1>2, <1>5, <2>2 DEF Distance
  <2>4. From(m) \in Int
    BY <2>2, FromFacts
  <2> QED BY <1>1, <1>2, <2>2, <2>3, <2>4 DEF IsGraph
<1> QED BY <1>3, <1>4, <1>5 DEF NoDelay

LEMMA OnTimeStep ==
  ASSUME SchedInv, InOrder, NoDelay, OnTime, [RunNext]_vars
  PROVE  NoDelay' /\ OnTime'
<1>1. CASE \E n \in Nodes : Scheduling(n)
  BY <1>1, ScheduleOnTime
<1>2. CASE Advancing /\ available \cap Unrefused = {}
  BY <1>2, AdvanceOnTime
<1>3. CASE RunDone \/ UNCHANGED vars
  <2>1. /\ UNCHANGED <<graph, gates, constrained, cycleOf, cycle, scheduled, available>>
        /\ outcome' = "running" => outcome = "running"
    BY <1>3 DEF RunDone, vars, inputs
  <2>2. Unrefused' = Unrefused /\ \A m : From(m)' = From(m)
    BY <2>1 DEF Unrefused, Nodes, From
  <2> QED BY <2>1, <2>2 DEF NoDelay, OnTime
<1> QED BY <1>1, <1>2, <1>3, RunCases

\* Whoever constructs a scheduler and runs it: the invariant of run().
LEMMA FreshRun == Fresh => RunInv
<1> SUFFICES ASSUME Fresh PROVE InOrder /\ NoDelay /\ OnTime
  BY FreshSched DEF RunInv
<1>1. /\ SchedInv /\ IsGraph(graph) /\ cycleOf \in [DOMAIN graph.order -> Int]
      /\ cycle = 0 /\ scheduled = {} /\ available = {graph.source}
  BY FreshSched DEF Fresh, StartAvailable, Nodes
<1>2. OnTime
  BY <1>1 DEF OnTime
<1>3. graph.source \in DOMAIN graph.order /\ Predecessors(graph, graph.source) = {}
  BY <1>1, PredecessorFacts DEF IsGraph
<1>4. From(graph.source) = 0
  BY <1>1, <1>3, AvailableFromFacts DEF From
<1>5. NoDelay
  BY <1>1, <1>4 DEF NoDelay
<1>6. PICK config \in ResourceConfigs : resources = ResourcesFor(graph, config)
  BY DEF Fresh
<1> DEFINE way == IF graph.direction > 0 THEN "FORWARD" ELSE "BACKWARD"
           used == [config EXCEPT !.direction = way]
<1>7. used.direction = way
  BY <1>6, ProblemsAssumption
<1>8. /\ resources = [config |-> resources.config, prev |-> resources.prev,
                      instrument |-> resources.instrument, channel |-> resources.channel,
                      qubit |-> resources.qubit]
      /\ resources.config = used /\ DOMAIN resources.prev = Names
      /\ \A r \in Names : resources.prev[r] = IF used.direction = "FORWARD" THEN MIN ELSE MAX
  <2>1. resources = InitialResources(used)
    BY <1>6 DEF ResourcesFor
  <2> HIDE DEF used
  <2>2. /\ resources.config = used
        /\ resources.prev = [r \in Names |->
                               IF used.direction = "FORWARD" THEN MIN ELSE MAX]
    BY <2>1, NamesOfResources DEF InitialResources
  <2> QED BY <2>1, <2>2 DEF InitialResources
<1>9. MIN \in Int /\ MAX \in Int /\ MIN < 0 /\ 0 < MAX
  BY ResourcesAssumption, ProblemsAssumption
<1>10. \A r \in Names : resources.prev[r] \in Int /\ Distance(resources.prev[r]) <= Distance(cycle)
  <2> SUFFICES ASSUME NEW r \in Names
               PROVE  resources.prev[r] \in Int /\ graph.direction * resources.prev[r] <= graph.direction * 0
    BY <1>1 DEF Distance
  <2> HIDE DEF used
  <2>1. resources.prev[r] = IF way = "FORWARD" THEN MIN ELSE MAX
    BY <1>7, <1>8
  <2> QED BY <1>1, <1>9, <2>1 DEF IsGraph
<1> HIDE DEF used
<1>11. InOrder
  BY <1>7, <1>8, <1>10 DEF InOrder
<1> QED BY <1>2, <1>5, <1>11

LEMMA RunStep == RunInv /\ [RunNext]_vars => RunInv'
BY SchedStep, InOrderStep, OnTimeStep DEF RunInv

\* run() finds everything scheduled when it is done.
LEMMA RunCompletes ==
  ASSUME RunInv, [RunNext]_vars, outcome' = "done", outcome # "done"
  PROVE  scheduled' = Nodes'
<1>1. CASE RunDone
  <2>1. scheduled = Nodes /\ scheduled' = scheduled /\ graph' = graph
    BY <1>1 DEF RunDone, RunInv, SchedInv, NeverStuck, inputs
  <2> QED BY <2>1 DEF Nodes
<1>2. CASE \E n \in Nodes : Scheduling(n)
  BY <1>2 DEF Scheduling, Schedule
<1>3. CASE Advancing
  BY <1>3 DEF Advancing
<1> QED BY <1>1, <1>2, <1>3, RunCases DEF RunInv, vars

\* The inductive invariant of run(): what no resource refuses is scheduled on time.
THEOREM RunInvariant == RunSpec => []RunInv
BY InitFresh, FreshRun, RunStep, PTL DEF RunSpec

LEMMA RunEarliest == RunInv => EarliestWhenUnconstrained
BY DEF RunInv, SchedInv, TypeOK, OnTime, Unrefused, EarliestWhenUnconstrained

\* Without resources run() is optimal: every statement starts in the very cycle in which
\* the last of its predecessors is finished, upwards (ASAP) and downwards (ALAP).
THEOREM RunIsOptimal == RunSpec => []EarliestWhenUnconstrained
BY RunEarliest, RunInvariant, PTL

\* The theory of the builder, about the builder of the pass.
P == INSTANCE DdgProofs WITH failed <- builderFailed

-----------------------------------------------------------------------------
(* The builder of the pass is the one DdgProofs is about.                  *)

\* The assumptions of DdgProofs hold.
LEMMA Assumed ==
  /\ P!WellFormedStatements
  /\ Null \notin Objects
  /\ \A r \in References : /\ r.target \in Objects /\ r.type \in P!DataTypes
                           /\ r.indices \in Seq(Nat)
                           /\ r = [target |-> r.target, type |-> r.type, indices |-> r.indices]
                           /\ r.type = "qubit" => P!ImplicitBit(r) \in References
  /\ \A r, s \in References : r.target = s.target => Len(r.indices) = Len(s.indices)
<1>1. P!WellFormedStatements
  BY PassAssumption, Zenon
  DEF Builder!WellFormedStatements, P!WellFormedStatements,
      Builder!AddStatement, P!AddStatement, Builder!AddSimpleStatement, P!AddSimpleStatement,
      Builder!AddOperands, P!AddOperands, Builder!AddReference, P!AddReference,
      Builder!CommutationDisabled, P!CommutationDisabled, Builder!NumQubits, P!NumQubits,
      Builder!IsBarrier, P!IsBarrier, Builder!Event, P!Event, Builder!ImplicitBit, P!ImplicitBit,
      Builder!GlobalState, P!GlobalState, Builder!StatementKinds, P!StatementKinds,
      Builder!AccessModes, P!AccessModes, Builder!Cardinality, P!Cardinality
<1>2. P!DataTypes = DataTypes /\ \A r : P!ImplicitBit(r) = ImplicitBit(r)
  BY Zenon DEF P!DataTypes, DataTypes, P!ImplicitBit, ImplicitBit
<1> QED BY <1>1, <1>2, ReferencesAssumption

\* So do its definitions say the same.
LEMMA SameEvents ==
  /\ \A n : P!EventsAt(n) = Builder!EventsAt(n)
  /\ \A e, f : P!EventCommutesWith(e, f) = EventCommutesWith(e, f)
<1>1. \A n : P!EventsAt(n) = Builder!EventsAt(n)
  <2>1. ASSUME NEW s, NEW o PROVE P!EventsOf(s, o) = Builder!EventsOf(s, o)
    BY Zenon
    DEF P!EventsOf, Builder!EventsOf, P!CombinedMode, Builder!CombinedMode,
        Builder!AddStatement, P!AddStatement, Builder!AddSimpleStatement, P!AddSimpleStatement,
        Builder!AddOperands, P!AddOperands, Builder!AddReference, P!AddReference,
        Builder!CommutationDisabled, P!CommutationDisabled, Builder!NumQubits, P!NumQubits,
        Builder!IsBarrier, P!IsBarrier, Builder!Event, P!Event, Builder!ImplicitBit, P!ImplicitBit,
        Builder!GlobalState, P!GlobalState, Builder!Cardinality, P!Cardinality
  <2>2. \A n : P!StatementAt(n) = Builder!StatementAt(n)
    BY Zenon DEF P!StatementAt, Builder!StatementAt, P!Sentinel, Builder!Sentinel
  <2> QED BY <2>1, <2>2, Zenon DEF P!EventsAt, Builder!EventsAt
<1>2. \A e, f : P!EventCommutesWith(e, f) = EventCommutesWith(e, f)
  BY Zenon
  DEF P!EventCommutesWith, EventCommutesWith, P!ModeCommutesWith, ModeCommutesWith,
      P!IsProvablyDistinctFrom, IsProvablyDistinctFrom, P!IsGlobalState, IsGlobalState
<1> QED BY <1>1, <1>2

LEMMA SameGraph ==
  /\ P!SinkOf(block) = Builder!SinkOf(block) /\ P!Nodes = Builder!Nodes
  /\ \A n : P!Duration(n) = Builder!Duration(n)
  /\ P!BuildDone <=> Builder!BuildDone
  /\ \A m, n : P!Conflicting(m, n) <=> Conflict(m, n)
  /\ \A m, n : P!Path(m, n) <=> Reaches(Builder!Nodes, DOMAIN weight, m, n)
<1>1. /\ P!SinkOf(block) = Builder!SinkOf(block) /\ P!Nodes = Builder!Nodes
      /\ P!BuildDone <=> Builder!BuildDone
  BY Zenon DEF P!SinkOf, Builder!SinkOf, P!Nodes, Builder!Nodes, P!BuildDone, Builder!BuildDone
<1>2. \A n : P!Duration(n) = Builder!Duration(n)
  BY Zenon DEF P!Duration, Builder!Duration, P!StatementAt, Builder!StatementAt,
               P!Sentinel, Builder!Sentinel
<1>3. \A m, n : P!Conflicting(m, n) <=> Conflict(m, n)
  BY SameEvents, Zenon DEF P!Conflicting, Conflict
<1>4. \A m, n : P!Path(m, n) <=> Reaches(Builder!Nodes, DOMAIN weight, m, n)
  BY <1>1, Zenon DEF P!Path, P!Reaches, Reaches
<1> QED BY <1>1, <1>2, <1>3, <1>4

\* Its steps are those of the builder in the pass.
LEMMA SameSteps ==
  /\ Builder!Init => P!Init
  /\ [Builder!Next]_builderVars => [P!Next]_P!builderVars
<1>1. Builder!Init => P!Init
  BY Zenon DEF Builder!Init, P!Init, Builder!Blocks, P!Blocks
<1>2. [Builder!Next]_builderVars => [P!Next]_P!builderVars
  BY Zenon
  DEF builderVars, P!builderVars, Builder!Next, P!Next, Builder!ProcessStatement, P!ProcessStatement,
      Builder!ProcessEvent, P!ProcessEvent, Builder!CommutesWith, P!CommutesWith,
      Builder!EdgeSources, P!EdgeSources, Builder!AfterEviction, P!AfterEviction,
      Builder!Evicted, P!Evicted, Builder!Pair, P!Pair, Builder!AddEdges, P!AddEdges,
      Builder!MayAlias, P!MayAlias, Builder!GlobalWrites, P!GlobalWrites, Builder!Max2, P!Max2,
      Builder!Duration, P!Duration, Builder!StatementAt, P!StatementAt,
      Builder!EventsAt, P!EventsAt, Builder!SinkOf, P!SinkOf, Builder!EventsOf, P!EventsOf,
      Builder!AddStatement, P!AddStatement, Builder!AddSimpleStatement, P!AddSimpleStatement,
      Builder!AddOperands, P!AddOperands, Builder!AddReference, P!AddReference,
      Builder!CommutationDisabled, P!CommutationDisabled, Builder!NumQubits, P!NumQubits,
      Builder!IsBarrier, P!IsBarrier, Builder!Event, P!Event, Builder!ImplicitBit, P!ImplicitBit,
      Builder!GlobalState, P!GlobalState, Builder!Sentinel, P!Sentinel,
      Builder!CombinedMode, P!CombinedMode, Builder!IsGlobalState, P!IsGlobalState,
      Builder!IsProvablyDistinctFrom, P!IsProvablyDistinctFrom,
      Builder!ReferenceIsShadowedBy, P!ReferenceIsShadowedBy,
      Builder!EventIsShadowedBy, P!EventIsShadowedBy,
      Builder!EventCommutesWith, P!EventCommutesWith,
      Builder!ModeCommutesWith, P!ModeCommutesWith, Builder!Cardinality, P!Cardinality
<1> QED BY <1>1, <1>2

-----------------------------------------------------------------------------
(* The graphs the scheduler is given.                                      *)

Sink == Builder!SinkOf(block)
Cycles(n) == Builder!Duration(n)

\* The finished graph, as DdgProofs describes it.
GraphOK ==
  /\ Sink \in Nat /\ 1 <= Sink /\ Builder!Nodes = 0 .. Sink
  /\ DOMAIN block = 1 .. (Sink - 1)
  /\ \A n \in Builder!Nodes : Cycles(n) \in Nat
  /\ weight \in [DOMAIN weight -> Nat]
  /\ Cycles(0) = 0 /\ \A n \in DOMAIN block : Cycles(n) = block[n].duration
  /\ \A e \in DOMAIN weight : /\ e \in Builder!Nodes \X Builder!Nodes /\ e[1] < e[2]
                              /\ weight[e] = Cycles(e[1])
                              /\ Conflict(e[1], e[2])
  /\ \A m, n \in Builder!Nodes :
       m < n /\ Conflict(m, n) => Reaches(Builder!Nodes, DOMAIN weight, m, n)
  /\ \A n \in Builder!Nodes : /\ Reaches(Builder!Nodes, DOMAIN weight, 0, n)
                              /\ Reaches(Builder!Nodes, DOMAIN weight, n, Sink)
  /\ \A n \in Builder!Nodes \ {0} : Conflict(0, n)

LEMMA FinishedGraph ==
  ASSUME P!BuilderInv, P!PrecisionInv, Builder!BuildDone
  PROVE  GraphOK
<1>1. /\ Len(block) \in Nat /\ DOMAIN block = 1 .. Len(block)
      /\ \A n \in P!Nodes : P!Duration(n) \in Nat
      /\ weight \in [DOMAIN weight -> Nat]
      /\ P!Duration(0) = 0 /\ \A n \in DOMAIN block : P!Duration(n) = block[n].duration
      /\ \A e \in DOMAIN weight : /\ e \in P!Nodes \X P!Nodes /\ e[1] < e[2]
                                  /\ weight[e] = P!Duration(e[1])
                                  /\ P!Conflicting(e[1], e[2])
      /\ \A m, n \in P!Nodes : m < n /\ P!Conflicting(m, n) => P!Path(m, n)
      /\ \A n \in P!Nodes : P!Path(0, n) /\ P!Path(n, P!SinkOf(block))
      /\ \A n \in P!Nodes \ {0} : P!Conflicting(0, n)
  BY P!BuiltGraph, Assumed, SameGraph
<1>2. Sink = Len(block) + 1 /\ Builder!Nodes = 0 .. Sink
  BY DEF Sink, Builder!SinkOf, Builder!Nodes
<1>3. \A n : Cycles(n) = P!Duration(n)
  BY SameGraph DEF Cycles
<1>4. Sink \in Nat /\ 1 <= Sink /\ DOMAIN block = 1 .. (Sink - 1)
  BY <1>1, <1>2
<1> QED BY <1>1, <1>2, <1>3, <1>4, SameGraph DEF GraphOK, Sink

\* Every node but the source has a predecessor, every node but the sink a successor.
LEMMA EdgesEverywhere ==
  ASSUME GraphOK
  PROVE  /\ \A n \in Builder!Nodes : n # 0 <=> \E e \in DOMAIN weight : e[2] = n
         /\ \A n \in Builder!Nodes : n # Sink <=> \E e \in DOMAIN weight : e[1] = n
<1>1. /\ Sink \in Nat /\ Builder!Nodes = 0 .. Sink
      /\ \A e \in DOMAIN weight : e \in Builder!Nodes \X Builder!Nodes /\ e[1] < e[2]
  BY DEF GraphOK
<1>2. \A e \in DOMAIN weight : e[2] # 0 /\ e[1] # Sink
  BY <1>1
<1>3. ASSUME NEW n \in Builder!Nodes, n # 0 PROVE \E e \in DOMAIN weight : e[2] = n
  <2> SUFFICES ASSUME \A e \in DOMAIN weight : e[2] # n PROVE FALSE
    OBVIOUS
  <2> DEFINE S == Builder!Nodes \ {n}
  <2>1. 0 \in S /\ S \in SUBSET Builder!Nodes /\ n \notin S
    BY <1>1, <1>3
  <2>2. \A e \in DOMAIN weight : e[1] \in S => e[2] \in S
    BY <1>1
  <2>3. Reaches(Builder!Nodes, DOMAIN weight, 0, n)
    BY DEF GraphOK
  <2> HIDE DEF S
  <2> QED BY <2>1, <2>2, <2>3 DEF Reaches
<1>4. ASSUME NEW n \in Builder!Nodes, n # Sink PROVE \E e \in DOMAIN weight : e[1] = n
  <2> SUFFICES ASSUME \A e \in DOMAIN weight : e[1] # n PROVE FALSE
    OBVIOUS
  <2>1. Reaches(Builder!Nodes, DOMAIN weight, n, Sink)
    BY DEF GraphOK
  <2>2. {n} \in SUBSET Builder!Nodes /\ n \in {n} /\ Sink \notin {n}
    BY <1>4
  <2> QED BY <2>1, <2>2 DEF Reaches
<1> QED BY <1>2, <1>3, <1>4

\* Reversal turns the edges around.
LEMMA ReversedEdges ==
  ASSUME GraphOK
  PROVE  LET g == Reverse(Built)
         IN /\ g.source = Sink /\ g.sink = 0 /\ g.direction = -1
            /\ g.order = [n \in Builder!Nodes |-> -n]
            /\ Edges(g) = {<<e[2], e[1]>> : e \in DOMAIN weight}
            /\ \A e \in DOMAIN weight : g.weight[<<e[2], e[1]>>] = -weight[e]
            /\ g = [source |-> g.source, sink |-> g.sink, direction |-> g.direction,
                    order |-> g.order, weight |-> g.weight]
<1> DEFINE back == {<<e[2], e[1]>> : e \in DOMAIN weight}
           w == [e \in back |-> -weight[<<e[2], e[1]>>]]
<1>1. /\ Built.source = 0 /\ Built.sink = Sink /\ Built.direction = 1
      /\ Built.order = [n \in Builder!Nodes |-> n] /\ Built.weight = weight
  BY DEF Built, Sink
<1>2. Reverse(Built) = [source |-> Sink, sink |-> 0, direction |-> -1,
                        order |-> [n \in Builder!Nodes |-> -n], weight |-> w]
  BY <1>1 DEF Reverse, Edges
<1>3. \A e \in DOMAIN weight : e = <<e[1], e[2]>>
  BY DEF GraphOK
<1>4. \A e \in DOMAIN weight : w[<<e[2], e[1]>>] = -weight[e]
  <2> SUFFICES ASSUME NEW e \in DOMAIN weight PROVE w[<<e[2], e[1]>>] = -weight[e]
    OBVIOUS
  <2>1. <<e[2], e[1]>> \in back /\ <<<<e[2], e[1]>>[2], <<e[2], e[1]>>[1]>> = e
    BY <1>3
  <2> HIDE DEF back
  <2> QED BY <2>1
<1>5. DOMAIN w = back
  OBVIOUS
<1> HIDE DEF w, back
<1> QED BY <1>2, <1>4, <1>5 DEF Edges, back

LEMMA MinusMinusOne == \A k \in Int : k = -1 => -k = 1
<1>1. \A k \in Int : k = -1 => k + 1 = 0
  OBVIOUS
<1>2. \A k \in Int : k + 1 = 0 => -k = 1
  OBVIOUS
<1> QED BY <1>1, <1>2, Zenon

\* Twice reversed is as built.
LEMMA ReversedTwice ==
  ASSUME GraphOK
  PROVE  Reverse(Reverse(Built)) = Built
<1> DEFINE g == Reverse(Built)
           h == Reverse(g)
           back == {<<x[2], x[1]>> : x \in Edges(g)}
<1>1. \A e \in DOMAIN weight : e = <<e[1], e[2]>> /\ weight[e] \in Int
  BY DEF GraphOK
<1>2. /\ g.source = Sink /\ g.sink = 0 /\ g.direction = -1
      /\ g.order = [n \in Builder!Nodes |-> -n]
      /\ Edges(g) = {<<e[2], e[1]>> : e \in DOMAIN weight}
      /\ \A e \in DOMAIN weight : g.weight[<<e[2], e[1]>>] = -weight[e]
  BY ReversedEdges
<1>3. back = DOMAIN weight
  <2>1. \A x \in Edges(g) : <<x[2], x[1]>> \in DOMAIN weight
    <3> SUFFICES ASSUME NEW x \in Edges(g) PROVE <<x[2], x[1]>> \in DOMAIN weight
      OBVIOUS
    <3>1. PICK e \in DOMAIN weight : x = <<e[2], e[1]>>
      BY <1>2
    <3>2. <<x[2], x[1]>> = e
      BY <1>1, <3>1
    <3> QED BY <3>2
  <2>2. \A e \in DOMAIN weight : \E x \in Edges(g) : e = <<x[2], x[1]>>
    <3> SUFFICES ASSUME NEW e \in DOMAIN weight PROVE \E x \in Edges(g) : e = <<x[2], x[1]>>
      OBVIOUS
    <3>1. <<e[2], e[1]>> \in Edges(g) /\ e = <<<<e[2], e[1]>>[2], <<e[2], e[1]>>[1]>>
      BY <1>1, <1>2
    <3> QED BY <3>1
  <2> HIDE DEF g
  <2> QED BY <2>1, <2>2
<1>4. [e \in back |-> -g.weight[<<e[2], e[1]>>]] = weight
  <2>1. ASSUME NEW e \in DOMAIN weight PROVE -g.weight[<<e[2], e[1]>>] = weight[e]
    <3>1. g.weight[<<e[2], e[1]>>] = -weight[e] /\ weight[e] \in Int
      BY <1>1, <1>2
    <3> HIDE DEF g
    <3> QED BY <3>1
  <2>2. weight = [e \in DOMAIN weight |-> weight[e]]
    BY DEF GraphOK
  <2> HIDE DEF g, back
  <2> QED BY <1>3, <2>1, <2>2
<1>5. [n \in DOMAIN g.order |-> -g.order[n]] = [n \in Builder!Nodes |-> n]
  <2>1. Builder!Nodes \subseteq Int
    BY DEF GraphOK
  <2> HIDE DEF g
  <2> QED BY <1>2, <2>1
<1>6. h = [source |-> 0, sink |-> Sink, direction |-> 1, order |-> [n \in Builder!Nodes |-> n],
           weight |-> weight]
  <2>1. h = [source |-> g.sink, sink |-> g.source, direction |-> -g.direction,
             order |-> [n \in DOMAIN g.order |-> -g.order[n]],
             weight |-> [e \in back |-> -g.weight[<<e[2], e[1]>>]]]
    BY DEF Reverse
  <2>2. g.direction = -1 /\ g.sink = 0 /\ g.source = Sink
    BY <1>2
  <2> HIDE DEF g, h, back
  <2>3. -1 \in Int
    OBVIOUS
  <2>4. -g.direction = 1
    BY <2>2, <2>3, MinusMinusOne, Zenon
  <2> QED BY <1>4, <1>5, <2>1, <2>2, <2>4
<1> QED BY <1>6 DEF Built, Sink

\* Both are graphs for the scheduler, on the nodes of the builder.
LEMMA BuiltIsGraph ==
  ASSUME GraphOK
  PROVE  /\ IsGraph(Built) /\ DOMAIN Built.order = Builder!Nodes
         /\ IsGraph(Reverse(Built)) /\ DOMAIN Reverse(Built).order = Builder!Nodes
<1>1. /\ Sink \in Nat /\ 1 <= Sink /\ Builder!Nodes = 0 .. Sink
      /\ \A e \in DOMAIN weight : /\ e \in Builder!Nodes \X Builder!Nodes /\ e[1] < e[2]
                                  /\ e = <<e[1], e[2]>> /\ weight[e] \in Nat
  BY DEF GraphOK
<1>2. IsFiniteSet(Builder!Nodes)
  BY <1>1, FS_Interval
<1>3. IsGraph(Built) /\ DOMAIN Built.order = Builder!Nodes
  <2> DEFINE g == Built
  <2>1. /\ g.source = 0 /\ g.sink = Sink /\ g.direction = 1 /\ g.weight = weight
        /\ g.order = [n \in Builder!Nodes |-> n] /\ Edges(g) = DOMAIN weight
    BY DEF Built, Sink, Edges
  <2> HIDE DEF g
  <2>2. DOMAIN g.order = Builder!Nodes /\ \A n \in Builder!Nodes : g.order[n] = n
    BY <2>1
  <2>3. \A n \in Builder!Nodes : Predecessors(g, n) = {} <=> n = g.source
    <3> SUFFICES ASSUME NEW n \in Builder!Nodes PROVE Predecessors(g, n) = {} <=> n = 0
      BY <2>1
    <3>1. Predecessors(g, n) = {} <=> ~\E e \in DOMAIN weight : e[2] = n
      BY <2>1 DEF Predecessors
    <3> QED BY <3>1, EdgesEverywhere
  <2>4. \A e \in Edges(g) : /\ e \in (DOMAIN g.order) \X (DOMAIN g.order)
                            /\ g.order[e[1]] < g.order[e[2]]
                            /\ g.weight[e] \in Int /\ g.direction * g.weight[e] >= 0
    BY <1>1, <2>1, <2>2
  <2>5. IsGraph(g)
    BY <1>1, <1>2, <2>1, <2>2, <2>3, <2>4 DEF IsGraph
  <2> QED BY <2>2, <2>5 DEF g
<1>4. IsGraph(Reverse(Built)) /\ DOMAIN Reverse(Built).order = Builder!Nodes
  <2> DEFINE g == Reverse(Built)
  <2>1. /\ g.source = Sink /\ g.sink = 0 /\ g.direction = -1
        /\ g.order = [n \in Builder!Nodes |-> -n]
        /\ Edges(g) = {<<e[2], e[1]>> : e \in DOMAIN weight}
        /\ \A e \in DOMAIN weight : g.weight[<<e[2], e[1]>>] = -weight[e]
    BY ReversedEdges
  <2> HIDE DEF g
  <2>2. DOMAIN g.order = Builder!Nodes /\ \A n \in Builder!Nodes : g.order[n] = -n
    BY <2>1
  <2>3. \A n \in Builder!Nodes : Predecessors(g, n) = {} <=> n = g.source
    <3> SUFFICES ASSUME NEW n \in Builder!Nodes PROVE Predecessors(g, n) = {} <=> n = Sink
      BY <2>1
    <3>1. ASSUME NEW e \in DOMAIN weight, e[1] = n PROVE Predecessors(g, n) # {}
      <4>1. <<e[2], e[1]>> \in Edges(g) /\ <<e[2], e[1]>>[2] = n
        BY <2>1, <3>1
      <4> QED BY <4>1 DEF Predecessors
    <3>2. ASSUME Predecessors(g, n) # {} PROVE \E e \in DOMAIN weight : e[1] = n
      <4>1. PICK x \in Edges(g) : x[2] = n
        BY <3>2 DEF Predecessors
      <4>2. PICK e \in DOMAIN weight : x = <<e[2], e[1]>>
        BY <2>1
      <4> QED BY <4>1, <4>2
    <3> QED BY <3>1, <3>2, EdgesEverywhere
  <2>4. ASSUME NEW x \in Edges(g)
        PROVE  /\ x \in (DOMAIN g.order) \X (DOMAIN g.order)
               /\ g.order[x[1]] < g.order[x[2]]
               /\ g.weight[x] \in Int /\ g.direction * g.weight[x] >= 0
    <3>1. PICK e \in DOMAIN weight : x = <<e[2], e[1]>>
      BY <2>1
    <3>2. /\ x[1] = e[2] /\ x[2] = e[1] /\ g.weight[x] = -weight[e] /\ weight[e] \in Nat
          /\ e[1] \in 0 .. Sink /\ e[2] \in 0 .. Sink /\ e[1] < e[2]
      BY <1>1, <2>1, <3>1
    <3> QED BY <1>1, <2>1, <2>2, <3>1, <3>2
  <2>5. IsGraph(g)
    BY <1>1, <1>2, <2>1, <2>2, <2>3, <2>4 DEF IsGraph
  <2> QED BY <2>2, <2>5 DEF g
<1> QED BY <1>3, <1>4

-----------------------------------------------------------------------------
(* What a finished run says of the edges of the program.                   *)

Backward == passOptions.target = "alap"

\* No dependency is lost.
Keeps(c) == \A e \in DOMAIN weight : c[e[1]] + weight[e] <= c[e[2]]

\* Nothing in S starts later (when scheduling backward: ends earlier) than an edge demands.
Tight(c, S) ==
  IF Backward
    THEN \A n \in S \ {Sink} : \E e \in DOMAIN weight : e[1] = n /\ c[n] + weight[e] = c[e[2]]
    ELSE \A n \in S \ {0} : \E e \in DOMAIN weight : e[2] = n /\ c[e[1]] + weight[e] = c[n]

LEMMA RunKeeps ==
  ASSUME GraphOK, graph = Targeted, TypeOK, PrecedenceRespected, scheduled = Nodes
  PROVE  Keeps(cycleOf)
<1> SUFFICES ASSUME NEW e \in DOMAIN weight
             PROVE  cycleOf[e[1]] + weight[e] <= cycleOf[e[2]]
  BY DEF Keeps
<1>1. e \in Builder!Nodes \X Builder!Nodes /\ e = <<e[1], e[2]>> /\ weight[e] \in Nat
  BY DEF GraphOK
<1>2. Nodes = Builder!Nodes /\ cycleOf[e[1]] \in Int /\ cycleOf[e[2]] \in Int
  BY <1>1, BuiltIsGraph DEF Nodes, Targeted, TypeOK
<1>3. CASE ~Backward
  <2>1. graph.direction = 1 /\ Edges(graph) = DOMAIN weight /\ graph.weight = weight
    BY <1>3 DEF Targeted, Backward, Built, Edges
  <2>2. graph.direction * (cycleOf[e[1]] + graph.weight[e]) <= graph.direction * cycleOf[e[2]]
    BY <1>1, <1>2, <2>1 DEF PrecedenceRespected, Distance
  <2> QED BY <1>1, <1>2, <2>1, <2>2
<1>4. CASE Backward
  <2>1. /\ graph.direction = -1 /\ <<e[2], e[1]>> \in Edges(graph)
        /\ graph.weight[<<e[2], e[1]>>] = -weight[e]
    BY <1>4, ReversedEdges DEF Targeted, Backward
  <2>2. graph.direction * (cycleOf[e[2]] + graph.weight[<<e[2], e[1]>>])
          <= graph.direction * cycleOf[e[1]]
    BY <1>1, <1>2, <2>1 DEF PrecedenceRespected, Distance
  <2> QED BY <1>1, <1>2, <2>1, <2>2
<1> QED BY <1>3, <1>4

LEMMA RunTight ==
  ASSUME GraphOK, graph = Targeted, TypeOK, OnTime, scheduled = Nodes
  PROVE  Tight(cycleOf, Unrefused)
<1>1. Nodes = Builder!Nodes /\ cycleOf \in [Builder!Nodes -> Int] /\ Unrefused \subseteq Nodes
  BY BuiltIsGraph DEF Nodes, Targeted, TypeOK, Unrefused
<1>2. CASE ~Backward
  <2>1. graph.source = 0 /\ Edges(graph) = DOMAIN weight /\ graph.weight = weight
    BY <1>2 DEF Targeted, Backward, Built, Edges
  <2>2. ASSUME NEW n \in Unrefused \ {0}
        PROVE  \E e \in DOMAIN weight : e[2] = n /\ cycleOf[e[1]] + weight[e] = cycleOf[n]
    <3>1. PICK p \in Predecessors(graph, n) : cycleOf[n] = cycleOf[p] + graph.weight[<<p, n>>]
      BY <1>1, <2>1 DEF OnTime
    <3>2. PICK e \in DOMAIN weight : e[2] = n /\ e[1] = p
      BY <2>1 DEF Predecessors
    <3>3. e = <<p, n>>
      BY <3>2 DEF GraphOK
    <3> QED BY <2>1, <3>1, <3>2, <3>3
  <2> QED BY <1>2, <2>2 DEF Tight
<1>3. CASE Backward
  <2>1. /\ graph.source = Sink /\ Edges(graph) = {<<e[2], e[1]>> : e \in DOMAIN weight}
        /\ \A e \in DOMAIN weight : graph.weight[<<e[2], e[1]>>] = -weight[e]
    BY <1>3, ReversedEdges DEF Targeted, Backward
  <2>2. ASSUME NEW n \in Unrefused \ {Sink}
        PROVE  \E e \in DOMAIN weight : e[1] = n /\ cycleOf[n] + weight[e] = cycleOf[e[2]]
    <3>1. PICK p \in Predecessors(graph, n) : cycleOf[n] = cycleOf[p] + graph.weight[<<p, n>>]
      BY <1>1, <2>1 DEF OnTime
    <3>2. PICK x \in Edges(graph) : x[2] = n /\ x[1] = p
      BY DEF Predecessors
    <3>3. PICK e \in DOMAIN weight : x = <<e[2], e[1]>>
      BY <2>1
    <3>4. e[1] = n /\ e[2] = p /\ graph.weight[<<p, n>>] = -weight[e] /\ weight[e] \in Nat
      BY <2>1, <3>2, <3>3 DEF GraphOK
    <3>5. cycleOf[p] \in Int
      BY <1>1, <3>4 DEF GraphOK
    <3> QED BY <3>1, <3>4, <3>5
  <2> QED BY <1>3, <2>2 DEF Tight
<1> QED BY <1>2, <1>3

-----------------------------------------------------------------------------
(* The invariant of the pass.                                              *)

\* What does not depend on how far the pass has got.
Kept ==
  /\ P!BuilderInv /\ P!PrecisionInv
  /\ passOptions \in PassOptions
  /\ phase \in {"build", "preschedule", "schedule", "done"}
  /\ gates = [n \in Builder!Nodes |-> IF n \in DOMAIN block THEN GateOf(block[n]) ELSE NoGate]
  /\ cycleOf \in [Builder!Nodes -> Int]
  /\ \E config \in ResourceConfigs, way \in Directions :
       resources.config = [config EXCEPT !.direction = way]
  /\ phase # "build" => Builder!BuildDone

Slot(n) == Occupied(cycleOf[n], gates[n])
Slots(q) == {Slot(n) : n \in {m \in scheduled : q \in OperandsOf(gates[m])}}

\* What is kept of the reservations of a qubit stands for all of them, and no two of them
\* touch.
QubitLanes ==
  /\ \A q \in Qubits :
       Lane(resources.qubit[q], resources.config.direction, resources.prev["qubit"], Slots(q))
  /\ \A m, n \in scheduled :
       m # n /\ OperandsOf(gates[m]) \cap OperandsOf(gates[n]) # {} => ~Touches(Slot(m), Slot(n))

\* As long as only the source is scheduled nothing is reserved, so that the first statement
\* of a forward schedule starts in cycle 0.
ZeroStart ==
  /\ scheduled \subseteq {0} =>
       /\ cycle = 0
       /\ \A q \in Qubits : resources.qubit[q] = {}
       /\ \A i \in Instruments : resources.instrument[i] = {}
  /\ 0 \in scheduled => cycleOf[0] = 0
  /\ ~(scheduled \subseteq {0}) => 0 \in scheduled /\ \E n \in scheduled \ {0} : cycleOf[n] = 0

\* A scheduler is run.
Running ==
  /\ RunInv
  /\ outcome = "done" => scheduled = Nodes

Prescheduling == Running /\ graph = Reverse(Targeted) /\ ~constrained

FinalScheduling ==
  /\ Running /\ graph = Targeted
  /\ constrained = passOptions.constrained
  /\ constrained => QubitLanes
  /\ ~Backward => ZeroStart

\* No two gates on one qubit at the same time.
Exclusive(c) ==
  \A m, n \in Builder!Nodes :
    m # n /\ OperandsOf(gates[m]) \cap OperandsOf(gates[n]) # {} =>
      \/ c[m] + gates[m].duration <= c[n]
      \/ c[n] + gates[n].duration <= c[m]

\* What a finished run leaves behind, and what shifting all cycles does not change.
Scheduled(c) ==
  /\ c \in [Builder!Nodes -> Int]
  /\ Keeps(c)
  /\ ~passOptions.constrained => Tight(c, Builder!Nodes)
  /\ passOptions.constrained => Exclusive(c)
  /\ block # <<>> => \E n \in DOMAIN block : c[n] = c[0]

PassInv ==
  /\ Kept
  /\ phase = "preschedule" => Prescheduling
  /\ phase = "schedule" => FinalScheduling
  /\ phase = "done" => Scheduled(cycleOf) /\ cycleOf[0] = 0 /\ statements = Sorted(cycleOf)

\* The builder's part, from start to end.
LEMMA BuilderBegins == PassInit => P!BuilderInv /\ P!PrecisionInv
<1>1. PassInit => P!Init
  BY SameSteps DEF PassInit
<1> QED BY <1>1, Assumed, P!InitInv, P!InitPrecise

LEMMA BuilderContinues ==
  ASSUME P!BuilderInv, P!PrecisionInv, [Builder!Next]_builderVars
  PROVE  P!BuilderInv' /\ P!PrecisionInv'
<1>1. [P!Next]_P!builderVars
  BY SameSteps
<1> QED BY <1>1, Assumed, P!BuilderStep, P!PrecisionStep

\* The block is made of statements, whose gates the resources can handle.
LEMMA BlockGates ==
  ASSUME Kept
  PROVE  /\ Builder!Nodes = 0 .. Sink /\ Sink \in Nat /\ 1 <= Sink /\ DOMAIN block = 1 .. (Sink - 1)
         /\ \A n \in DOMAIN block : block[n] \in Statements /\ block[n].duration \in Nat
         /\ gates[0] = NoGate /\ gates[Sink] = NoGate
         /\ \A n \in DOMAIN block : gates[n] = GateOf(block[n])
         /\ \A n \in Builder!Nodes : gates[n].duration = Cycles(n)
<1>1. PICK k \in 0 .. MaxStatements : block \in [1 .. k -> Statements]
  BY DEF Kept, P!BuilderInv, P!TypeOK, P!Blocks
<1>2. MaxStatements \in Nat /\ \A s \in Statements : s.duration \in Nat
  BY PassAssumption, Zenon DEF Builder!WellFormedStatements
<1>3. k \in Nat /\ Len(block) = k /\ DOMAIN block = 1 .. k
  BY <1>1, <1>2
<1>4. Builder!Nodes = 0 .. Sink /\ Sink = k + 1 /\ DOMAIN block = 1 .. (Sink - 1)
  BY <1>3 DEF Builder!Nodes, Sink, Builder!SinkOf
<1>5. \A n \in Builder!Nodes : gates[n] = IF n \in DOMAIN block THEN GateOf(block[n]) ELSE NoGate
  BY DEF Kept
<1>6. gates[0] = NoGate /\ gates[Sink] = NoGate /\ \A n \in DOMAIN block : gates[n] = GateOf(block[n])
  BY <1>3, <1>4, <1>5
<1>7. NoGate.duration = 0 /\ \A s : GateOf(s).duration = s.duration
  BY DEF NoGate, GateOf
<1>8. \A n : Cycles(n) = IF n \in DOMAIN block THEN block[n].duration ELSE 0
  BY <1>3 DEF Cycles, Builder!Duration, Builder!StatementAt, Builder!Sentinel
<1> QED BY <1>1, <1>2, <1>3, <1>4, <1>5, <1>6, <1>7, <1>8


-----------------------------------------------------------------------------
(* The schedulers the pass constructs.                                     *)

\* Whichever way it is turned, the graph is fit for a scheduler, which starts at a sentinel.
LEMMA TurnedGraphs ==
  ASSUME Kept, GraphOK
  PROVE  LET turned == {Targeted, Reverse(Targeted)}
         IN /\ Reverse(Reverse(Targeted)) = Targeted
            /\ \A g \in turned : /\ IsGraph(g) /\ DOMAIN g.order = Builder!Nodes
                                 /\ gates[g.source] = NoGate
                                 /\ g \in {Built, Reverse(Built)}
            /\ ~Backward => Targeted = Built
            /\ Backward => Targeted = Reverse(Built)
<1>1. Reverse(Reverse(Built)) = Built
  BY ReversedTwice
<1>2. Targeted = IF Backward THEN Reverse(Built) ELSE Built
  BY DEF Targeted, Backward
<1>3. Built.source = 0 /\ Reverse(Built).source = Sink
  BY ReversedEdges DEF Built
<1>4. \A g \in {Built, Reverse(Built)} : /\ IsGraph(g) /\ DOMAIN g.order = Builder!Nodes
                                         /\ gates[g.source] = NoGate
  BY <1>3, BuiltIsGraph, BlockGates
<1>5. CASE Backward
  BY <1>1, <1>2, <1>4, <1>5
<1>6. CASE ~Backward
  BY <1>1, <1>2, <1>4, <1>6
<1> QED BY <1>5, <1>6

\* The switches of the resources stay those the platform was configured with.
LEMMA SwitchesKept ==
  ASSUME NEW config \in ResourceConfigs, NEW way, NEW g,
         resources.config = [config EXCEPT !.direction = way]
  PROVE  ResourcesFor(g, resources.config) = ResourcesFor(g, config)
<1>1. config = [direction |-> config.direction, exclusive |-> config.exclusive, overlap |-> config.overlap]
  BY ProblemsAssumption
<1>2. \A d : [[config EXCEPT !.direction = way] EXCEPT !.direction = d] = [config EXCEPT !.direction = d]
  BY <1>1
<1> QED BY <1>2 DEF ResourcesFor

LEMMA NewSchedulerFresh ==
  ASSUME Kept, NEW g, IsGraph(g), DOMAIN g.order = Builder!Nodes, gates[g.source] = NoGate,
         NEW h \in Heuristics, NEW manager, NewScheduler(g, h, manager),
         gates' = gates, cycleOf' = cycleOf
  PROVE  /\ Fresh'
         /\ \E config \in ResourceConfigs : resources' = ResourcesFor(g, config)
<1>1. PICK config \in ResourceConfigs, way \in Directions :
        resources.config = [config EXCEPT !.direction = way]
  BY DEF Kept
<1>2. /\ graph' = g /\ heuristic' = h /\ resources' = ResourcesFor(g, config)
      /\ cycle' = 0 /\ scheduled' = {} /\ availableIn' = {}
      /\ available' = {g.source} /\ waiting' = DOMAIN g.order \ {g.source}
      /\ blocked' = 0 /\ outcome' = "running"
  BY <1>1, SwitchesKept DEF NewScheduler
<1>3. IsIdle(NoGate)
  BY DEF IsIdle, NoGate
<1>4. cycleOf \in [Builder!Nodes -> Int]
  BY DEF Kept
<1>5. Nodes' = DOMAIN g.order
  BY <1>2 DEF Nodes
<1>6. StartAvailable'
  BY <1>2, <1>5 DEF StartAvailable
<1> QED BY <1>2, <1>3, <1>4, <1>5, <1>6 DEF Fresh


\* Nothing is reserved of a new one.
NothingReserved ==
  /\ InOrder /\ scheduled = {} /\ cycle = 0
  /\ \E config \in ResourceConfigs : resources = ResourcesFor(graph, config)

LEMMA StartReserved == NothingReserved => QubitLanes /\ ZeroStart
<1> SUFFICES ASSUME NothingReserved PROVE QubitLanes /\ ZeroStart
  OBVIOUS
<1>1. InOrder /\ scheduled = {} /\ cycle = 0
  BY DEF NothingReserved
<1>2. PICK config : resources = InitialResources(config)
  BY DEF NothingReserved, ResourcesFor
<1>3. /\ resources.qubit = [q \in Qubits |-> {}]
      /\ resources.instrument = [i \in Instruments |-> {}]
  BY <1>2 DEF InitialResources
<1>4. resources.prev["qubit"] \in Int
  BY <1>1 DEF InOrder, Names
<1>5. \A q \in Qubits : Slots(q) = {}
  BY <1>1 DEF Slots
<1>6. QubitLanes
  <2>1. \A direction : Lane({}, direction, resources.prev["qubit"], {})
    BY <1>4, LaneEmpty
  <2> QED BY <1>1, <1>3, <1>5, <2>1 DEF QubitLanes
<1> QED BY <1>1, <1>3, <1>6 DEF ZeroStart

\* A new scheduler is one that run() may drive.
LEMMA NewSchedulerRuns ==
  ASSUME Kept, NEW g, IsGraph(g), DOMAIN g.order = Builder!Nodes, gates[g.source] = NoGate,
         NEW h \in Heuristics, NEW manager, NewScheduler(g, h, manager),
         gates' = gates, cycleOf' = cycleOf
  PROVE  /\ Running' /\ QubitLanes' /\ ZeroStart'
         /\ \E config \in ResourceConfigs, way \in Directions :
              resources'.config = [config EXCEPT !.direction = way]
<1>1. Fresh' /\ \E config \in ResourceConfigs : resources' = ResourcesFor(g, config)
  BY NewSchedulerFresh
<1>2. graph' = g /\ scheduled' = {} /\ cycle' = 0 /\ outcome' = "running"
  BY DEF NewScheduler
<1>3. (Fresh => RunInv)'
  BY FreshRun, PTL
<1>4. NothingReserved'
  BY <1>1, <1>2, <1>3 DEF NothingReserved, RunInv
<1>5. (NothingReserved => QubitLanes /\ ZeroStart)'
  BY StartReserved, PTL
<1>6. \E config \in ResourceConfigs, way \in Directions :
        resources'.config = [config EXCEPT !.direction = way]
  <2>1. PICK config \in ResourceConfigs : resources' = ResourcesFor(g, config)
    BY <1>1
  <2>2. \A way : InitialResources([config EXCEPT !.direction = way]).config = [config EXCEPT !.direction = way]
    BY DEF InitialResources
  <2> QED BY <2>1, <2>2 DEF ResourcesFor, Directions
<1> QED BY <1>1, <1>2, <1>3, <1>4, <1>5, <1>6 DEF Running


-----------------------------------------------------------------------------
(* The reservations of the final run.                                      *)

\* What the resources see of a statement.
LEMMA GateShape ==
  ASSUME Kept, NEW n \in Builder!Nodes
  PROVE  /\ OperandsOf(gates[n]) \subseteq Qubits /\ Affected(gates[n]) \subseteq Instruments
         /\ ~gates[n].channelled /\ gates[n].duration \in Nat
         /\ n \notin DOMAIN block => gates[n] = NoGate
<1>1. CASE n \in DOMAIN block
  <2>1. block[n] \in Statements /\ gates[n] = GateOf(block[n]) /\ block[n].duration \in Nat
    BY <1>1, BlockGates
  <2>2. ~GateOf(block[n]).channelled /\ GateOf(block[n]).duration = block[n].duration
    BY DEF GateOf
  <2>3. /\ OperandsOf(GateOf(block[n])) \subseteq Qubits
        /\ Affected(GateOf(block[n])) \subseteq Instruments
    BY <2>1, PassAssumption
  <2> QED BY <1>1, <2>1, <2>2, <2>3
<1>2. CASE n \notin DOMAIN block
  <2>1. gates[n] = NoGate
    BY <1>2 DEF Kept
  <2>2. IsIdle(NoGate) /\ NoGate.duration = 0
    BY DEF IsIdle, NoGate
  <2> QED BY <2>1, <2>2 DEF IsIdle, OperandsOf, Affected
<1> QED BY <1>1, <1>2

LEMMA FitsEach ==
  ASSUME NEW gate, Available(resources, cycle, gate)
  PROVE  QubitAvailable(resources, cycle, gate)
<1>1. \E i \in DOMAIN ResourceNames : ResourceNames[i] = "qubit"
  BY NamesOfResources DEF Names
<1>2. GateFits(resources, "qubit", cycle, gate)
  BY <1>1 DEF Available
<1> QED BY <1>2 DEF GateFits

\* A gate that fits takes qubits that nobody has.
LEMMA LanesSchedule ==
  ASSUME Kept, Nodes = Builder!Nodes, RunInv, constrained, QubitLanes,
         NEW n \in Nodes, Scheduling(n)
  PROVE  QubitLanes'
<1>1. /\ n \in available /\ outcome = "running" /\ Schedule(n) /\ gates' = gates
      /\ Available(resources, cycle, gates[n])
  BY DEF Scheduling, inputs, ResourcesAllow
<1>2. /\ cycleOf' = CyclesAfter(n) /\ scheduled' = Done(n)
      /\ resources' = Reserve(resources, cycle, gates[n])
  BY <1>1, ScheduleEffect DEF RunInv, Schedule
<1>3. /\ resources'.config = resources.config
      /\ resources'.prev["qubit"] = cycle
      /\ resources'.qubit = QubitCommit(resources, cycle, gates[n])
  BY <1>1, <1>2, ReserveInOrder DEF RunInv, Names
<1> DEFINE new == Occupied(cycle, gates[n])
           way == resources.config.direction
<1>4. /\ new \in KeyRanges /\ RangeValid(new) /\ new.first = cycle /\ cycle \in Int
      /\ OperandsOf(gates[n]) \subseteq Qubits
  <2>1. cycle \in Int /\ gates[n].duration \in Nat
    BY GateShape DEF RunInv, SchedInv, TypeOK
  <2> QED BY <2>1, GateShape DEF Occupied, RangePair, RangeValid, KeyRanges
<1>5. UpTo(way, resources.prev["qubit"], cycle) /\ way \in {"FORWARD", "BACKWARD"}
  <2>1. /\ IsGraph(graph) /\ cycle \in Int /\ resources.prev["qubit"] \in Int
        /\ Distance(resources.prev["qubit"]) <= Distance(cycle)
        /\ way = IF graph.direction > 0 THEN "FORWARD" ELSE "BACKWARD"
    BY <1>4 DEF RunInv, SchedInv, InOrder, Names
  <2>2. CASE graph.direction = 1 /\ \A c \in Int : Distance(c) = c
    BY <2>1, <2>2 DEF UpTo
  <2>3. CASE graph.direction = -1 /\ \A c \in Int : Distance(c) = -c
    BY <2>1, <2>3 DEF UpTo
  <2> QED BY <2>1, <2>2, <2>3, DistanceSign
<1>6. n \notin scheduled /\ scheduled \subseteq Nodes
  BY <1>1, ListedFacts DEF RunInv, SchedInv, TypeOK
<1>7. /\ \A m \in scheduled : Slot(m)' = Slot(m) /\ m # n
      /\ Slot(n)' = new
  <2>1. CyclesAfter(n)[n] = cycle /\ \A m \in Nodes \ {n} : CyclesAfter(n)[m] = cycleOf[m]
    BY <1>1, CyclesAfterFacts DEF RunInv
  <2> QED BY <1>1, <1>2, <1>6, <2>1 DEF Slot
<1>8. \A q : Slots(q)' = IF q \in OperandsOf(gates[n]) THEN Slots(q) \cup {new} ELSE Slots(q)
  BY <1>1, <1>2, <1>6, <1>7 DEF Slots, Done
<1> HIDE DEF new, way
<1>9. ASSUME NEW q \in Qubits
      PROVE  Lane(resources'.qubit[q], way, cycle, Slots(q)')
  <2>1. Lane(resources.qubit[q], way, resources.prev["qubit"], Slots(q))
    BY DEF QubitLanes, way
  <2>2. CASE q \notin OperandsOf(gates[n])
    <3>1. resources'.qubit[q] = resources.qubit[q]
      BY <1>3, <2>2 DEF QubitCommit
    <3> QED BY <1>4, <1>5, <1>8, <2>1, <2>2, <3>1, LaneWaits
  <2>3. CASE q \in OperandsOf(gates[n])
    <3>1. resources'.qubit[q] = SetRange(IF way # "UNDEFINED" THEN {} ELSE resources.qubit[q],
                                         new, "", FALSE)
      BY <1>3, <2>3 DEF QubitCommit, Reserved, Optimize, new, way
    <3>2. Find(resources.qubit[q], new) = {}
      BY <1>1, <2>3, FitsEach DEF QubitAvailable, IsFree, new
    <3>3. Lane(SetRange(IF way # "UNDEFINED" THEN {} ELSE resources.qubit[q], new, "", FALSE),
               way, new.first, Slots(q) \cup {new})
      <4>1. way \in {"FORWARD", "BACKWARD", "UNDEFINED"} /\ UpTo(way, resources.prev["qubit"], new.first)
        BY <1>4, <1>5
      <4> QED BY <1>4, <2>1, <3>2, <4>1, LaneReserve
    <3> QED BY <1>4, <1>8, <2>3, <3>1, <3>3
  <2> QED BY <2>2, <2>3
<1>10. ASSUME NEW m \in scheduled, OperandsOf(gates[m]) \cap OperandsOf(gates[n]) # {}
       PROVE  ~Touches(Slot(m), new) /\ ~Touches(new, Slot(m))
  <2>1. PICK q : q \in OperandsOf(gates[m]) /\ q \in OperandsOf(gates[n])
    BY <1>10
  <2>2. Lane(resources.qubit[q], way, resources.prev["qubit"], Slots(q))
    BY <1>4, <2>1 DEF QubitLanes, way
  <2>3. Find(resources.qubit[q], new) = {}
    BY <1>1, <2>1, FitsEach DEF QubitAvailable, IsFree, new
  <2>4. Slot(m) \in Slots(q)
    BY <2>1 DEF Slots
  <2>5. ~Touches(Slot(m), new)
    BY <1>4, <1>5, <2>2, <2>3, <2>4, LaneFree
  <2> QED BY <2>5 DEF Touches
<1>11. ASSUME NEW a \in Done(n), NEW b \in Done(n), a # b,
              OperandsOf(gates[a]) \cap OperandsOf(gates[b]) # {}
       PROVE  ~Touches(Slot(a)', Slot(b)')
  <2>1. CASE a \in scheduled /\ b \in scheduled
    BY <1>7, <1>11, <2>1 DEF QubitLanes
  <2>2. CASE a = n /\ b \in scheduled
    BY <1>7, <1>10, <1>11, <2>2
  <2>3. CASE b = n /\ a \in scheduled
    BY <1>7, <1>10, <1>11, <2>3
  <2> QED BY <1>11, <2>1, <2>2, <2>3 DEF Done
<1> QED BY <1>1, <1>2, <1>3, <1>9, <1>11 DEF QubitLanes, way

LEMMA LanesStep ==
  ASSUME Kept, Nodes = Builder!Nodes, RunInv, constrained, QubitLanes, [RunNext]_vars
  PROVE  QubitLanes'
<1>1. CASE \E n \in Nodes : Scheduling(n)
  BY <1>1, LanesSchedule
<1>2. CASE Advancing \/ RunDone \/ UNCHANGED vars
  <2>1. UNCHANGED <<resources, scheduled, cycleOf, gates>>
    BY <1>2 DEF Advancing, AdvanceCycle, RunDone, vars, inputs
  <2>2. (\A n : Slot(n)' = Slot(n)) /\ \A q : Slots(q)' = Slots(q)
    BY <2>1 DEF Slot, Slots
  <2> QED BY <2>1, <2>2 DEF QubitLanes
<1> QED BY <1>1, <1>2, RunCases DEF RunInv


\* Without reservations every gate fits.
LEMMA NothingReservedFits ==
  ASSUME Kept, Nodes = Builder!Nodes, RunInv, NEW n \in available,
         \A q \in Qubits : resources.qubit[q] = {},
         \A i \in Instruments : resources.instrument[i] = {}
  PROVE  n \in Fitting
<1>1. IsGraph(graph) /\ cycle \in Int /\ InOrder /\ n \in Builder!Nodes
  BY DEF RunInv, SchedInv, TypeOK
<1>2. /\ OperandsOf(gates[n]) \subseteq Qubits /\ Affected(gates[n]) \subseteq Instruments
      /\ ~gates[n].channelled
  BY <1>1, GateShape
<1>3. \A r : Find({}, r) = {} /\ MatchType({}, r) = "none"
  BY DEF Find, FindBefore, FindAfter, MatchType
<1>4. QubitAvailable(resources, cycle, gates[n])
  BY <1>2, <1>3 DEF QubitAvailable, IsFree
<1>5. InstrumentAvailable(resources, cycle, gates[n])
  BY <1>2, <1>3 DEF InstrumentAvailable
<1>6. ChannelAvailable(resources, cycle, gates[n])
  BY <1>2 DEF ChannelAvailable, UsesChannels
<1>7. \A r \in Names : GateFits(resources, r, cycle, gates[n])
  BY <1>1, <1>4, <1>5, <1>6, OrderedNow DEF GateFits, Names
<1> QED BY <1>7, NamesOfResources DEF Available, Fitting, ResourcesAllow

\* The source takes no time and reserves nothing.
LEMMA SourceAtZero ==
  ASSUME Kept, GraphOK, graph = Built, RunInv, ZeroStart, scheduled = {},
         NEW n \in Nodes, Scheduling(n)
  PROVE  /\ n = 0 /\ scheduled' = {0} /\ cycleOf'[0] = 0 /\ cycle' = 0
         /\ \A q \in Qubits : resources'.qubit[q] = {}
         /\ \A i \in Instruments : resources'.instrument[i] = {}
<1>1. /\ n \in available /\ outcome = "running" /\ Schedule(n)
      /\ UNCHANGED <<graph, gates>>
  BY DEF Scheduling, inputs
<1>2. /\ Nodes = Builder!Nodes /\ IsGraph(graph) /\ graph.source = 0 /\ graph.direction = 1
      /\ Edges(graph) = DOMAIN weight /\ graph.weight = weight
      /\ 0 \in Nodes /\ Sink \in Nodes /\ 0 # Sink
  <2>1. /\ DOMAIN graph.order = Builder!Nodes /\ IsGraph(graph)
    BY BuiltIsGraph
  <2>2. 0 \in Builder!Nodes /\ Sink \in Builder!Nodes /\ 0 # Sink
    BY DEF GraphOK
  <2> QED BY <2>1, <2>2 DEF Nodes, Built, Edges
<1>3. n = 0
  <2>1. Predecessors(graph, n) = {} /\ n \in DOMAIN graph.order
    BY <1>1, ListedFacts DEF RunInv, Nodes
  <2> QED BY <1>2, <2>1, PredecessorFacts
<1>4. /\ cycleOf' = CyclesAfter(0) /\ scheduled' = {0}
      /\ available' = Due(0, cycle')
      /\ cycle' = cycle \/ \A m \in available' : FromAfter(0, m) = cycle'
      /\ available' = {} => Nodes = {0}
  BY <1>1, <1>3, ScheduleEffect DEF RunInv, Done
<1>5. cycle = 0
  BY DEF ZeroStart
<1>6. cycleOf'[0] = 0
  BY <1>1, <1>3, <1>4, <1>5, CyclesAfterFacts DEF RunInv
<1>7. cycle' = 0
  <2> SUFFICES ASSUME cycle' # cycle PROVE FALSE
    BY <1>5
  <2>1. PICK m \in available' : FromAfter(0, m) = cycle'
    BY <1>2, <1>4
  <2>2. m \in Nodes /\ Predecessors(graph, m) \subseteq {0}
    BY <1>1, <1>3, <1>4, <2>1 DEF Due, ReadyAfter, Done
  <2>3. /\ CyclesAfter(0) \in [DOMAIN graph.order -> Int] /\ CyclesAfter(0)[0] = 0
    BY <1>1, <1>3, <1>5, CyclesAfterFacts DEF RunInv, Nodes
  <2>4. \A p \in Predecessors(graph, m) : 0 <= graph.direction * CyclesAfter(0)[p]
    BY <1>2, <2>2, <2>3
  <2>5. \/ FromAfter(0, m) = 0
        \/ \E p \in Predecessors(graph, m) : FromAfter(0, m) = CyclesAfter(0)[p] + graph.weight[<<p, m>>]
    BY <1>2, <2>2, <2>3, <2>4, AvailableFromFacts DEF FromAfter, Nodes
  <2>6. \A p \in Predecessors(graph, m) : graph.weight[<<p, m>>] = 0 /\ p = 0
    <3> TAKE p \in Predecessors(graph, m)
    <3>1. p = 0 /\ <<p, m>> \in Edges(graph)
      BY <1>2, <2>2, PredecessorFacts DEF Nodes
    <3>2. weight[<<0, m>>] = Cycles(<<0, m>>[1]) /\ Cycles(0) = 0
      BY <1>2, <3>1 DEF GraphOK
    <3> QED BY <1>2, <3>1, <3>2
  <2>7. \A p \in Predecessors(graph, m) : CyclesAfter(0)[p] + graph.weight[<<p, m>>] = 0
    BY <2>3, <2>6
  <2> QED BY <1>5, <2>1, <2>5, <2>7
<1>8. /\ \A q \in Qubits : resources'.qubit[q] = {}
      /\ \A i \in Instruments : resources'.instrument[i] = {}
  <2>1. resources' = IF constrained THEN Reserve(resources, cycle, gates[0]) ELSE resources
    BY <1>1, <1>3 DEF Schedule
  <2>2. /\ \A q \in Qubits : resources.qubit[q] = {}
        /\ \A i \in Instruments : resources.instrument[i] = {}
    BY DEF ZeroStart
  <2>3. ASSUME constrained
        PROVE  /\ resources'.qubit = QubitCommit(resources, cycle, gates[0])
               /\ resources'.instrument \in {resources.instrument, InstrumentCommit(resources, cycle, gates[0])}
    <3>1. Available(resources, cycle, gates[0])
      BY <1>3, <2>3 DEF Scheduling, ResourcesAllow
    <3>2. resources' = Reserve(resources, cycle, gates[0])
      BY <2>1, <2>3
    <3> QED BY <3>1, <3>2, ReserveInOrder DEF RunInv
  <2>4. OperandsOf(gates[0]) = {} /\ Affected(gates[0]) = {}
    <3>1. gates[0] = NoGate
      BY BlockGates
    <3>2. IsIdle(NoGate)
      BY DEF IsIdle, NoGate
    <3> QED BY <3>1, <3>2 DEF IsIdle, OperandsOf, Affected
  <2>5. /\ \A q \in Qubits : QubitCommit(resources, cycle, gates[0])[q] = resources.qubit[q]
        /\ \A i \in Instruments : InstrumentCommit(resources, cycle, gates[0])[i] = resources.instrument[i]
    BY <2>4 DEF QubitCommit, InstrumentCommit
  <2>6. CASE constrained
    BY <2>2, <2>3, <2>5, <2>6
  <2>7. CASE ~constrained
    BY <2>1, <2>2, <2>7
  <2> QED BY <2>6, <2>7
<1> QED BY <1>3, <1>4, <1>6, <1>7, <1>8

LEMMA ZeroStartStep ==
  ASSUME Kept, GraphOK, graph = Built, RunInv, ZeroStart, [RunNext]_vars
  PROVE  ZeroStart'
<1>1. Nodes = Builder!Nodes /\ 0 \in Nodes /\ scheduled \subseteq Nodes
  <2>1. DOMAIN graph.order = Builder!Nodes
    BY BuiltIsGraph
  <2> QED BY <2>1 DEF Nodes, GraphOK, RunInv, SchedInv, TypeOK
<1>2. ASSUME NEW n \in Nodes, Scheduling(n), scheduled # {} PROVE ZeroStart'
  <2>1. /\ n \in available /\ outcome = "running" /\ Schedule(n)
    BY <1>2 DEF Scheduling
  <2>2. cycleOf' = CyclesAfter(n) /\ scheduled' = scheduled \cup {n} /\ n \notin scheduled
    BY <2>1, ScheduleEffect, ListedFacts DEF RunInv, Done
  <2>3. /\ CyclesAfter(n)[n] = cycle
        /\ \A p \in Nodes \ {n} : CyclesAfter(n)[p] = cycleOf[p]
    BY <2>1, CyclesAfterFacts DEF RunInv
  <2>4. 0 \in scheduled /\ cycleOf[0] = 0
    BY <1>2 DEF ZeroStart
  <2>5. cycleOf'[0] = 0 /\ n # 0
    BY <1>1, <2>2, <2>3, <2>4
  <2>6. \E m \in scheduled' \ {0} : cycleOf'[m] = 0
    <3>1. CASE scheduled \subseteq {0}
      BY <2>2, <2>3, <2>5, <3>1 DEF ZeroStart
    <3>2. CASE ~(scheduled \subseteq {0})
      <4>1. PICK m \in scheduled \ {0} : cycleOf[m] = 0
        BY <3>2 DEF ZeroStart
      <4> QED BY <1>1, <2>2, <2>3, <4>1
    <3> QED BY <3>1, <3>2
  <2> QED BY <2>2, <2>4, <2>5, <2>6 DEF ZeroStart
<1>3. ASSUME NEW n \in Nodes, Scheduling(n), scheduled = {} PROVE ZeroStart'
  BY <1>3, SourceAtZero DEF ZeroStart
<1>4. ASSUME Advancing, available # {}, Fitting = {} PROVE ZeroStart'
  <2>1. ~(scheduled \subseteq {0})
    BY <1>1, <1>4, NothingReservedFits DEF ZeroStart
  <2>2. UNCHANGED <<scheduled, cycleOf>>
    BY <1>4 DEF Advancing, AdvanceCycle
  <2> QED BY <2>1, <2>2 DEF ZeroStart
<1>5. ASSUME RunDone \/ UNCHANGED vars PROVE ZeroStart'
  <2>1. UNCHANGED <<scheduled, cycleOf, cycle, resources>>
    BY <1>5 DEF RunDone, vars
  <2> QED BY <2>1 DEF ZeroStart
<1> QED BY <1>2, <1>3, <1>4, <1>5, RunCases DEF RunInv


-----------------------------------------------------------------------------
(* The schedule that the final run leaves behind.                          *)

\* Along a path statements start when the ones before them are finished.
LEMMA PathKeeps ==
  ASSUME GraphOK, NEW c \in [Builder!Nodes -> Int], Keeps(c),
         NEW m \in Builder!Nodes, NEW n \in Builder!Nodes, Reaches(Builder!Nodes, DOMAIN weight, m, n)
  PROVE  m = n \/ c[m] + Cycles(m) <= c[n]
<1> DEFINE S == {x \in Builder!Nodes : x = m \/ c[m] + Cycles(m) <= c[x]}
<1>1. Cycles(m) \in Nat /\ c[m] \in Int
  BY DEF GraphOK
<1>2. ASSUME NEW e \in DOMAIN weight, e[1] \in S PROVE e[2] \in S
  <2>1. /\ e[1] \in Builder!Nodes /\ e[2] \in Builder!Nodes
        /\ weight[e] = Cycles(e[1]) /\ Cycles(e[1]) \in Nat
    BY DEF GraphOK
  <2>2. c[e[1]] + Cycles(e[1]) <= c[e[2]] /\ c[e[1]] \in Int /\ c[e[2]] \in Int
    BY <2>1 DEF Keeps
  <2>3. e[1] = m \/ c[m] + Cycles(m) <= c[e[1]]
    BY <1>2
  <2>4. c[m] + Cycles(m) <= c[e[2]]
    BY <1>1, <2>1, <2>2, <2>3
  <2> QED BY <2>1, <2>4
<1>3. m \in S /\ S \in SUBSET Builder!Nodes
  OBVIOUS
<1>4. n \in S
  <2> HIDE DEF S
  <2> QED BY <1>2, <1>3 DEF Reaches
<1> QED BY <1>4

\* The sentinels are first and last.
LEMMA Extremes ==
  ASSUME GraphOK, NEW c \in [Builder!Nodes -> Int], Keeps(c), NEW n \in Builder!Nodes
  PROVE  c[0] <= c[n] /\ c[n] + Cycles(n) <= c[Sink] /\ c[n] <= c[Sink]
<1>1. /\ 0 \in Builder!Nodes /\ Sink \in Builder!Nodes /\ Cycles(0) = 0 /\ Cycles(n) \in Nat
      /\ Sink \notin DOMAIN block /\ Sink # 0
      /\ Reaches(Builder!Nodes, DOMAIN weight, 0, n) /\ Reaches(Builder!Nodes, DOMAIN weight, n, Sink)
  BY DEF GraphOK
<1>2. c[0] \in Int /\ c[n] \in Int /\ c[Sink] \in Int
  BY <1>1
<1>3. 0 = n \/ c[0] + Cycles(0) <= c[n]
  BY <1>1, PathKeeps
<1>4. n = Sink \/ c[n] + Cycles(n) <= c[Sink]
  BY <1>1, PathKeeps
<1>5. Cycles(Sink) = 0
  <2>1. Sink = Len(block) + 1
    BY DEF Sink, Builder!SinkOf
  <2>2. Sink \notin 1 .. Len(block)
    BY <2>1, <1>1 DEF GraphOK
  <2> QED BY <2>2 DEF Cycles, Builder!Duration, Builder!StatementAt, Builder!Sentinel
<1> QED BY <1>1, <1>2, <1>3, <1>4, <1>5

\* Gates whose reservations do not touch are not executed at the same time.
LEMMA ApartInTime ==
  ASSUME Kept, QubitLanes, cycleOf \in [Builder!Nodes -> Int], scheduled = Builder!Nodes
  PROVE  Exclusive(cycleOf)
<1> SUFFICES ASSUME NEW m \in Builder!Nodes, NEW n \in Builder!Nodes, m # n,
                    OperandsOf(gates[m]) \cap OperandsOf(gates[n]) # {}
             PROVE  \/ cycleOf[m] + gates[m].duration <= cycleOf[n]
                    \/ cycleOf[n] + gates[n].duration <= cycleOf[m]
  BY DEF Exclusive
<1>1. ~Touches(Slot(m), Slot(n))
  BY DEF QubitLanes
<1>2. /\ cycleOf[m] \in Int /\ cycleOf[n] \in Int
      /\ gates[m].duration \in Nat /\ gates[n].duration \in Nat
  BY GateShape
<1>3. /\ Slot(m).first = cycleOf[m] /\ Slot(m).second = cycleOf[m] + gates[m].duration
      /\ Slot(n).first = cycleOf[n] /\ Slot(n).second = cycleOf[n] + gates[n].duration
  BY DEF Slot, Occupied, RangePair
<1> QED BY <1>1, <1>2, <1>3 DEF Touches

\* Some statement starts together with the source.
LEMMA StartsAtZero ==
  ASSUME Kept, GraphOK, FinalScheduling, scheduled = Nodes, Keeps(cycleOf), block # <<>>
  PROVE  \E n \in DOMAIN block : cycleOf[n] = cycleOf[0]
<1>1. /\ Nodes = Builder!Nodes /\ Builder!Nodes = 0 .. Sink /\ Sink \in Nat /\ 1 <= Sink
      /\ DOMAIN block = 1 .. (Sink - 1)
      /\ cycleOf \in [Builder!Nodes -> Int]
  BY TurnedGraphs, BlockGates DEF Nodes, FinalScheduling, Kept
<1>2. DOMAIN block # {}
  <2>1. PICK k \in 0 .. MaxStatements : block \in [1 .. k -> Statements]
    BY DEF Kept, P!BuilderInv, P!TypeOK, P!Blocks
  <2>2. MaxStatements \in Nat
    BY PassAssumption, Zenon DEF Builder!WellFormedStatements
  <2>3. block \in Seq(Statements) /\ DOMAIN block = 1 .. Len(block) /\ Len(block) \in Nat
    BY <2>1, <2>2
  <2>4. Len(block) # 0
    BY <2>3
  <2> QED BY <2>3, <2>4
<1>3. SUFFICES \E n \in Builder!Nodes \ {0} : cycleOf[n] = cycleOf[0]
  <2>1. PICK n \in Builder!Nodes \ {0} : cycleOf[n] = cycleOf[0]
    BY <1>3
  <2>2. CASE n \in DOMAIN block
    BY <2>1, <2>2
  <2>3. CASE n = Sink
    <3>1. PICK k \in DOMAIN block : TRUE
      BY <1>2
    <3>2. k \in Builder!Nodes /\ 0 \in Builder!Nodes
      BY <1>1
    <3>3. cycleOf[0] <= cycleOf[k] /\ cycleOf[k] <= cycleOf[Sink] /\ cycleOf[k] \in Int /\ cycleOf[0] \in Int
      BY <1>1, <3>2, Extremes
    <3> QED BY <2>1, <2>3, <3>1, <3>3
  <2> QED BY <1>1, <2>1, <2>2, <2>3
<1>4. CASE ~Backward
  <2>1. /\ ZeroStart /\ ~(scheduled \subseteq {0})
    BY <1>1, <1>4 DEF FinalScheduling
  <2>2. cycleOf[0] = 0 /\ \E n \in scheduled \ {0} : cycleOf[n] = 0
    BY <2>1 DEF ZeroStart
  <2> QED BY <1>1, <2>2
<1>5. CASE Backward
  <2>1. 0 \in Unrefused /\ 0 # Sink
    <3>1. IsIdle(NoGate) /\ gates[0] = NoGate
      BY BlockGates DEF IsIdle, NoGate
    <3> QED BY <1>1, <3>1 DEF Unrefused
  <2>2. graph = Targeted /\ TypeOK /\ OnTime
    BY DEF FinalScheduling, Running, RunInv, SchedInv
  <2>3. \E e \in DOMAIN weight : e[1] = 0 /\ cycleOf[0] + weight[e] = cycleOf[e[2]]
    BY <1>5, <2>1, <2>2, RunTight DEF Tight
  <2>4. PICK e \in DOMAIN weight : e[1] = 0 /\ cycleOf[0] + weight[e] = cycleOf[e[2]]
    BY <2>3
  <2>5. weight[e] = 0 /\ e[2] \in Builder!Nodes \ {0}
    BY <1>1, <2>4 DEF GraphOK
  <2> QED BY <1>1, <2>4, <2>5
<1> QED BY <1>4, <1>5

\* Everything that is promised of the schedule.
LEMMA FinishedRun ==
  ASSUME Kept, GraphOK, FinalScheduling, outcome = "done"
  PROVE  Scheduled(cycleOf)
<1>1. /\ graph = Targeted /\ TypeOK /\ PrecedenceRespected /\ OnTime /\ scheduled = Nodes
      /\ constrained = passOptions.constrained
  BY DEF FinalScheduling, Running, RunInv, SchedInv
<1>2. Nodes = Builder!Nodes /\ cycleOf \in [Builder!Nodes -> Int]
  BY <1>1, TurnedGraphs DEF Nodes, Kept
<1>3. Keeps(cycleOf)
  BY <1>1, RunKeeps
<1>4. ~constrained => Tight(cycleOf, Builder!Nodes)
  <2>1. ~constrained => Unrefused = Builder!Nodes
    BY <1>2 DEF Unrefused
  <2> QED BY <1>1, <2>1, RunTight
<1>5. constrained => Exclusive(cycleOf)
  BY <1>1, <1>2, ApartInTime DEF FinalScheduling
<1>6. block # <<>> => \E n \in DOMAIN block : cycleOf[n] = cycleOf[0]
  BY <1>1, <1>3, StartsAtZero
<1> QED BY <1>1, <1>2, <1>3, <1>4, <1>5, <1>6 DEF Scheduled

\* It does not matter in which cycle a schedule starts.
LEMMA ScheduledShifted ==
  ASSUME Kept, GraphOK, NEW c, Scheduled(c), NEW k \in Int
  PROVE  Scheduled([n \in Builder!Nodes |-> c[n] - k])
<1> DEFINE d == [n \in Builder!Nodes |-> c[n] - k]
<1>1. c \in [Builder!Nodes -> Int]
  BY DEF Scheduled
<1>2. d \in [Builder!Nodes -> Int] /\ \A n \in Builder!Nodes : d[n] = c[n] - k /\ c[n] \in Int
  BY <1>1
<1>3. \A e \in DOMAIN weight : e[1] \in Builder!Nodes /\ e[2] \in Builder!Nodes /\ weight[e] \in Nat
  BY DEF GraphOK
<1>4. \A n \in DOMAIN block : n \in Builder!Nodes /\ 0 \in Builder!Nodes
  BY DEF GraphOK
<1>5. \A n \in Builder!Nodes : gates[n].duration \in Nat
  BY GateShape
<1> HIDE DEF d
<1>6. Keeps(d)
  <2>1. Keeps(c)
    BY DEF Scheduled
  <2> QED BY <1>2, <1>3, <2>1 DEF Keeps
<1>7. ~passOptions.constrained => Tight(d, Builder!Nodes)
  <2> SUFFICES ASSUME Tight(c, Builder!Nodes) PROVE Tight(d, Builder!Nodes)
    BY DEF Scheduled
  <2>1. \A e \in DOMAIN weight : c[e[1]] + weight[e] = c[e[2]] => d[e[1]] + weight[e] = d[e[2]]
    BY <1>2, <1>3
  <2>2. CASE Backward
    <3> SUFFICES ASSUME NEW n \in Builder!Nodes \ {Sink}
                 PROVE  \E e \in DOMAIN weight : e[1] = n /\ d[n] + weight[e] = d[e[2]]
      BY <2>2 DEF Tight
    <3>1. PICK e \in DOMAIN weight : e[1] = n /\ c[n] + weight[e] = c[e[2]]
      BY <2>2 DEF Tight
    <3> QED BY <2>1, <3>1
  <2>3. CASE ~Backward
    <3> SUFFICES ASSUME NEW n \in Builder!Nodes \ {0}
                 PROVE  \E e \in DOMAIN weight : e[2] = n /\ d[e[1]] + weight[e] = d[n]
      BY <2>3 DEF Tight
    <3>1. PICK e \in DOMAIN weight : e[2] = n /\ c[e[1]] + weight[e] = c[n]
      BY <2>3 DEF Tight
    <3> QED BY <2>1, <3>1
  <2> QED BY <2>2, <2>3
<1>8. passOptions.constrained => Exclusive(d)
  <2> SUFFICES ASSUME Exclusive(c) PROVE Exclusive(d)
    BY DEF Scheduled
  <2>1. ASSUME NEW m \in Builder!Nodes, NEW n \in Builder!Nodes,
               c[m] + gates[m].duration <= c[n]
        PROVE  d[m] + gates[m].duration <= d[n]
    <3>1. /\ d[m] = c[m] - k /\ d[n] = c[n] - k
          /\ c[m] \in Int /\ c[n] \in Int /\ gates[m].duration \in Nat
      BY <1>2, <1>5
    <3> QED BY <2>1, <3>1
  <2> QED BY <2>1 DEF Exclusive
<1>9. block # <<>> => \E n \in DOMAIN block : d[n] = d[0]
  <2> SUFFICES ASSUME block # <<>> PROVE \E n \in DOMAIN block : d[n] = d[0]
    OBVIOUS
  <2>1. PICK n \in DOMAIN block : c[n] = c[0]
    BY DEF Scheduled
  <2> QED BY <1>2, <1>4, <2>1
<1> QED BY <1>2, <1>6, <1>7, <1>8, <1>9 DEF Scheduled, d


-----------------------------------------------------------------------------
(* The steps of the pass.                                                  *)

LEMMA BuilderUnchanged ==
  ASSUME UNCHANGED <<block, weight, passOptions>>
  PROVE  /\ Targeted' = Targeted /\ Backward' = Backward
         /\ Builder!Nodes' = Builder!Nodes /\ Sink' = Sink
<1>1. Builder!Nodes' = Builder!Nodes /\ Sink' = Sink /\ Builder!SinkOf(block)' = Builder!SinkOf(block)
  BY DEF Builder!Nodes, Sink, Builder!SinkOf
<1>2. Built' = Built
  BY <1>1 DEF Built
<1> QED BY <1>1, <1>2 DEF Targeted, Backward

LEMMA ScheduledStays ==
  ASSUME UNCHANGED <<block, weight, passOptions, gates>>, NEW c, cycleOf' = c, Scheduled(c)
  PROVE  Scheduled(cycleOf)'
<1>1. Backward' = Backward /\ Builder!Nodes' = Builder!Nodes /\ Sink' = Sink
  BY BuilderUnchanged
<1>2. (Keeps(cycleOf)' <=> Keeps(c)) /\ (Exclusive(cycleOf)' <=> Exclusive(c))
  BY <1>1 DEF Keeps, Exclusive
<1>3. Tight(cycleOf, Builder!Nodes)' <=> Tight(c, Builder!Nodes)
  BY <1>1 DEF Tight
<1> QED BY <1>1, <1>2, <1>3 DEF Scheduled

LEMMA KeptStep ==
  ASSUME Kept, [Next]_passVars, cycleOf' \in [Builder!Nodes -> Int],
         \E config \in ResourceConfigs, way \in Directions :
           resources'.config = [config EXCEPT !.direction = way]
  PROVE  Kept' /\ block' = block /\ gates' = gates /\ passOptions' = passOptions
<1>1. block' = block /\ [Builder!Next]_builderVars
  <2>1. Builder!Next => block' = block
    BY DEF Builder!Next, Builder!ProcessStatement, Builder!ProcessEvent
  <2>2. CASE Build
    BY <2>1, <2>2 DEF Build
  <2>3. CASE UNCHANGED builderVars
    BY <2>3 DEF builderVars
  <2> QED BY <2>2, <2>3 DEF Next, StartScheduling, RunScheduler, FinishPreschedule, ConvertCycles, passVars
<1>2. P!BuilderInv' /\ P!PrecisionInv'
  BY <1>1, BuilderContinues DEF Kept
<1>3. gates' = gates /\ passOptions' = passOptions
  <2>1. RunNext => gates' = gates
    BY DEF RunNext, Construct, RunSchedule, TrySchedule, RunBlocked, AdvanceCycle, RunDone, inputs
  <2> QED BY <2>1 DEF Next, Build, StartScheduling, RunScheduler, FinishPreschedule, ConvertCycles,
                      passVars, vars, runVars
<1>4. Builder!Nodes' = Builder!Nodes
  BY <1>1 DEF Builder!Nodes, Builder!SinkOf
<1>5. /\ phase' \in {"build", "preschedule", "schedule", "done"}
      /\ phase' # "build" => Builder!BuildDone'
  <2>1. CASE Build
    BY <2>1 DEF Build, runVars, Kept
  <2>2. CASE StartScheduling \/ RunScheduler \/ FinishPreschedule \/ ConvertCycles \/ UNCHANGED passVars
    <3>1. UNCHANGED <<block, current, pending>>
      BY <2>2 DEF StartScheduling, RunScheduler, FinishPreschedule, ConvertCycles, passVars, builderVars
    <3>2. Builder!BuildDone' <=> Builder!BuildDone
      BY <3>1 DEF Builder!BuildDone, Builder!SinkOf
    <3>3. /\ phase' \in {"build", "preschedule", "schedule", "done"}
          /\ phase' # "build" => Builder!BuildDone
      BY <2>2 DEF StartScheduling, RunScheduler, FinishPreschedule, ConvertCycles, passVars, runVars, Kept
    <3> QED BY <3>2, <3>3
  <2> QED BY <2>1, <2>2 DEF Next
<1>6. gates' = [n \in Builder!Nodes' |-> IF n \in DOMAIN block' THEN GateOf(block'[n]) ELSE NoGate]
  BY <1>1, <1>3, <1>4 DEF Kept
<1>7. passOptions' \in PassOptions
  BY <1>3 DEF Kept
<1> QED BY <1>1, <1>2, <1>3, <1>4, <1>5, <1>6, <1>7 DEF Kept


\* A step of run() keeps what is known of a running scheduler.
LEMMA RunningStep ==
  ASSUME Kept, Running, graph = Targeted \/ graph = Reverse(Targeted), GraphOK, [RunNext]_vars
  PROVE  /\ Running' /\ graph' = graph /\ constrained' = constrained
         /\ cycleOf' \in [Builder!Nodes -> Int]
         /\ \E config \in ResourceConfigs, way \in Directions :
              resources'.config = [config EXCEPT !.direction = way]
<1>1. RunInv'
  BY RunStep DEF Running
<1>2. /\ graph' = graph /\ constrained' = constrained
      /\ outcome = "done" => UNCHANGED vars
      /\ resources'.config = resources.config
  <2>1. CASE \E n \in Nodes : Scheduling(n)
    <3>1. PICK n \in Nodes : Scheduling(n)
      BY <2>1
    <3>2. resources' = IF constrained THEN Reserve(resources, cycle, gates[n]) ELSE resources
      BY <3>1 DEF Scheduling, Schedule
    <3>3. Reserve(resources, cycle, gates[n]).config = resources.config
      BY ReserveInOrder DEF Running, RunInv
    <3>4. graph' = graph /\ constrained' = constrained /\ outcome = "running"
      BY <3>1 DEF Scheduling, inputs
    <3> QED BY <3>2, <3>3, <3>4
  <2>2. CASE Advancing \/ RunDone
    BY <2>2 DEF Advancing, AdvanceCycle, RunDone, inputs
  <2>3. CASE UNCHANGED vars
    BY <2>3 DEF vars
  <2> QED BY <2>1, <2>2, <2>3, RunCases DEF Running, RunInv
<1>3. outcome' = "done" => scheduled' = Nodes'
  <2>1. CASE outcome = "done"
    <3>1. UNCHANGED <<scheduled, graph>> /\ scheduled = Nodes
      BY <1>2, <2>1 DEF vars, Running
    <3> QED BY <3>1 DEF Nodes
  <2>2. CASE outcome # "done"
    BY <2>2, RunCompletes DEF Running
  <2> QED BY <2>1, <2>2
<1>4. Nodes' = Builder!Nodes /\ cycleOf' \in [Nodes' -> Int]
  BY <1>1, <1>2, TurnedGraphs DEF Nodes, RunInv, SchedInv, TypeOK
<1> QED BY <1>1, <1>2, <1>3, <1>4 DEF Running, Kept

LEMMA StepOfRun ==
  ASSUME PassInv, [RunNext]_vars, UNCHANGED <<builderVars, runVars>>, [Next]_passVars,
         phase \in {"preschedule", "schedule"}
  PROVE  PassInv'
<1>1. Kept /\ GraphOK /\ UNCHANGED <<block, weight, passOptions, phase>>
  BY FinishedGraph DEF PassInv, Kept, builderVars, runVars
<1>2. Targeted' = Targeted /\ Backward' = Backward
  BY <1>1, BuilderUnchanged
<1>3. Running /\ (graph = Targeted \/ graph = Reverse(Targeted))
  BY DEF PassInv, Prescheduling, FinalScheduling
<1>4. /\ Running' /\ graph' = graph /\ constrained' = constrained
      /\ cycleOf' \in [Builder!Nodes -> Int]
      /\ \E config \in ResourceConfigs, way \in Directions :
           resources'.config = [config EXCEPT !.direction = way]
  BY <1>1, <1>3, RunningStep
<1>5. Kept'
  BY <1>1, <1>4, KeptStep
<1>6. CASE phase = "preschedule"
  <2>1. Prescheduling'
    BY <1>2, <1>4, <1>6 DEF PassInv, Prescheduling
  <2> QED BY <1>1, <1>5, <1>6, <2>1 DEF PassInv
<1>7. CASE phase = "schedule"
  <2>1. FinalScheduling
    BY <1>7 DEF PassInv
  <2>2. Nodes = Builder!Nodes /\ RunInv /\ graph = Targeted
    BY <1>1, <2>1, TurnedGraphs DEF FinalScheduling, Running, Nodes
  <2>3. constrained => QubitLanes'
    BY <1>1, <2>1, <2>2, LanesStep DEF FinalScheduling
  <2>4. ~Backward => ZeroStart'
    BY <1>1, <2>1, <2>2, TurnedGraphs, ZeroStartStep DEF FinalScheduling
  <2>5. FinalScheduling'
    BY <1>1, <1>2, <1>4, <2>1, <2>3, <2>4 DEF FinalScheduling
  <2> QED BY <1>1, <1>5, <1>7, <2>5 DEF PassInv
<1> QED BY <1>6, <1>7

LEMMA StepOfConstruction ==
  ASSUME PassInv, StartScheduling \/ FinishPreschedule
  PROVE  PassInv'
<1>1. /\ Kept /\ GraphOK
      /\ UNCHANGED <<block, weight, passOptions, gates, cycleOf>>
  <2>1. Kept /\ Builder!BuildDone
    BY DEF PassInv, Kept, StartScheduling, FinishPreschedule
  <2> QED BY <2>1, FinishedGraph DEF Kept, StartScheduling, FinishPreschedule, builderVars
<1>2. Targeted' = Targeted /\ Backward' = Backward
  BY <1>1, BuilderUnchanged
<1>3. "none" \in Heuristics /\ passOptions.heuristic \in Heuristics
  BY <1>1, PassAssumption DEF Kept
<1>4. PICK g \in {Targeted, Reverse(Targeted)}, h \in Heuristics, manager \in {FALSE, passOptions.constrained} :
        /\ NewScheduler(g, h, manager)
        /\ \/ phase' = "schedule" /\ g = Targeted /\ manager = passOptions.constrained
           \/ phase' = "preschedule" /\ g = Reverse(Targeted) /\ manager = FALSE
  <2>1. CASE StartScheduling
    BY <1>3, <2>1 DEF StartScheduling
  <2>2. CASE FinishPreschedule
    <3>1. Reverse(graph) = Targeted
      BY <1>1, <2>2, TurnedGraphs DEF FinishPreschedule, PassInv, Prescheduling
    <3> QED BY <1>3, <2>2, <3>1 DEF FinishPreschedule
  <2> QED BY <2>1, <2>2
<1>5. IsGraph(g) /\ DOMAIN g.order = Builder!Nodes /\ gates[g.source] = NoGate
  BY <1>1, <1>4, TurnedGraphs
<1>6. /\ Running' /\ QubitLanes' /\ ZeroStart'
      /\ \E config \in ResourceConfigs, way \in Directions :
           resources'.config = [config EXCEPT !.direction = way]
  BY <1>1, <1>4, <1>5, NewSchedulerRuns
<1>7. graph' = g /\ constrained' = manager
  BY <1>4 DEF NewScheduler
<1>8. Kept'
  <2>1. cycleOf' \in [Builder!Nodes -> Int]
    BY <1>1 DEF Kept
  <2> QED BY <1>1, <1>6, <2>1, KeptStep DEF Next
<1>9. CASE phase' = "schedule" /\ g = Targeted /\ manager = passOptions.constrained
  BY <1>1, <1>2, <1>6, <1>7, <1>8, <1>9 DEF PassInv, FinalScheduling
<1>10. CASE phase' = "preschedule" /\ g = Reverse(Targeted) /\ manager = FALSE
  BY <1>1, <1>2, <1>6, <1>7, <1>8, <1>10 DEF PassInv, Prescheduling
<1> QED BY <1>4, <1>9, <1>10

LEMMA StepOfConversion ==
  ASSUME PassInv, ConvertCycles
  PROVE  PassInv'
<1>1. /\ Kept /\ GraphOK /\ FinalScheduling /\ outcome = "done" /\ phase' = "done"
      /\ UNCHANGED <<block, weight, passOptions, gates, resources>>
  BY FinishedGraph DEF PassInv, Kept, ConvertCycles, builderVars
<1>2. Scheduled(cycleOf) /\ cycleOf \in [Builder!Nodes -> Int]
  BY <1>1, FinishedRun DEF Scheduled
<1>3. cycleOf[0] <= cycleOf[Sink] /\ cycleOf[0] \in Int /\ 0 \in Builder!Nodes
  <2>1. 0 \in Builder!Nodes /\ Sink \in Builder!Nodes
    BY <1>1 DEF GraphOK
  <2> QED BY <1>1, <1>2, <2>1, Extremes DEF Scheduled
<1>4. {graph.source, graph.sink} = {0, Sink}
  <2>1. graph \in {Built, Reverse(Built)}
    BY <1>1, TurnedGraphs DEF FinalScheduling
  <2>2. /\ Built.source = 0 /\ Built.sink = Sink
        /\ Reverse(Built).source = Sink /\ Reverse(Built).sink = 0
    BY <1>1, ReversedEdges DEF Built, Sink
  <2> QED BY <2>1, <2>2
<1> DEFINE first == IF cycleOf[graph.source] <= cycleOf[graph.sink]
                    THEN cycleOf[graph.source] ELSE cycleOf[graph.sink]
           cycles == [n \in Builder!Nodes |-> cycleOf[n] - cycleOf[0]]
<1>5. first = cycleOf[0]
  <2>1. cycleOf[Sink] \in Int
    BY <1>1, <1>2 DEF GraphOK
  <2> QED BY <1>3, <1>4, <2>1
<1>6. cycleOf' = cycles /\ statements' = Sorted(cycles)
  <2>1. /\ cycleOf' = [n \in DOMAIN cycleOf |-> cycleOf[n] - first]
        /\ statements' = Sorted([n \in DOMAIN cycleOf |-> cycleOf[n] - first])
    BY DEF ConvertCycles
  <2>2. DOMAIN cycleOf = Builder!Nodes
    BY <1>2
  <2> HIDE DEF first
  <2> QED BY <1>5, <2>1, <2>2
<1>7. Scheduled(cycles) /\ cycles[0] = 0 /\ cycles \in [Builder!Nodes -> Int]
  <2>1. \A k \in Int : Scheduled([n \in Builder!Nodes |-> cycleOf[n] - k])
    BY <1>1, <1>2, ScheduledShifted
  <2>2. Scheduled(cycles)
    BY <1>3, <2>1
  <2>3. cycles[0] = 0
    BY <1>3
  <2> HIDE DEF cycles
  <2> QED BY <2>2, <2>3 DEF Scheduled
<1> HIDE DEF cycles, first
<1>8. Scheduled(cycleOf)' /\ cycleOf'[0] = 0
  BY <1>1, <1>6, <1>7, ScheduledStays
<1>9. Sorted(cycleOf)' = Sorted(cycles)
  BY <1>1, <1>6 DEF Sorted
<1>10. Kept'
  <2>1. \E config \in ResourceConfigs, way \in Directions :
          resources'.config = [config EXCEPT !.direction = way]
    BY <1>1 DEF Kept
  <2> QED BY <1>1, <1>6, <1>7, <2>1, KeptStep DEF Next
<1> QED BY <1>1, <1>6, <1>8, <1>9, <1>10 DEF PassInv


LEMMA StartKept == PassInit => PassInv
<1> SUFFICES ASSUME PassInit PROVE PassInv
  OBVIOUS
<1>1. P!BuilderInv /\ P!PrecisionInv
  BY BuilderBegins
<1>2. \E config \in ResourceConfigs, way \in Directions :
        resources.config = [config EXCEPT !.direction = way]
  <2>1. PICK config \in ResourceConfigs : resources = InitialResources(config)
    BY DEF PassInit
  <2>2. /\ config \in [direction : Directions, exclusive : BOOLEAN, overlap : BOOLEAN]
        /\ resources.config = config
    BY <2>1, ProblemsAssumption DEF InitialResources
  <2>3. config.direction \in Directions /\ config = [config EXCEPT !.direction = config.direction]
    BY <2>2
  <2> QED BY <2>2, <2>3
<1>3. /\ passOptions \in PassOptions /\ phase = "build"
      /\ gates = [n \in Builder!Nodes |-> IF n \in DOMAIN block THEN GateOf(block[n]) ELSE NoGate]
      /\ cycleOf \in [Builder!Nodes -> Int]
  BY DEF PassInit
<1> QED BY <1>1, <1>2, <1>3 DEF PassInv, Kept

LEMMA StepOfBuild ==
  ASSUME PassInv, Build
  PROVE  PassInv'
<1>1. Kept /\ phase' = "build" /\ UNCHANGED <<cycleOf, resources>>
  BY DEF PassInv, Build, vars, runVars
<1>2. Kept'
  <2>1. /\ cycleOf' \in [Builder!Nodes -> Int]
        /\ \E config \in ResourceConfigs, way \in Directions :
             resources'.config = [config EXCEPT !.direction = way]
    BY <1>1 DEF Kept
  <2> QED BY <1>1, <2>1, KeptStep DEF Next
<1> QED BY <1>1, <1>2 DEF PassInv

LEMMA NoStep ==
  ASSUME PassInv, UNCHANGED passVars
  PROVE  PassInv'
<1>1. /\ Kept /\ UNCHANGED <<builderVars, vars, runVars>>
      /\ UNCHANGED <<block, weight, passOptions, gates, phase, statements, cycleOf, resources>>
  BY DEF PassInv, passVars, vars, runVars, builderVars
<1>2. CASE phase \in {"preschedule", "schedule"}
  BY <1>1, <1>2, StepOfRun
<1>3. CASE phase \in {"build", "done"}
  <2>1. Kept'
    <3>1. /\ cycleOf' \in [Builder!Nodes -> Int]
          /\ \E config \in ResourceConfigs, way \in Directions :
               resources'.config = [config EXCEPT !.direction = way]
      BY <1>1 DEF Kept
    <3> QED BY <1>1, <3>1, KeptStep
  <2>2. CASE phase = "build"
    BY <1>1, <2>1, <2>2 DEF PassInv
  <2>3. CASE phase = "done"
    <3>1. Scheduled(cycleOf) /\ cycleOf[0] = 0 /\ statements = Sorted(cycleOf)
      BY <2>3 DEF PassInv
    <3>2. Scheduled(cycleOf)'
      BY <1>1, <3>1, ScheduledStays
    <3>3. Sorted(cycleOf)' = Sorted(cycleOf)
      BY <1>1 DEF Sorted
    <3> QED BY <1>1, <2>1, <2>3, <3>1, <3>2, <3>3 DEF PassInv
  <2> QED BY <1>3, <2>2, <2>3
<1> QED BY <1>1, <1>2, <1>3 DEF Kept

LEMMA PassStep == PassInv /\ [Next]_passVars => PassInv'
<1> SUFFICES ASSUME PassInv, [Next]_passVars PROVE PassInv'
  OBVIOUS
<1>1. CASE RunScheduler
  <2>1. UNCHANGED <<builderVars, runVars>> /\ [RunNext]_vars /\ phase \in {"preschedule", "schedule"}
    BY <1>1 DEF RunScheduler
  <2> QED BY <2>1, StepOfRun
<1> QED BY <1>1, StepOfBuild, StepOfConstruction, StepOfConversion, NoStep DEF Next

\* The invariant of the pass: the graph is that of the block at every step, both runs of
\* the scheduler are runs on it, and the cycles that are left behind keep all dependencies,
\* leave no gap that nothing demands, and keep gates on one qubit apart.
THEOREM PassInvariant == Spec => []PassInv
BY StartKept, PassStep, PTL DEF Spec

\* In both runs of the scheduler, the one without resources that measures the paths
\* included, a statement that no resource can refuse starts when its last predecessor ends.
THEOREM RunsAreEarliest == Spec => []RunIsEarliest
<1>1. RunInv => EarliestWhenUnconstrained
  BY RunEarliest
<1>2. PassInv => RunIsEarliest
  BY <1>1 DEF PassInv, Prescheduling, FinalScheduling, Running, RunIsEarliest
<1> QED BY <1>2, PassInvariant, PTL

-----------------------------------------------------------------------------
(* The sorted list.                                                        *)

LEMMA InjectiveOnto ==
  ASSUME NEW D, IsFiniteSet(D), NEW f \in [D -> D], \A x, y \in D : f[x] = f[y] => x = y
  PROVE  \A y \in D : \E x \in D : f[x] = y
<1>1. f \in Injection(D, D)
  BY DEF Injection, IsInjective
<1>2. f \in Surjection(D, D)
  BY <1>1, FS_Injection
<1> QED BY <1>2 DEF Surjection

\* The order of convert_cycles().
Before(c, m, n) == c[m] < c[n] \/ (c[m] = c[n] /\ m < n)
Ahead(c, N, n) == {m \in 1 .. N : Before(c, m, n)}
Rank(c, N, n) == Cardinality(Ahead(c, N, n)) + 1

LEMMA RankFacts ==
  ASSUME NEW N \in Nat, NEW c, \A n \in 1 .. N : c[n] \in Int
  PROVE  /\ \A n \in 1 .. N : Rank(c, N, n) \in 1 .. N
         /\ \A m, n \in 1 .. N : Before(c, m, n) => Rank(c, N, m) < Rank(c, N, n)
<1>1. IsFiniteSet(1 .. N) /\ Cardinality(1 .. N) = N
  BY FS_Interval
<1>2. ASSUME NEW n \in 1 .. N
      PROVE  /\ IsFiniteSet(Ahead(c, N, n)) /\ Cardinality(Ahead(c, N, n)) \in Nat
             /\ n \notin Ahead(c, N, n) /\ Ahead(c, N, n) \subseteq 1 .. N
  <2>1. n \notin Ahead(c, N, n) /\ Ahead(c, N, n) \subseteq 1 .. N
    BY DEF Ahead, Before
  <2> QED BY <1>1, <2>1, FS_Subset, FS_CardinalityType
<1>3. ASSUME NEW n \in 1 .. N, NEW S \in SUBSET (1 .. N), Ahead(c, N, n) \cup {n} \subseteq S
      PROVE  Cardinality(Ahead(c, N, n)) + 1 <= Cardinality(S)
  <2>1. IsFiniteSet(S)
    BY <1>1, FS_Subset
  <2>2. Cardinality(Ahead(c, N, n) \cup {n}) = Cardinality(Ahead(c, N, n)) + 1
    BY <1>2, FS_AddElement
  <2>3. Ahead(c, N, n) \cup {n} \in SUBSET S
    BY <1>3
  <2>4. Cardinality(Ahead(c, N, n) \cup {n}) <= Cardinality(S)
    BY <2>1, <2>3, FS_Subset
  <2> QED BY <2>2, <2>4
<1>4. ASSUME NEW n \in 1 .. N PROVE Rank(c, N, n) \in 1 .. N
  <2>1. Ahead(c, N, n) \cup {n} \subseteq 1 .. N
    BY <1>2
  <2>2. Cardinality(Ahead(c, N, n)) + 1 <= N
    BY <1>1, <1>3, <2>1
  <2> QED BY <1>2, <2>2 DEF Rank
<1>5. ASSUME NEW m \in 1 .. N, NEW n \in 1 .. N, Before(c, m, n)
      PROVE  Rank(c, N, m) < Rank(c, N, n)
  <2>1. \A x \in 1 .. N : Before(c, x, m) => Before(c, x, n)
    BY <1>5 DEF Before
  <2>2. Ahead(c, N, m) \cup {m} \subseteq Ahead(c, N, n) /\ Ahead(c, N, n) \in SUBSET (1 .. N)
    BY <1>5, <2>1 DEF Ahead
  <2>3. Cardinality(Ahead(c, N, m)) + 1 <= Cardinality(Ahead(c, N, n))
    BY <1>3, <2>2
  <2> QED BY <1>2, <2>3 DEF Rank
<1> QED BY <1>4, <1>5

\* There is a list in that order, and it holds every statement once.
LEMMA SortedList ==
  ASSUME NEW N \in Nat, DOMAIN block = 1 .. N, NEW c, \A n \in 1 .. N : c[n] \in Int
  PROVE  LET list == Sorted(c)
         IN /\ list \in [1 .. N -> 1 .. N]
            /\ \A i, j \in 1 .. N : i < j => Before(c, list[i], list[j])
            /\ \A n \in 1 .. N : \E i \in 1 .. N : list[i] = n
            /\ \A i, j \in 1 .. N : list[i] = list[j] => i = j
<1> DEFINE D == 1 .. N
           IsSorted(list) == \A i, j \in D : i < j => Before(c, list[i], list[j])
           rank == [n \in D |-> Rank(c, N, n)]
<1>1. IsFiniteSet(D)
  BY FS_Interval
<1>2. rank \in [D -> D] /\ \A m, n \in D : Before(c, m, n) => rank[m] < rank[n]
  BY RankFacts
<1>3. \A m, n \in D : m = n \/ Before(c, m, n) \/ Before(c, n, m)
  BY DEF Before
<1> HIDE DEF rank
<1>4. \A m, n \in D : rank[m] = rank[n] => m = n
  <2> SUFFICES ASSUME NEW m \in D, NEW n \in D, rank[m] = rank[n] PROVE m = n
    OBVIOUS
  <2>1. rank[m] \in 1 .. N /\ rank[n] \in 1 .. N
    BY <1>2
  <2> QED BY <1>2, <1>3, <2>1
<1>5. \A i \in D : \E n \in D : rank[n] = i
  <2> HIDE DEF D
  <2> QED BY <1>1, <1>2, <1>4, InjectiveOnto
<1> DEFINE place == [i \in D |-> CHOOSE n \in D : rank[n] = i]
<1>6. place \in [D -> D] /\ \A i \in D : rank[place[i]] = i
  BY <1>5
<1>7. IsSorted(place)
  <2> SUFFICES ASSUME NEW i \in D, NEW j \in D, i < j PROVE Before(c, place[i], place[j])
    OBVIOUS
  <2> HIDE DEF place
  <2>1. /\ place[i] \in D /\ place[j] \in D /\ rank[place[i]] = i /\ rank[place[j]] = j
    BY <1>6
  <2>2. place[i] # place[j] /\ ~Before(c, place[j], place[i])
    BY <1>2, <2>1
  <2> QED BY <1>3, <2>1, <2>2
<1> HIDE DEF place
<1>8. Sorted(c) = CHOOSE list \in [D -> D] : IsSorted(list)
  BY DEF Sorted, Before
<1> DEFINE list == CHOOSE l \in [D -> D] : IsSorted(l)
<1>9. list \in [D -> D] /\ IsSorted(list)
  <2> HIDE DEF IsSorted
  <2> QED BY <1>6, <1>7
<1> HIDE DEF list
<1>10. \A i, j \in D : list[i] = list[j] => i = j
  <2> SUFFICES ASSUME NEW i \in D, NEW j \in D, list[i] = list[j], i < j PROVE FALSE
    OBVIOUS
  <2>1. Before(c, list[i], list[i]) /\ list[i] \in D
    BY <1>9
  <2> QED BY <2>1 DEF Before
<1>11. \A n \in D : \E i \in D : list[i] = n
  <2> HIDE DEF D
  <2> QED BY <1>1, <1>9, <1>10, InjectiveOnto
<1> QED BY <1>8, <1>9, <1>10, <1>11 DEF list


-----------------------------------------------------------------------------
(* What the pass promises.                                                 *)

\* What is known of the block when the pass has finished.
LEMMA Afterwards ==
  ASSUME PassInv, Finished
  PROVE  /\ Kept /\ GraphOK /\ Scheduled(cycleOf)
         /\ cycleOf[0] = 0 /\ cycleOf \in [Builder!Nodes -> Int]
         /\ statements = Sorted(cycleOf)
         /\ DOMAIN block = 1 .. (Sink - 1) /\ Sink - 1 \in Nat
         /\ DOMAIN block \subseteq Builder!Nodes
         /\ \A n \in DOMAIN block : cycleOf[n] \in Int
<1>1. /\ Kept /\ Builder!BuildDone /\ Scheduled(cycleOf) /\ cycleOf[0] = 0
      /\ statements = Sorted(cycleOf)
  BY DEF PassInv, Kept, Finished
<1>2. GraphOK
  BY <1>1, FinishedGraph DEF Kept
<1>3. /\ DOMAIN block = 1 .. (Sink - 1) /\ Sink - 1 \in Nat /\ Builder!Nodes = 0 .. Sink
      /\ Sink \in Nat
  BY <1>2 DEF GraphOK
<1>4. cycleOf \in [Builder!Nodes -> Int]
  BY <1>1 DEF Scheduled
<1>5. DOMAIN block \subseteq Builder!Nodes
  BY <1>3
<1> QED BY <1>1, <1>2, <1>3, <1>4, <1>5

\* Its statements are a permutation in the order of the cycles.
LEMMA SortedStatements ==
  ASSUME PassInv, Finished
  PROVE  LET N == Sink - 1
         IN /\ statements \in [1 .. N -> 1 .. N] /\ N \in Nat /\ DOMAIN block = 1 .. N
            /\ \A i, j \in 1 .. N : i < j => Before(cycleOf, statements[i], statements[j])
            /\ \A n \in 1 .. N : \E i \in 1 .. N : statements[i] = n
<1> DEFINE N == Sink - 1
<1>1. /\ N \in Nat /\ DOMAIN block = 1 .. N /\ \A n \in 1 .. N : cycleOf[n] \in Int
      /\ statements = Sorted(cycleOf)
  BY Afterwards
<1> HIDE DEF N
<1>2. /\ statements \in [1 .. N -> 1 .. N]
      /\ \A i, j \in 1 .. N : i < j => Before(cycleOf, statements[i], statements[j])
      /\ \A n \in 1 .. N : \E i \in 1 .. N : statements[i] = n
  <2> DEFINE list == Sorted(cycleOf)
  <2>1. /\ list \in [1 .. N -> 1 .. N]
        /\ \A i, j \in 1 .. N : i < j => Before(cycleOf, list[i], list[j])
        /\ \A n \in 1 .. N : \E i \in 1 .. N : list[i] = n
    BY <1>1, SortedList, Zenon
  <2>2. statements = list
    BY <1>1
  <2> HIDE DEF list
  <2> QED BY <2>1, <2>2
<1> QED BY <1>1, <1>2 DEF N

LEMMA QubitsApart == PassInv => QubitsNeverShared
<1> SUFFICES ASSUME PassInv, Finished, passOptions.constrained,
                    NEW m \in DOMAIN block, NEW n \in DOMAIN block,
                    m # n, OperandsOf(gates[m]) \cap OperandsOf(gates[n]) # {}
             PROVE  \/ cycleOf[m] + block[m].duration <= cycleOf[n]
                    \/ cycleOf[n] + block[n].duration <= cycleOf[m]
  BY DEF QubitsNeverShared
<1>1. Exclusive(cycleOf) /\ m \in Builder!Nodes /\ n \in Builder!Nodes
  BY Afterwards DEF Scheduled
<1>2. gates[m].duration = block[m].duration /\ gates[n].duration = block[n].duration
  <2>1. gates[m] = GateOf(block[m]) /\ gates[n] = GateOf(block[n])
    BY Afterwards, BlockGates
  <2>2. \A s : GateOf(s).duration = s.duration
    BY DEF GateOf
  <2> QED BY <2>1, <2>2
<1> QED BY <1>1, <1>2 DEF Exclusive

\* With resource constraints, two gates on one qubit never overlap in the schedule of the
\* pass, not even gates that commute.
THEOREM QubitsNeverOverlap == Spec => []QubitsNeverShared
BY PassInvariant, QubitsApart, PTL

LEMMA OrderKept == PassInv => ConflictsKeepOrder
<1> SUFFICES ASSUME PassInv, Finished, NEW m \in DOMAIN block, NEW n \in DOMAIN block,
                    m < n, Conflict(m, n)
             PROVE  Place(m) < Place(n) /\ cycleOf[m] + block[m].duration <= cycleOf[n]
  BY DEF ConflictsKeepOrder
<1>1. /\ m \in Builder!Nodes /\ n \in Builder!Nodes /\ cycleOf \in [Builder!Nodes -> Int]
      /\ m \in Int /\ n \in Int
      /\ GraphOK /\ Keeps(cycleOf) /\ cycleOf[m] \in Int /\ cycleOf[n] \in Int
  BY Afterwards DEF Scheduled
<1>2. Reaches(Builder!Nodes, DOMAIN weight, m, n)
  BY <1>1 DEF GraphOK
<1>3. cycleOf[m] + Cycles(m) <= cycleOf[n]
  BY <1>1, <1>2, PathKeeps
<1>4. Cycles(m) = block[m].duration /\ Cycles(m) \in Nat
  BY <1>1 DEF GraphOK
<1>5. Before(cycleOf, m, n) /\ ~Before(cycleOf, n, m)
  BY <1>1, <1>3, <1>4 DEF Before
<1> DEFINE N == Sink - 1
<1>6. /\ statements \in [1 .. N -> 1 .. N] /\ N \in Nat /\ DOMAIN block = 1 .. N
      /\ \A i, j \in 1 .. N : i < j => Before(cycleOf, statements[i], statements[j])
      /\ \A x \in 1 .. N : \E i \in 1 .. N : statements[i] = x
  BY SortedStatements
<1> HIDE DEF N
<1>7. \A x \in DOMAIN block : Place(x) \in 1 .. N /\ statements[Place(x)] = x
  <2> SUFFICES ASSUME NEW x \in DOMAIN block
               PROVE  Place(x) \in 1 .. N /\ statements[Place(x)] = x
    OBVIOUS
  <2>1. \E i \in DOMAIN statements : statements[i] = x
    BY <1>6
  <2>2. Place(x) \in DOMAIN statements /\ statements[Place(x)] = x
    BY <2>1 DEF Place
  <2> QED BY <1>6, <2>2
<1>8. Place(m) < Place(n)
  <2>1. /\ Place(m) \in 1 .. N /\ Place(n) \in 1 .. N
        /\ statements[Place(m)] = m /\ statements[Place(n)] = n
    BY <1>7
  <2>2. Place(m) # Place(n)
    BY <1>1, <2>1
  <2>3. ~(Place(n) < Place(m))
    BY <1>5, <1>6, <2>1
  <2> QED BY <1>6, <2>1, <2>2, <2>3
<1> QED BY <1>3, <1>4, <1>8

\* Two statements that do not commute keep their order in the scheduled block, and the later
\* starts when the earlier is finished: neither pruned edges nor the reversals of the graph
\* nor the resources nor sorting lose a dependency.
THEOREM DependenciesSurvive == Spec => []ConflictsKeepOrder
BY PassInvariant, OrderKept, PTL

LEMMA Normalized == PassInv => CyclesNormalized
<1> SUFFICES ASSUME PassInv, Finished
             PROVE  /\ \A n \in DOMAIN block : n \in {statements[i] : i \in DOMAIN statements}
                    /\ \A i, j \in DOMAIN block :
                         i < j => cycleOf[statements[i]] <= cycleOf[statements[j]]
                    /\ \A n \in DOMAIN block : cycleOf[n] >= 0
                    /\ block # <<>> => \E n \in DOMAIN block : cycleOf[n] = 0
  BY DEF CyclesNormalized
<1>1. /\ GraphOK /\ Scheduled(cycleOf) /\ cycleOf[0] = 0 /\ cycleOf \in [Builder!Nodes -> Int]
      /\ DOMAIN block \subseteq Builder!Nodes /\ \A n \in DOMAIN block : cycleOf[n] \in Int
  BY Afterwards
<1> DEFINE N == Sink - 1
<1>2. /\ statements \in [1 .. N -> 1 .. N] /\ DOMAIN block = 1 .. N
      /\ \A i, j \in 1 .. N : i < j => Before(cycleOf, statements[i], statements[j])
      /\ \A x \in 1 .. N : \E i \in 1 .. N : statements[i] = x
  BY SortedStatements
<1> HIDE DEF N
<1>3. \A n \in DOMAIN block : n \in {statements[i] : i \in DOMAIN statements}
  BY <1>2
<1>4. \A i, j \in DOMAIN block : i < j => cycleOf[statements[i]] <= cycleOf[statements[j]]
  <2> SUFFICES ASSUME NEW i \in DOMAIN block, NEW j \in DOMAIN block, i < j
               PROVE  cycleOf[statements[i]] <= cycleOf[statements[j]]
    OBVIOUS
  <2>1. /\ Before(cycleOf, statements[i], statements[j])
        /\ cycleOf[statements[i]] \in Int /\ cycleOf[statements[j]] \in Int
    BY <1>1, <1>2
  <2> QED BY <2>1 DEF Before
<1>5. \A n \in DOMAIN block : cycleOf[n] >= 0
  <2> SUFFICES ASSUME NEW n \in DOMAIN block PROVE cycleOf[n] >= 0
    OBVIOUS
  <2>1. cycleOf[0] <= cycleOf[n] /\ cycleOf[n] \in Int
    BY <1>1, Extremes DEF Scheduled
  <2> QED BY <1>1, <2>1
<1>6. block # <<>> => \E n \in DOMAIN block : cycleOf[n] = 0
  BY <1>1 DEF Scheduled
<1> QED BY <1>3, <1>4, <1>5, <1>6

\* The scheduled block is what the IR demands: every statement is in it, in the order of the
\* cycles, none of them is negative and the first is zero, forward or backward.
THEOREM ScheduleNormalized == Spec => []CyclesNormalized
BY PassInvariant, Normalized, PTL


\* The ends of what must come before statement n, in the lengths of f.
EndsBefore(f, n) == {f[m] + Cycles(m) : m \in {x \in 0 .. (n - 1) : Conflict(x, n)}}
Until(f, n) ==
  IF n = 0 THEN 0 ELSE CHOOSE e \in EndsBefore(f, n) : \A x \in EndsBefore(f, n) : x <= e
LongestChains == CHOOSE f : f = [n \in Builder!Nodes |-> Until(f, n)]

LEMMA CriticalPathUnfolded == CriticalPathLength = LongestChains[Sink]
BY DEF CriticalPathLength, LongestChains, Until, EndsBefore, Cycles, Sink


\* A set of nodes has a first and a last.
LEMMA FirstAndLast ==
  ASSUME GraphOK, NEW S \in SUBSET Builder!Nodes, S # {}
  PROVE  /\ \E x \in S : \A y \in S : x <= y
         /\ \E x \in S : \A y \in S : y <= x
<1>1. IsFiniteSet(S) /\ S \subseteq Int
  <2>1. Sink \in Nat /\ Builder!Nodes = 0 .. Sink
    BY DEF GraphOK
  <2>2. IsFiniteSet(Builder!Nodes)
    BY <2>1, FS_Interval
  <2>3. IsFiniteSet(S)
    BY <2>2, FS_Subset
  <2>4. S \subseteq Int
    BY <2>1
  <2> QED BY <2>3, <2>4
<1> DEFINE up == [x \in S |-> x]
           down == [x \in S |-> -x]
<1>2. up \in [S -> Int] /\ down \in [S -> Int]
  BY <1>1
<1>3. \E x \in S : \A y \in S : up[y] <= up[x]
  <2> HIDE DEF up
  <2> QED BY <1>1, <1>2, Farthest
<1>4. \E x \in S : \A y \in S : down[y] <= down[x]
  <2> HIDE DEF down
  <2> QED BY <1>1, <1>2, Farthest
<1>5. \A x \in S, y \in S : down[y] <= down[x] => x <= y
  BY <1>1
<1> HIDE DEF down
<1>6. \E x \in S : \A y \in S : x <= y
  BY <1>4, <1>5
<1> QED BY <1>3, <1>6

\* The recursion looks at earlier statements only.
LEMMA UntilDependsOn ==
  ASSUME NEW n \in Nat, NEW f, NEW g, \A m \in 0 .. (n - 1) : f[m] = g[m]
  PROVE  Until(f, n) = Until(g, n)
<1>1. EndsBefore(f, n) = EndsBefore(g, n)
  BY DEF EndsBefore
<1> QED BY <1>1 DEF Until

\* So it has a solution,
LEMMA ChainsSolved ==
  ASSUME GraphOK
  PROVE  LongestChains = [n \in Builder!Nodes |-> Until(LongestChains, n)]
<1> DEFINE solved(k, f) == f = [n \in 0 .. k |-> Until(f, n)]
           S == {k \in Builder!Nodes : ~\E f : solved(k, f)}
<1>1. Sink \in Nat /\ Builder!Nodes = 0 .. Sink
  BY DEF GraphOK
<1>2. S = {}
  <2> SUFFICES ASSUME S # {} PROVE FALSE
    OBVIOUS
  <2>1. PICK k \in S : \A y \in S : k <= y
    <3>1. S \in SUBSET Builder!Nodes
      OBVIOUS
    <3> HIDE DEF S
    <3> QED BY <3>1, FirstAndLast
  <2>2. k \in Nat /\ k \in Builder!Nodes /\ ~\E f : solved(k, f)
    BY <1>1
  <2>3. CASE k = 0
    <3> DEFINE f == [n \in 0 .. 0 |-> 0]
    <3>1. [n \in 0 .. 0 |-> Until(f, n)] = f
      BY DEF Until
    <3> HIDE DEF f
    <3>2. solved(0, f)
      BY <3>1
    <3> QED BY <2>2, <2>3, <3>2
  <2>4. CASE k # 0
    <3>1. k - 1 \in Builder!Nodes /\ k - 1 \notin S
      BY <1>1, <2>1, <2>2, <2>4
    <3>2. PICK g : solved(k - 1, g)
      BY <3>1
    <3> DEFINE f == [n \in 0 .. k |-> Until(g, n)]
    <3>3. \A m \in 0 .. (k - 1) : f[m] = g[m]
      <4>1. \A m \in 0 .. (k - 1) : g[m] = Until(g, m) /\ m \in 0 .. k
        BY <2>2, <3>2
      <4> QED BY <4>1
    <3> HIDE DEF f
    <3>4. \A n \in 0 .. k : Until(f, n) = Until(g, n)
      <4> SUFFICES ASSUME NEW n \in 0 .. k PROVE Until(f, n) = Until(g, n)
        OBVIOUS
      <4>1. n \in Nat /\ \A m \in 0 .. (n - 1) : m \in 0 .. (k - 1)
        BY <2>2
      <4>2. \A m \in 0 .. (n - 1) : f[m] = g[m]
        BY <3>3, <4>1
      <4> QED BY <4>1, <4>2, UntilDependsOn
    <3>5. solved(k, f)
      BY <3>4 DEF f
    <3> QED BY <2>2, <3>5
  <2> QED BY <2>3, <2>4
<1>3. \E f : f = [n \in Builder!Nodes |-> Until(f, n)]
  <2>1. Sink \in Builder!Nodes /\ Sink \notin S
    BY <1>1, <1>2
  <2>2. \E f : solved(Sink, f)
    BY <2>1
  <2> QED BY <1>1, <2>2
<1> QED BY <1>3 DEF LongestChains

\* and every solution is a longest chain.
LEMMA ChainEnds ==
  ASSUME GraphOK, NEW n \in Builder!Nodes \ {0}, NEW f, \A m \in 0 .. (n - 1) : f[m] \in Nat
  PROVE  /\ Until(f, n) \in Nat
         /\ \A m \in 0 .. (n - 1) : Conflict(m, n) => f[m] + Cycles(m) <= Until(f, n)
         /\ \E m \in 0 .. (n - 1) : Conflict(m, n) /\ f[m] + Cycles(m) = Until(f, n)
<1> DEFINE before == {x \in 0 .. (n - 1) : Conflict(x, n)}
           end == [m \in before |-> f[m] + Cycles(m)]
<1>1. n \in Nat /\ n # 0 /\ 0 .. (n - 1) \subseteq Builder!Nodes /\ 0 \in before
  BY DEF GraphOK
<1>2. \A m \in before : f[m] + Cycles(m) \in Nat
  BY <1>1 DEF GraphOK
<1>3. IsFiniteSet(before) /\ before # {}
  <2>1. IsFiniteSet(0 .. (n - 1)) /\ before \subseteq 0 .. (n - 1)
    BY <1>1, FS_Interval
  <2> HIDE DEF before
  <2> QED BY <1>1, <2>1, FS_Subset
<1>4. end \in [before -> Int]
  BY <1>2
<1>5. PICK x \in before : \A y \in before : end[y] <= end[x]
  <2> HIDE DEF before, end
  <2> QED BY <1>3, <1>4, Farthest
<1>6. EndsBefore(f, n) = {end[m] : m \in before}
  BY DEF EndsBefore
<1> HIDE DEF before, end
<1>7. \E e \in EndsBefore(f, n) : \A y \in EndsBefore(f, n) : y <= e
  BY <1>5, <1>6
<1>8. /\ Until(f, n) \in EndsBefore(f, n)
      /\ \A y \in EndsBefore(f, n) : y <= Until(f, n)
  BY <1>1, <1>7 DEF Until
<1> QED BY <1>2, <1>6, <1>8 DEF before, end

LEMMA ChainFacts ==
  ASSUME GraphOK
  PROVE  LET u == LongestChains
         IN /\ u \in [Builder!Nodes -> Nat] /\ u[0] = 0
            /\ \A n \in Builder!Nodes \ {0} :
                 /\ \A m \in 0 .. (n - 1) : Conflict(m, n) => u[m] + Cycles(m) <= u[n]
                 /\ \E m \in 0 .. (n - 1) : Conflict(m, n) /\ u[m] + Cycles(m) = u[n]
<1> DEFINE u == LongestChains
           S == {n \in Builder!Nodes : u[n] \notin Nat}
<1>1. u = [n \in Builder!Nodes |-> Until(u, n)]
  BY ChainsSolved
<1>2. Sink \in Nat /\ Builder!Nodes = 0 .. Sink
  BY DEF GraphOK
<1> HIDE DEF u
<1>3. \A n \in Builder!Nodes : u[n] = Until(u, n)
  BY <1>1
<1>4. u[0] = 0
  BY <1>2, <1>3 DEF Until
<1>5. S = {}
  <2> SUFFICES ASSUME S # {} PROVE FALSE
    OBVIOUS
  <2>1. PICK n \in S : \A y \in S : n <= y
    <3>1. S \in SUBSET Builder!Nodes
      OBVIOUS
    <3> HIDE DEF S
    <3> QED BY <3>1, FirstAndLast
  <2>2. n \in Builder!Nodes \ {0} /\ \A m \in 0 .. (n - 1) : u[m] \in Nat
    BY <1>2, <1>4, <2>1
  <2>3. Until(u, n) \in Nat
    BY <2>2, ChainEnds
  <2> QED BY <1>3, <2>1, <2>2, <2>3
<1>6. \A n \in Builder!Nodes : u[n] \in Nat
  BY <1>5
<1>7. ASSUME NEW n \in Builder!Nodes \ {0}
      PROVE  /\ \A m \in 0 .. (n - 1) : Conflict(m, n) => u[m] + Cycles(m) <= u[n]
             /\ \E m \in 0 .. (n - 1) : Conflict(m, n) /\ u[m] + Cycles(m) = u[n]
  <2>1. \A m \in 0 .. (n - 1) : u[m] \in Nat
    BY <1>2, <1>6
  <2>2. u[n] = Until(u, n)
    BY <1>3
  <2> QED BY <2>1, <2>2, ChainEnds
<1>8. u \in [Builder!Nodes -> Nat]
  BY <1>1, <1>6
<1> QED BY <1>4, <1>7, <1>8 DEF u


\* No schedule that keeps the dependencies is shorter than a chain,
LEMMA ChainsFit ==
  ASSUME GraphOK, NEW c \in [Builder!Nodes -> Int], Keeps(c)
  PROVE  \A n \in Builder!Nodes : LongestChains[n] <= c[n] - c[0]
<1> DEFINE u == LongestChains
           S == {n \in Builder!Nodes : ~(u[n] <= c[n] - c[0])}
<1>1. /\ u \in [Builder!Nodes -> Nat] /\ u[0] = 0
      /\ \A n \in Builder!Nodes \ {0} :
           \E m \in 0 .. (n - 1) : Conflict(m, n) /\ u[m] + Cycles(m) = u[n]
  BY ChainFacts
<1>2. Sink \in Nat /\ Builder!Nodes = 0 .. Sink /\ \A n \in Builder!Nodes : Cycles(n) \in Nat
  BY DEF GraphOK
<1> HIDE DEF u
<1>3. S = {}
  <2> SUFFICES ASSUME S # {} PROVE FALSE
    OBVIOUS
  <2>1. PICK n \in S : \A y \in S : n <= y
    <3>1. S \in SUBSET Builder!Nodes
      OBVIOUS
    <3> HIDE DEF S
    <3> QED BY <3>1, FirstAndLast
  <2>2. n \in Builder!Nodes /\ n # 0 /\ c[0] \in Int /\ c[n] \in Int /\ u[n] \in Nat
    BY <1>1, <1>2, <2>1
  <2>3. PICK m \in 0 .. (n - 1) : Conflict(m, n) /\ u[m] + Cycles(m) = u[n]
    BY <1>1, <2>2
  <2>4. m \in Builder!Nodes /\ m < n /\ m \notin S /\ c[m] \in Int /\ u[m] \in Nat /\ Cycles(m) \in Nat
    BY <1>1, <1>2, <2>1, <2>2, <2>3
  <2>5. Reaches(Builder!Nodes, DOMAIN weight, m, n)
    BY <2>2, <2>3, <2>4 DEF GraphOK
  <2>6. m # n /\ c[m] + Cycles(m) <= c[n]
    BY <2>2, <2>4, <2>5, PathKeeps
  <2>7. u[m] <= c[m] - c[0]
    BY <2>4
  <2>8. u[n] <= c[n] - c[0]
    BY <2>2, <2>3, <2>4, <2>6, <2>7
  <2> QED BY <2>1, <2>8
<1> QED BY <1>3 DEF u

\* and one without gaps is no longer.
LEMMA TightEdge ==
  ASSUME GraphOK, NEW e \in DOMAIN weight
  PROVE  /\ e[1] \in Builder!Nodes /\ e[2] \in Builder!Nodes \ {0} /\ e[1] \in 0 .. (e[2] - 1)
         /\ weight[e] = Cycles(e[1]) /\ weight[e] \in Nat
         /\ LongestChains[e[1]] + weight[e] <= LongestChains[e[2]]
         /\ LongestChains[e[1]] \in Nat /\ LongestChains[e[2]] \in Nat
<1>1. /\ e[1] \in Builder!Nodes /\ e[2] \in Builder!Nodes /\ e[1] < e[2]
      /\ weight[e] = Cycles(e[1]) /\ weight[e] \in Nat /\ Conflict(e[1], e[2])
      /\ Sink \in Nat /\ Builder!Nodes = 0 .. Sink
  BY DEF GraphOK
<1>2. e[2] \in Builder!Nodes \ {0} /\ e[1] \in 0 .. (e[2] - 1)
  BY <1>1
<1> QED BY <1>1, <1>2, ChainFacts

LEMMA TightForward ==
  ASSUME GraphOK, NEW c \in [Builder!Nodes -> Int],
         \A n \in Builder!Nodes \ {0} :
           \E e \in DOMAIN weight : e[2] = n /\ c[e[1]] + weight[e] = c[n]
  PROVE  \A n \in Builder!Nodes : c[n] - c[0] <= LongestChains[n]
<1> DEFINE u == LongestChains
           S == {n \in Builder!Nodes : ~(c[n] - c[0] <= u[n])}
<1>1. u[0] = 0 /\ u \in [Builder!Nodes -> Nat] /\ 0 \in Builder!Nodes
  BY ChainFacts DEF GraphOK
<1> HIDE DEF u
<1>2. S = {}
  <2> SUFFICES ASSUME S # {} PROVE FALSE
    OBVIOUS
  <2>1. PICK n \in S : \A y \in S : n <= y
    <3>1. S \in SUBSET Builder!Nodes
      OBVIOUS
    <3> HIDE DEF S
    <3> QED BY <3>1, FirstAndLast
  <2>2. n \in Builder!Nodes \ {0} /\ c[0] \in Int /\ c[n] \in Int
    BY <1>1, <2>1
  <2>3. PICK e \in DOMAIN weight : e[2] = n /\ c[e[1]] + weight[e] = c[n]
    BY <2>2
  <2>4. /\ e[1] \in Builder!Nodes /\ e[1] \in 0 .. (n - 1) /\ weight[e] \in Nat
        /\ u[e[1]] + weight[e] <= u[n] /\ u[e[1]] \in Nat /\ u[n] \in Nat
    BY <2>3, TightEdge DEF u
  <2>5. n \in Nat
    BY <2>2 DEF GraphOK
  <2>6. e[1] \notin S /\ c[e[1]] \in Int
    BY <2>1, <2>4, <2>5
  <2>7. c[e[1]] - c[0] <= u[e[1]]
    BY <2>4, <2>6
  <2>8. c[n] - c[0] <= u[n]
    BY <2>2, <2>3, <2>4, <2>6, <2>7
  <2> QED BY <2>1, <2>8
<1> QED BY <1>2 DEF u

LEMMA TightBackward ==
  ASSUME GraphOK, NEW c \in [Builder!Nodes -> Int],
         \A n \in Builder!Nodes \ {Sink} :
           \E e \in DOMAIN weight : e[1] = n /\ c[n] + weight[e] = c[e[2]]
  PROVE  \A n \in Builder!Nodes : c[Sink] - c[n] <= LongestChains[Sink] - LongestChains[n]
<1> DEFINE u == LongestChains
           S == {n \in Builder!Nodes : ~(c[Sink] - c[n] <= u[Sink] - u[n])}
<1>1. u \in [Builder!Nodes -> Nat] /\ Sink \in Builder!Nodes
  BY ChainFacts DEF GraphOK
<1> HIDE DEF u
<1>2. S = {}
  <2> SUFFICES ASSUME S # {} PROVE FALSE
    OBVIOUS
  <2>1. PICK n \in S : \A y \in S : y <= n
    <3>1. S \in SUBSET Builder!Nodes
      OBVIOUS
    <3> HIDE DEF S
    <3> QED BY <3>1, FirstAndLast
  <2>2. /\ n \in Builder!Nodes \ {Sink} /\ c[Sink] \in Int /\ c[n] \in Int
        /\ u[Sink] \in Nat /\ u[n] \in Nat
    BY <1>1, <2>1
  <2>3. PICK e \in DOMAIN weight : e[1] = n /\ c[n] + weight[e] = c[e[2]]
    BY <2>2
  <2>4. /\ e[2] \in Builder!Nodes /\ n \in 0 .. (e[2] - 1) /\ weight[e] \in Nat
        /\ u[n] + weight[e] <= u[e[2]] /\ u[e[2]] \in Nat
    BY <2>3, TightEdge DEF u
  <2>5. n \in Nat /\ e[2] \in Nat
    BY <2>2, <2>4 DEF GraphOK
  <2>6. e[2] \notin S /\ c[e[2]] \in Int
    BY <2>1, <2>4, <2>5
  <2>7. c[Sink] - c[e[2]] <= u[Sink] - u[e[2]]
    BY <2>4, <2>6
  <2>8. c[Sink] - c[n] <= u[Sink] - u[n]
    BY <2>2, <2>3, <2>4, <2>6, <2>7
  <2> QED BY <2>1, <2>8
<1> QED BY <1>2 DEF u

LEMMA Shortest == PassInv => ShortestSchedule
<1> SUFFICES ASSUME PassInv, Finished, ~passOptions.constrained
             PROVE  Abs(cycleOf[Builder!SinkOf(block)] - cycleOf[0]) = CriticalPathLength
  BY DEF ShortestSchedule
<1>1. /\ GraphOK /\ cycleOf \in [Builder!Nodes -> Int]
      /\ Keeps(cycleOf) /\ Tight(cycleOf, Builder!Nodes)
  BY Afterwards DEF Scheduled
<1>2. 0 \in Builder!Nodes /\ Sink \in Builder!Nodes
  BY <1>1 DEF GraphOK
<1>3. LongestChains[0] = 0 /\ LongestChains[Sink] \in Nat
  BY <1>1, <1>2, ChainFacts
<1>4. LongestChains[Sink] <= cycleOf[Sink] - cycleOf[0]
  BY <1>1, <1>2, ChainsFit
<1>5. cycleOf[Sink] - cycleOf[0] <= LongestChains[Sink]
  <2>1. CASE Backward
    <3>1. cycleOf[Sink] - cycleOf[0] <= LongestChains[Sink] - LongestChains[0]
      BY <1>1, <1>2, <2>1, TightBackward DEF Tight
    <3> QED BY <1>3, <3>1
  <2>2. CASE ~Backward
    BY <1>1, <1>2, <2>2, TightForward DEF Tight
  <2> QED BY <2>1, <2>2
<1>6. cycleOf[Sink] \in Int /\ cycleOf[0] \in Int
  BY <1>1, <1>2
<1>7. Abs(cycleOf[Sink] - cycleOf[0]) = LongestChains[Sink]
  BY <1>3, <1>4, <1>5, <1>6 DEF Abs
<1> QED BY <1>7, CriticalPathUnfolded DEF Sink

\* Without resource constraints the schedule is as short as the conflicts between the
\* statements allow: ASAP or ALAP, and whichever heuristic picks the next statement.
THEOREM ScheduleIsShortest == Spec => []ShortestSchedule
BY PassInvariant, Shortest, PTL


=============================================================================
