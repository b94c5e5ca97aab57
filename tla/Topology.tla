------------------------------- MODULE Topology -----------------------------
(***************************************************************************)
(* com/topology.cc: which qubits are neighbours and how far apart qubits   *)
(* are, in a chip of one core with given edges or of several fully         *)
(* connected cores.  A topology is a record: qubits (their number), cores, *)
(* comm (communication qubits per core), full (connectivity FULL instead   *)
(* of SPECIFIED) and edges (directed pairs, for SPECIFIED).                *)
(***************************************************************************)
EXTENDS Integers, Sequences, FiniteSets

QubitsIn(t) == 0 .. t.qubits - 1

\* utils::MAX: the distance of qubits that are not connected.
Unreachable == 1000

\* Multi-core topologies and SPECIFIED connectivity exclude each other.
IsTopology(t) ==
  /\ t.qubits \in Nat \ {0} /\ t.cores \in Nat \ {0} /\ t.full \in BOOLEAN
  /\ t.qubits % t.cores = 0
  /\ t.comm \in 1 .. (t.qubits \div t.cores)
  /\ t.edges \subseteq QubitsIn(t) \X QubitsIn(t)
  /\ t.cores > 1 => t.full

\* get_core_index().
CoreIndex(t, q) == q \div (t.qubits \div t.cores)

\* The index "local to the core" is taken modulo the number of cores.
IsCommQubit(t, q) == t.cores = 1 \/ q % t.cores < t.comm

IsInterCoreHop(t, a, b) == CoreIndex(t, a) # CoreIndex(t, b)

\* generate_neighbors_list() for FULL, the given edges otherwise.
FullNeighbors(t, a) ==
  {b \in QubitsIn(t) \ {a} : IsInterCoreHop(t, a, b) => IsCommQubit(t, a) /\ IsCommQubit(t, b)}

NeighborsOf(t, a) == IF t.full THEN FullNeighbors(t, a) ELSE {b \in QubitsIn(t) : <<a, b>> \in t.edges}

\* Floyd-Warshall: shortest[k] only goes through qubits below k.
SpecifiedDistances(t) ==
  LET shortest[k \in 0 .. t.qubits] ==
        IF k = 0
        THEN [p \in QubitsIn(t) \X QubitsIn(t) |->
                IF p[1] = p[2] THEN 0 ELSE IF p[2] \in NeighborsOf(t, p[1]) THEN 1 ELSE Unreachable]
        ELSE LET d == shortest[k - 1]
             IN [p \in QubitsIn(t) \X QubitsIn(t) |->
                   IF d[p] > d[<<p[1], k - 1>>] + d[<<k - 1, p[2]>>]
                   THEN d[<<p[1], k - 1>>] + d[<<k - 1, p[2]>>] ELSE d[p]]
  IN shortest[t.qubits]

FullDistance(t, a, b) ==
  IF a = b THEN 0
  ELSE IF ~IsInterCoreHop(t, a, b) THEN 1
  ELSE 1 + Cardinality({q \in {a, b} : ~IsCommQubit(t, q)})

\* get_distance(), for all pairs at once.
Distances(t) ==
  IF t.full THEN [p \in QubitsIn(t) \X QubitsIn(t) |-> FullDistance(t, p[1], p[2])]
  ELSE SpecifiedDistances(t)

CoreDistance(t, a, b) == IF IsInterCoreHop(t, a, b) THEN 1 ELSE 0

\* get_min_hops(): a two-qubit gate needs a hop inside a core.
MinHops(t, distances, a, b) ==
  IF CoreDistance(t, a, b) = distances[<<a, b>>] THEN distances[<<a, b>>] + 2 ELSE distances[<<a, b>>]

=============================================================================
