-------------------------------- MODULE Mapper ------------------------------
(***************************************************************************)
(* pass/map/qubits/map/detail/mapper.cc, alter.cc and future.cc:           *)
(* Mapper::map_kernel() on one kernel.  Gates are taken from the front of  *)
(* the dependency graph (Future), two-qubit gates whose qubits are apart   *)
(* are routed by inserting swaps, and everything is put in the output      *)
(* schedule (Past), which is scheduled once more at the end.               *)
(***************************************************************************)
EXTENDS Past

CONSTANTS Jobs    \* the kernels, topologies and options: a set of records

\* The numbers of qubits and registers.
Indices == {x[2] : x \in Objects}

\* A kernel that the mapper can be given: quantum gates, waits among them, have one operand
\* or two, more are a fatal error (future.cc:116).
IsProgram(p) ==
  /\ p \in Seq([id : Nat, name : Names, operands : Seq(Qubits),
                 cregs : Seq(Indices), bregs : Seq(Indices), cond : Seq(Indices)])
  /\ \A n \in DOMAIN p :
       /\ p[n].id = n /\ HasOperands(p[n])
       /\ Len(p[n].operands) \in IF IsClassical(p[n]) THEN {0} ELSE {1, 2}

IsSettings(o) ==
  /\ o.heuristic \in {"base", "base_rc", "min_extend", "min_extend_rc"}
  /\ o.lookahead \in {"1qfirst", "noroutingfirst", "all"}
  /\ o.swaps \in {"one", "all", "earliest"}
  /\ o.tie \in {"first", "last", "random", "critical"}
  /\ {o.reverse, o.moves, o.prep_only_initializes, o.initialized, o.multi, o.single, o.critical} \subseteq BOOLEAN
  /\ o.penalty \in Int

ASSUME JobsAssumption ==
  /\ \A q \in Qubits : Qubit(q) \in Objects
  /\ OwnNames \subseteq Names
  /\ \A j \in Jobs : /\ IsProgram(j.program) /\ IsSettings(j.settings)
                      /\ IsTopology(j.topology) /\ QubitsIn(j.topology) = Qubits

VARIABLES
  job,        \* program (a kernel with virtual qubits), topology, settings (options)
  phase,      \* how far map_kernel() has got: "start", "route", "decompose", "mapped" or "failed"
  future,     \* Future: graph, avlist and scheduled, over the positions in the program
  past,
  circuit,    \* kernel->gates: what the mapper has delivered, gates with their cycles
  position    \* decompose_to_primitives(): the next gate of the circuit

mapperVars == <<job, phase, future, past, circuit, position>>

program  == job.program
settings == job.settings
topology == job.topology

Distance == [t \in {j.topology : j \in Jobs} |-> Distances(t)]

Hops(a, b) == MinHops(topology, Distance[topology], a, b)

InitialMapping ==
  Mapping!NewMapping(TRUE, IF settings.initialized THEN "initialized" ELSE "none")

MapperInit ==
  /\ job \in Jobs
  /\ phase = "start"
  /\ future = [graph |-> EmptyGraph, avlist |-> {}, scheduled |-> {}]
  /\ past = InitialPast(InitialMapping)
  /\ circuit = <<>> /\ position = 1

-----------------------------------------------------------------------------
(* Future.                                                                 *)

\* set_kernel(), which starts with the source available.
SetKernel ==
  LET graph == GraphOf(program, settings)
  IN /\ phase = "start"
     /\ future' = [graph |-> graph, avlist |-> {0}, scheduled |-> {}]
     /\ phase' = IF IsDag(graph) THEN "route" ELSE "failed"
     /\ UNCHANGED <<job, past, circuit, position>>

\* completed_gate() for all of a set of available gates: whatever the order, what the last one
\* needed releases is available in the end.
CompletedGates(f, S) ==
  [f EXCEPT !.avlist = (@ \ S) \cup UNION {Released(f.graph, n, f.scheduled \cup S, "FORWARD") : n \in S},
            !.scheduled = @ \cup S]

CompletedGate(f, n) == CompletedGates(f, {n})

\* avlist is kept in order of criticality; m comes before n.
NotAfter(m, n) ==
  ~LessCritical(m, n, future.graph, Remaining(program, future.graph, "FORWARD"), "FORWARD", settings.critical)

First(S) == {m \in S : \A n \in S : NotAfter(m, n)}

InOrder(S) == {s \in SetToSeqs(S) : \A i, j \in DOMAIN s : i < j => NotAfter(s[i], s[j])}

IsDummy(n) == n \in {0, Sink(program)}

NonQuantum == {n \in future.avlist : IsDummy(n) \/ IsClassical(program[n])}

Bypassed == {n \in NonQuantum : ~IsDummy(n)}

-----------------------------------------------------------------------------
(* map_mappable_gates(): what needs no routing.                            *)

Reals(p, n) == [i \in 1 .. 2 |-> GetReal(p, program[n].operands[i])]

Adjacent(p, n) == Hops(Reals(p, n)[1], Reals(p, n)[2]) = 1

\* Every non-quantum gate that is available goes first.
MapNonQuantum ==
  /\ phase = "route" /\ NonQuantum # {}
  /\ \E list \in InOrder(Bypassed) : past' = Bypass(past, [i \in DOMAIN list |-> program[list[i]]])
  /\ future' = CompletedGates(future, NonQuantum)
  /\ UNCHANGED <<job, phase, circuit, position>>

Single == {n \in future.avlist : IsWait(program[n]) \/ Len(program[n].operands) = 1}

Complete(n) ==
  /\ past' = MapRoutedGate(past, program[n], settings)
  /\ future' = CompletedGate(future, n)
  /\ UNCHANGED <<job, phase, circuit, position>>

MapSingle ==
  /\ phase = "route" /\ NonQuantum = {}
  /\ \E n \in First(Single) : Complete(n)

\* With also_nn_two_qubit_gates.
Neighbours ==
  IF settings.lookahead \in {"noroutingfirst", "all"} THEN {n \in future.avlist : Adjacent(past, n)} ELSE {}

MapNeighbours ==
  /\ phase = "route" /\ NonQuantum = {} /\ Single = {}
  /\ \E n \in First(Neighbours) : Complete(n)

-----------------------------------------------------------------------------
(* Routing: the alternatives for a gate, and the choice of one.            *)

\* gen_shortest_paths(): all paths that stay within the budget.
ShortestPaths(src, tgt) ==
  LET paths[budget \in 0 .. Hops(src, tgt)] ==
        [q \in QubitsIn(topology) |->
           IF q = tgt THEN << <<tgt>> >>
           ELSE LET next == Ascending({n \in NeighborsOf(topology, q) : Distance[topology][<<n, tgt>>] < budget})
                IN FlattenSeq([i \in DOMAIN next |->
                     LET rest == paths[budget - 1][next[i]]
                     IN [j \in DOMAIN rest |-> <<q>> \o rest[j]]])]
  IN paths[Hops(src, tgt)][src]

\* Alter::split(): the gate can be placed at any hop inside a core.
Split(path) ==
  LET rights == Reverse(Ascending({r \in 2 .. Len(path) : ~IsInterCoreHop(topology, path[r - 1], path[r])}))
  IN [i \in DOMAIN rights |->
        [source |-> SubSeq(path, 1, rights[i] - 1), target |-> Reverse(SubSeq(path, rights[i], Len(path)))]]

AltersOf(n) ==
  LET paths == ShortestPaths(Reals(past, n)[1], Reals(past, n)[2])
  IN FlattenSeq([i \in DOMAIN paths |-> Split(paths[i])])

HopsAlong(path) == [i \in 1 .. Len(path) - 1 |-> <<path[i], path[i + 1]>>]

\* Mutant: the last swap, which need not bring the ends closer together.
LastOf(hops) == SubSeq(hops, Largest({1, Len(hops)}), Len(hops))

FirstOf(hops) == SubSeq(hops, 1, Smallest({1, Len(hops)}))

\* Alter::add_swaps(): the swaps of the chosen mode.
SwapsOf(alter, mode, p) ==
  LET source == HopsAlong(alter.source)
      target == HopsAlong(alter.target)
      all    == source \o target
  IN CASE mode = "all" -> all
       [] mode = "one" -> FirstOf(all)
       [] mode = "earliest" ->
            IF source = <<>> \/ target = <<>> THEN FirstOf(all)
            ELSE IF FirstSwapEarliest(p.fc, source[1][1], source[1][2], target[1][1], target[1][2], settings)
                 THEN SubSeq(source, 1, 1) ELSE SubSeq(target, 1, 1)

AddSwaps(p, alter, mode) ==
  LET swaps == SwapsOf(alter, mode, p)
      added[n \in 0 .. Len(swaps)] ==
        IF n = 0 THEN p ELSE AddSwap(added[n - 1], topology, swaps[n][1], swaps[n][2], settings)
  IN ScheduleWaiting(added[Len(swaps)], settings)

\* Alter::extend(): where the circuit would end with all swaps of the alternative.
Extension(alter) == GetMax(AddSwaps(past, alter, "all").fc) - GetMax(past.fc)

TieBreak(alters) ==
  CASE settings.tie \in {"first", "critical"} -> {Head(alters)}
    [] settings.tie = "last" -> {Last(alters)}
    [] settings.tie = "random" -> ToSet(alters)

Best(alters, score) ==
  LET best == Ascending({i \in DOMAIN alters : \A j \in DOMAIN alters : score[i] <= score[j]})
  IN [i \in DOMAIN best |-> alters[best[i]]]

\* select_alter() with recursion_depth_limit 0.
SelectAlter(alters) ==
  IF settings.heuristic \in {"base", "base_rc"} THEN TieBreak(alters)
  ELSE TieBreak(Best(alters, [i \in DOMAIN alters |-> Extension(alters[i])]))

\* Mutant: the gate is mapped whether its qubits are adjacent by now or not.
MapBlindly(swapped, n) ==
  /\ past' = MapRoutedGate(swapped, program[n], settings)
  /\ future' = CompletedGate(future, n)

\* commit_alter(): the gate is mapped if the swaps have brought its qubits together.
MapIfAdjacent(swapped, n) ==
  IF Adjacent(swapped, n)
  THEN past' = MapRoutedGate(swapped, program[n], settings) /\ future' = CompletedGate(future, n)
  ELSE past' = swapped /\ UNCHANGED future

CommitAlter(n, alter) == MapIfAdjacent(AddSwaps(past, alter, settings.swaps), n)

\* map_gates(), when nothing is left but gates to route: the most critical one is, or
\* alternatives are generated for all of them, which asserts that there are none before.
Stuck == phase = "route" /\ NonQuantum = {} /\ Single = {} /\ Neighbours = {} /\ future.avlist # {}

Route ==
  /\ Stuck /\ (settings.lookahead = "all" => Cardinality(future.avlist) = 1)
  /\ \E n \in First(future.avlist) :
       /\ AltersOf(n) # <<>>
       /\ \E alter \in SelectAlter(AltersOf(n)) : CommitAlter(n, alter)
  /\ UNCHANGED <<job, phase, circuit, position>>

\* gen_alters_gate() asserts that there is a way.
RouteNowhere ==
  /\ Stuck /\ (settings.lookahead = "all" => Cardinality(future.avlist) = 1)
  /\ \E n \in First(future.avlist) : AltersOf(n) = <<>>
  /\ phase' = "failed"
  /\ UNCHANGED <<job, future, past, circuit, position>>

RouteAll ==
  /\ Stuck /\ settings.lookahead = "all" /\ Cardinality(future.avlist) > 1
  /\ phase' = "failed"
  /\ UNCHANGED <<job, future, past, circuit, position>>

-----------------------------------------------------------------------------
(* The end of route(), and decompose_to_primitives().                      *)

FinishRoute ==
  /\ phase = "route" /\ future.avlist = {}
  /\ circuit' = FlushAll(past).output
  /\ past' = InitialPast(InitialMapping)
  /\ phase' = "decompose" /\ position' = 1
  /\ UNCHANGED <<job, future>>

Decompose ==
  /\ phase = "decompose" /\ position <= Len(circuit)
  /\ past' = AddAndSchedule(past, circuit[position].gate, settings)
  /\ position' = position + 1
  /\ UNCHANGED <<job, phase, future, circuit>>

FinishDecompose ==
  /\ phase = "decompose" /\ position > Len(circuit)
  /\ circuit' = FlushAll(past).output
  /\ past' = FlushAll(past)
  /\ phase' = "mapped"
  /\ UNCHANGED <<job, future, position>>

MapperNext ==
  \/ SetKernel
  \/ MapNonQuantum \/ MapSingle \/ MapNeighbours \/ Route \/ RouteNowhere \/ RouteAll
  \/ FinishRoute \/ Decompose \/ FinishDecompose

=============================================================================
