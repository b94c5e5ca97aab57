-------------------------------- MODULE Backend -----------------------------
(***************************************************************************)
(* One kernel through the passes that end a typical compilation: the       *)
(* mapper (unless the job leaves it out) and the old scheduler, which      *)
(* schedules what the mapper delivers.  Between passes a kernel is only    *)
(* its list of gates.                                                      *)
(***************************************************************************)
EXTENDS Mapper, OldScheduler

\* A job has a field schedule, the options of the scheduler, and mapped, whether the
\* mapper runs.
ASSUME ScheduleAssumption == \A j \in Jobs :
  /\ j.schedule.target \in {"asap", "alap", "uniform"}
  /\ {j.mapped, j.schedule.multi, j.schedule.single, j.schedule.critical, j.schedule.constrained} \subseteq BOOLEAN
  /\ IsKernel(j.program, j.schedule)

vars == <<mapperVars, schedulerVars>>

SchedulerConfig == [ResourceConfig EXCEPT !.direction = "FORWARD"]

Init ==
  /\ MapperInit
  /\ StartOf(<<>>, job.schedule, SchedulerConfig)

Map ==
  /\ job.mapped
  /\ MapperNext
  /\ UNCHANGED schedulerVars

GatesOf(circ) == [i \in DOMAIN circ |-> circ[i].gate]

\* The scheduler pass starts on the kernel as it is by now.
Hand ==
  /\ outcome = "building" /\ built = 0 /\ kernel = <<>>
  /\ IF job.mapped THEN phase = "mapped" ELSE phase = "start"
  /\ kernel' = IF job.mapped THEN GatesOf(circuit) ELSE program
  /\ kernel' # <<>>
  /\ cycle' = [n \in Nodes(kernel') |-> 0]
  /\ UNCHANGED <<mapperVars, options, graph, built, listVars, uniformVars, sorted, outcome>>

RunScheduler ==
  /\ kernel # <<>>
  /\ SchedulerNext
  /\ UNCHANGED mapperVars

Ended == phase = "failed" \/ outcome \in {"done", "fatal"}

Next == Map \/ Hand \/ RunScheduler \/ (Ended /\ UNCHANGED vars)

Spec == Init /\ [][Next]_vars

-----------------------------------------------------------------------------

(* What the output of the mapper does to the states of the virtual qubits.  A real     *)
(* qubit holds the state of a virtual qubit, |0> or nothing known; the program leaves a *)
(* virtual qubit unused, in |0> or with a state.                                        *)

Zero      == <<"zero">>
Unknown   == <<"unknown">>
StateOf(v) == <<"state", v>>

\* ok: every state was found where it should be and none was overwritten; zeroes: so was
\* |0>, wherever the program or a move relies on it.
Start ==
  [content |-> [r \in Qubits |-> IF settings.initialized THEN Zero ELSE Unknown],
   value   |-> [v \in Qubits |-> IF settings.initialized THEN "zero" ELSE "unused"],
   ok      |-> TRUE, zeroes |-> TRUE]

HasState(s, r) == s.content[r] \notin {Zero, Unknown}

RunProgramGate(s, g) ==
  LET virtual == program[g.id].operands
      zeroes  == settings.prep_only_initializes /\ g.name = "prepz"
      at(q, list) == \E i \in DOMAIN list : list[i] = q
      index(q, list) == CHOOSE i \in DOMAIN list : list[i] = q
      found(i) == IF s.value[virtual[i]] = "live" THEN s.content[g.operands[i]] = StateOf(virtual[i])
                  ELSE ~HasState(s, g.operands[i])
  IN [content |-> [r \in Qubits |-> IF ~at(r, g.operands) THEN s.content[r]
                                    ELSE IF zeroes THEN Zero ELSE StateOf(virtual[index(r, g.operands)])],
      value   |-> [v \in Qubits |-> IF ~at(v, virtual) THEN s.value[v] ELSE IF zeroes THEN "zero" ELSE "live"],
      ok      |-> s.ok /\ \A i \in DOMAIN virtual : found(i),
      zeroes  |-> s.zeroes /\ \A i \in DOMAIN virtual :
                                s.value[virtual[i]] = "zero" => s.content[g.operands[i]] = Zero]

RunInserted(s, g) ==
  LET a == g.operands[1]  b == g.operands[Len(g.operands)]
  IN CASE g.name = "prepz" -> [s EXCEPT !.content[a] = Zero, !.ok = @ /\ ~HasState(s, a)]
       [] g.name \in {"move", "tmove"} ->
            [s EXCEPT !.content = [@ EXCEPT ![b] = s.content[a], ![a] = s.content[b]],
                      !.ok = @ /\ ~HasState(s, b), !.zeroes = @ /\ s.content[b] = Zero]
       [] g.name \in {"swap", "tswap"} ->
            [s EXCEPT !.content = [@ EXCEPT ![b] = s.content[a], ![a] = s.content[b]]]

Replay(gates) ==
  FoldLeft(LAMBDA s, g : IF g.id = 0 THEN RunInserted(s, g) ELSE RunProgramGate(s, g), Start, gates)

\* The gates that are in the output so far.
Output == GatesOf(IF phase = "route" THEN past.output \o past.gates ELSE circuit)

InitializedAreZero(s) ==
  s.zeroes /\ (phase = "route" => \A r \in Qubits : past.map.state[r] = "initialized" => s.content[r] = Zero)

\* With prep_only_initializes a prepz of the program leaves its qubit without a state worth
\* moving.  A swap with another such qubit then makes no gates, only a change of the map
\* (past.cc:425), and the qubit that the next gate finds was never initialised.
Resets == settings.prep_only_initializes /\ \E n \in DOMAIN program : program[n].name = "prepz"

\* Unless the program resets qubits in that way: running what the mapper has delivered so
\* far, every gate of the program finds the states of its virtual qubits in its real
\* operands, whatever swaps, moves and initialisations came between and whatever the
\* schedule reordered; no initialisation or move overwrites a state; the mapper's own
\* account of where states are agrees; and in the end no gate is lost or doubled.  When
\* qubits start in |0>, so do all that the mapper takes to be.
MappingFaithful ==
  job.mapped /\ phase # "failed" /\ ~Resets =>
    LET s == Replay(Output)
    IN /\ s.ok /\ ~past.failed
       /\ phase = "route" => /\ \A v \in Qubits : s.value[v] = "live" => s.content[past.map.real[v]] = StateOf(v)
                             /\ \A r \in Qubits : past.map.state[r] = "live" <=> HasState(s, r)
       /\ settings.initialized => InitializedAreZero(s)
       /\ phase \in {"decompose", "mapped"} =>
            \A n \in DOMAIN program : Cardinality({i \in DOMAIN Output : Output[i].id = n}) = 1

\* "A move is implemented by 2 CNOTs, while a swap is 3 CNOTs, provided the target qubit is
\* in |0> (inited) state": so it is for every move that the mapper inserts.
MovesIntoZero == job.mapped /\ phase # "failed" => Replay(Output).zeroes

\* Every two-qubit gate of the program ends up on a pair of neighbours inside a core, in
\* the direction of the connection; the mapper's own gates use connections, too, in
\* either direction, and between cores only the gates that are made for that.
NearestNeighbours ==
  job.mapped => \A i \in DOMAIN Output :
    ~IsWait(Output[i]) /\ Len(Output[i].operands) = 2 =>
      LET g == Output[i]  a == g.operands[1]  b == g.operands[2]
      IN /\ b \in NeighborsOf(topology, a) \/ (g.id = 0 /\ a \in NeighborsOf(topology, b))
         /\ IsInterCoreHop(topology, a, b) <=> (g.id = 0 /\ g.name \in {"tswap", "tmove"})

\* The dependencies that FreeCycle knows: through a qubit, or a bit that the first writes.
KnownToPast(g, h, o) ==
  /\ InConflict(g, h, o)
  /\ ToSet(QubitsOf(g)) \cap ToSet(QubitsOf(h)) # {}
     \/ ToSet(BregsOf(g)) \cap ToSet(BregsOf(h) \o CondOf(h)) # {}

PlaceIn(n) == CHOOSE i \in DOMAIN circuit : circuit[i].gate.id = n

Kept(m, n) ==
  /\ PlaceIn(m) < PlaceIn(n)
  /\ circuit[PlaceIn(m)].cycle + Duration[program[m].name] <= circuit[PlaceIn(n)].cycle

\* Nor are the gates of such a qubit kept in order, on different real qubits as they are.
\* Otherwise the mapper only reorders gates that commute: of two gates that share a qubit,
\* or a bit that the first one writes, the second still starts after the first has ended.
DependenciesKept ==
  phase = "mapped" /\ ~Resets => \A m, n \in DOMAIN program :
    m < n /\ KnownToPast(program[m], program[n], settings) => Kept(m, n)

\* The passes do not work forever: from some point on nothing changes any more, which,
\* as none of them gets stuck, is when they have ended.  In particular every swap that
\* the mapper commits to brings it closer to a gate it can map.
CompilationEnds == <>[][FALSE]_vars

=============================================================================
