---------------------------- MODULE ListScheduler ---------------------------
(***************************************************************************)
(* com/sch/scheduler.h: the list scheduler.  It walks a data dependency    *)
(* graph from its source and assigns cycles away from zero, upwards for a  *)
(* forward graph (ASAP), downwards for a reversed one (ALAP).              *)
(*                                                                         *)
(* ApiNext lets a caller drive the object: try_schedule() of any statement *)
(* and advance() in any order.  RunNext is run(), which picks the most     *)
(* critical statement that fits and gives up when the resources seem to be *)
(* deadlocked.                                                             *)
(***************************************************************************)
EXTENDS DdgGraph, Resources

CONSTANTS Problems,                \* graphs with, per node, the gate of its statement
          Heuristics,              \* values of scheduler_heuristic
          ResourceConfigs,         \* instrument switches for the resources that are built
          Criticalities,           \* annotations DeepCriticality::compute() may have left
          MaxResourceBlockCycles,  \* max_resource_block_cycles
          MaxCycle                 \* bound on the distance from cycle 0

VARIABLES
  graph,         \* the Graph and Node annotations
  gates,         \* per node, what the resources see of its statement
  constrained,   \* whether a resource manager was passed
  heuristic,     \* the HeuristicComparator
  criticality,   \* the DeepCriticality annotations, as sequences of path lengths
  cycleOf,       \* statement->cycle
  cycle,         \* the current cycle
  scheduled, available, waiting,
  availableIn,   \* available_in: pairs <<cycle, statement>>
  resources,     \* resource_state
  blocked,       \* advanced: cycles spent waiting for the resources
  outcome        \* "running", "done", "deadlock" or "failed" (an assertion or exception)

vars == <<graph, gates, constrained, heuristic, criticality, cycleOf, cycle, scheduled,
          available, waiting, availableIn, resources, blocked, outcome>>
inputs == <<graph, gates, constrained, heuristic, criticality>>

Outcomes == {"running", "done", "deadlock", "failed"}

IsGraph(g) ==
  /\ g.direction \in {-1, 1}
  /\ g.source \in DOMAIN g.order /\ g.sink \in DOMAIN g.order /\ g.source # g.sink
  /\ \A n \in DOMAIN g.order : g.order[n] \in Int
  /\ \A m, n \in DOMAIN g.order : g.order[m] = g.order[n] => m = n
  /\ \A e \in Edges(g) : /\ e \in (DOMAIN g.order) \X (DOMAIN g.order)
                         /\ g.order[e[1]] < g.order[e[2]]
                         /\ g.weight[e] \in Int /\ g.direction * g.weight[e] >= 0
  /\ \A n \in DOMAIN g.order : Predecessors(g, n) = {} <=> n = g.source
  /\ IsFiniteSet(DOMAIN g.order)

\* The sentinels are not custom instructions, so no resource has anything to say of them.
IsIdle(gate) == gate.qubits = <<>> /\ ~gate.instrumented /\ ~gate.channelled

ASSUME ProblemsAssumption ==
  /\ \A p \in Problems : /\ IsGraph(p.graph) /\ DOMAIN p.gates = DOMAIN p.graph.order
                          /\ IsIdle(p.gates[p.graph.source])
  /\ ResourceConfigs \subseteq [direction : Directions, exclusive : BOOLEAN, overlap : BOOLEAN]
  /\ MaxResourceBlockCycles \in Nat /\ MaxCycle \in Nat
  /\ MIN < -MaxCycle /\ MaxCycle < MAX

Nodes == DOMAIN graph.order

Abs(a) == IF a < 0 THEN -a ELSE a

-----------------------------------------------------------------------------
(* Criticality (heuristics.cc) and the order of the available list.        *)

\* DeepCriticality::operator<: compare path lengths along the most critical
\* dependents until they differ or one of the two chains ends.
LessCritical(a, b) ==
  \E k \in 0 .. Len(a) :
    /\ k <= Len(b) /\ \A i \in 1 .. k : a[i] = b[i]
    /\ \/ k < Len(a) /\ k < Len(b) /\ a[k + 1] < b[k + 1]
       \/ k = Len(a) /\ k < Len(b)

MoreCritical(m, n, cycles) ==
  \/ heuristic = "critical_path" /\ Abs(cycles[m]) > Abs(cycles[n])
  \/ heuristic = "deep_criticality" /\ LessCritical(criticality[n], criticality[m])

ListedBefore(m, n, cycles) ==
  \/ MoreCritical(m, n, cycles)
  \/ ~MoreCritical(n, m, cycles) /\ graph.order[m] < graph.order[n]

\* Whether std::set can still find an element of available whose place in the order
\* may have moved: certainly when it has not, otherwise it depends on the shape of
\* the tree, which depends on the order of insertion.
EraseFinds(n, cycles) ==
  IF \A a \in available \ {n} : ListedBefore(n, a, cycleOf) <=> ListedBefore(n, a, cycles)
    THEN {TRUE} ELSE BOOLEAN

-----------------------------------------------------------------------------

StartAvailable ==
  /\ cycle = 0
  /\ scheduled = {}
  /\ available = {graph.source}
  /\ waiting = Nodes \ {graph.source}
  /\ availableIn = {}
  /\ blocked = 0
  /\ outcome = "running"

ResourcesFor(g, config) ==
  InitialResources([config EXCEPT !.direction = IF g.direction > 0 THEN "FORWARD" ELSE "BACKWARD"])

Init ==
  /\ \E p \in Problems : graph = p.graph /\ gates = p.gates
  /\ heuristic \in Heuristics
  /\ constrained \in BOOLEAN
  /\ criticality \in (IF heuristic = "deep_criticality" THEN Criticalities ELSE {[n \in Nodes |-> <<>>]})
  /\ cycleOf = [n \in Nodes |-> 0]
  /\ \E config \in ResourceConfigs : resources = ResourcesFor(graph, config)
  /\ StartAvailable

\* Without a manager the state of the resources is empty: everything is available.
ResourcesAllow(n) == constrained => Available(resources, cycle, gates[n])

\* Mutant: the largest instead of the farthest cycle.
LargestFrom(g, n, cycles) ==
  LET froms == {0} \cup {cycles[p] + g.weight[<<p, n>>] : p \in Predecessors(g, n)}
  IN CHOOSE c \in froms : \A d \in froms : d <= c

AvailableFrom(g, n, cycles) ==
  LET froms == {0} \cup {cycles[p] + g.weight[<<p, n>>] : p \in Predecessors(g, n)}
  IN CHOOSE c \in froms : \A d \in froms : Abs(d) <= Abs(c)

\* Mutants: stay in a cycle with an empty list; go to the farthest batch.
NoBatch(batches) == {}
LastBatch(batches) == {b \in batches : \A x \in batches : Abs(b[1]) >= Abs(x[1])}

\* The batches at the front of available_in.
FirstBatch(batches) == {b \in batches : \A x \in batches : Abs(b[1]) <= Abs(x[1])}

\* schedule().
Schedule(n) ==
  LET cycles    == [cycleOf EXCEPT ![n] = cycle]
      done      == scheduled \cup {n}
      unblocked == {s \in Successors(graph, n) : Predecessors(graph, s) \subseteq done}
      now       == {s \in unblocked : AvailableFrom(graph, s, cycles) = cycle}
      listed    == (available \ {n}) \cup now
      batches   == availableIn \cup {<<AvailableFrom(graph, s, cycles), s>> : s \in unblocked \ now}
      front     == IF listed = {} THEN FirstBatch(batches) ELSE {}
  IN /\ cycleOf' = cycles
     /\ resources' = IF constrained THEN Reserve(resources, cycle, gates[n]) ELSE resources
     /\ scheduled' = done
     /\ waiting' = waiting \ unblocked
     /\ available' = listed \cup {b[2] : b \in front}
     /\ availableIn' = batches \ front
     /\ cycle' = IF front = {} THEN cycle ELSE (CHOOSE b \in front : TRUE)[1]
     /\ \E found \in EraseFinds(n, cycles) :
          outcome' = IF /\ found /\ ResourcesAllow(n) /\ n \notin scheduled
                        /\ unblocked \subseteq waiting
                        /\ now \cap (available \ {n}) = {}
                     THEN "running" ELSE "failed"

\* The constructor ends by scheduling the source.
Construct ==
  /\ outcome = "running" /\ scheduled = {}
  /\ Schedule(graph.source)
  /\ UNCHANGED <<inputs, blocked>>

\* Mutant: the resources are not asked before they are reserved.
TryUnasked(n) ==
  /\ outcome = "running" /\ scheduled # {}
  /\ n \in available
  /\ Schedule(n)
  /\ blocked' = 0
  /\ UNCHANGED inputs

TrySchedule(n) ==
  /\ outcome = "running" /\ scheduled # {}
  /\ n \in available /\ ResourcesAllow(n)
  /\ Schedule(n)
  /\ blocked' = 0
  /\ UNCHANGED inputs

\* Mutant: advance without looking at available_in.
AdvanceBlindly ==
  /\ cycle' = cycle + graph.direction
  /\ UNCHANGED <<inputs, cycleOf, scheduled, waiting, resources, available, availableIn>>

\* advance() by one cycle, the only distance it is called with.
AdvanceCycle ==
  LET due == {b \in availableIn : b[1] = cycle + graph.direction}
  IN /\ cycle' = cycle + graph.direction
     /\ available' = available \cup {b[2] : b \in due}
     /\ availableIn' = availableIn \ due
     /\ UNCHANGED <<inputs, cycleOf, scheduled, waiting, resources>>

IsDone == available = {} /\ availableIn = {} /\ waiting = {}

Advance ==
  /\ outcome = "running" /\ scheduled # {}
  /\ Abs(cycle) < MaxCycle
  /\ AdvanceCycle
  /\ UNCHANGED <<blocked, outcome>>

ApiNext == Construct \/ (\E n \in Nodes : TrySchedule(n)) \/ Advance

ApiSpec == Init /\ [][ApiNext]_vars

-----------------------------------------------------------------------------
(* run().                                                                  *)

Fitting == {n \in available : ResourcesAllow(n)}

RunSchedule(n) ==
  /\ n \in Fitting
  /\ \A m \in Fitting \ {n} : ListedBefore(n, m, cycleOf)
  /\ TrySchedule(n)

RunBlocked ==
  /\ outcome = "running" /\ scheduled # {}
  /\ available # {} /\ Fitting = {}
  /\ AdvanceCycle
  /\ blocked' = blocked + 1
  /\ outcome' = IF MaxResourceBlockCycles > 0 /\ blocked' > MaxResourceBlockCycles
                THEN "deadlock" ELSE "running"

\* The loop ends when is_done(), which asserts that nothing got lost; otherwise the loop
\* asserts that something is available.
RunDone ==
  /\ outcome = "running" /\ scheduled # {} /\ available = {}
  /\ outcome' = IF IsDone /\ scheduled = Nodes THEN "done" ELSE "failed"
  /\ UNCHANGED <<inputs, cycleOf, cycle, scheduled, available, waiting, availableIn, resources, blocked>>

RunNext == Construct \/ (\E n \in Nodes : RunSchedule(n)) \/ RunBlocked \/ RunDone

RunSpec == Init /\ [][RunNext]_vars /\ WF_vars(RunNext)

-----------------------------------------------------------------------------
(* Properties.                                                             *)

\* graph.direction * a: how far a cycle is from zero in the direction of scheduling.
Distance(c) == graph.direction * c

TypeOK ==
  /\ scheduled \subseteq Nodes /\ available \subseteq Nodes /\ waiting \subseteq Nodes
  /\ availableIn \subseteq Int \X Nodes
  /\ cycleOf \in [Nodes -> Int] /\ cycle \in Int /\ Distance(cycle) >= 0
  /\ blocked \in Nat /\ outcome \in Outcomes

\* No assertion of the scheduler fails and no reservation throws.
NoAssertionFails == outcome # "failed"

\* Every statement is in exactly one of the four collections, and in the one its
\* predecessors put it in: waiting as long as one of them has not been scheduled,
\* after that available from the exact cycle in which the last of them is finished.
ListedWhenReady ==
  outcome = "running" /\ scheduled # {} =>
    \A n \in Nodes \ scheduled :
      LET ready == Predecessors(graph, n) \subseteq scheduled
      IN /\ n \in waiting <=> ~ready
         /\ n \in available <=> ready /\ Distance(AvailableFrom(graph, n, cycleOf)) <= Distance(cycle)
         /\ <<AvailableFrom(graph, n, cycleOf), n>> \in availableIn
              <=> ready /\ Distance(AvailableFrom(graph, n, cycleOf)) > Distance(cycle)

\* Once started, the list only runs empty when all is scheduled: no loop over the
\* scheduler ever finds statements left and none of them within reach.
NeverStuck ==
  outcome = "running" /\ scheduled # {} => (available = {} => scheduled = Nodes)

\* A statement starts after everything it depends on has finished.
PrecedenceRespected ==
  \A e \in Edges(graph) : e[2] \in scheduled =>
    /\ e[1] \in scheduled
    /\ Distance(cycleOf[e[1]] + graph.weight[e]) <= Distance(cycleOf[e[2]])

Promise == INSTANCE Schedule WITH problem <- graph, start <- [n \in scheduled |-> cycleOf[n]]

\* Every run of the scheduler is a schedule: cycles are assigned once, in the order of
\* the direction, after all predecessors.
ImplementsSchedule == Promise!Spec

\* Without resources run() is optimal: every statement starts in the very cycle in
\* which the last of its predecessors is finished.
EarliestWhenUnconstrained ==
  ~constrained => \A n \in scheduled \ {graph.source} :
    \E p \in Predecessors(graph, n) : cycleOf[n] = cycleOf[p] + graph.weight[<<p, n>>]

-----------------------------------------------------------------------------
(* The inductive invariant behind the safety properties.                   *)

Ready == {n \in Nodes \ scheduled : Predecessors(graph, n) \subseteq scheduled}

From(n) == AvailableFrom(graph, n, cycleOf)

\* ListedWhenReady, as equations, from before the source is scheduled.
Collections ==
  outcome = "running" =>
    /\ waiting = (Nodes \ scheduled) \ Ready
    /\ available = {n \in Ready : Distance(From(n)) <= Distance(cycle)}
    /\ availableIn = {<<From(n), n>> : n \in {m \in Ready : Distance(From(m)) > Distance(cycle)}}

\* Time only moves away from zero.
CyclesBehind ==
  \A n \in scheduled : 0 <= Distance(cycleOf[n]) /\ Distance(cycleOf[n]) <= Distance(cycle)

BeforeConstruct == scheduled = {} => cycle = 0 /\ ResourcesAllow(graph.source)

SchedInv ==
  /\ TypeOK
  /\ IsGraph(graph) /\ heuristic \in Heuristics
  /\ BeforeConstruct
  /\ CyclesBehind
  /\ PrecedenceRespected
  /\ Collections
  /\ NeverStuck

=============================================================================
