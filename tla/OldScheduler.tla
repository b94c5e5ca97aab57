----------------------------- MODULE OldScheduler ---------------------------
(***************************************************************************)
(* pass/sch/schedule: Scheduler on one kernel of old-IR gates.  The graph  *)
(* is built gate by gate; then the kernel is scheduled at once (ASAP or    *)
(* ALAP without resources), by critical-path list scheduling with          *)
(* resources in either direction, or uniformly, by moving gates of an ASAP *)
(* schedule to later cycles.                                               *)
(***************************************************************************)
EXTENDS DepGraph, Resources

CONSTANTS ALAP_SINK_CYCLE   \* the cycle of the sink in backward scheduling, before the shift

ASSUME SinkCycleAssumption == ALAP_SINK_CYCLE \in Int

\* A kernel that can be scheduled: its gates act on qubits that exist, and none acts on nothing.
IsKernel(k, o) ==
  /\ k \in Seq(ToSet(k))
  /\ \A n \in DOMAIN k :
       /\ HasOperands(k[n]) /\ EventsOf(k[n], o) # <<>>
       /\ k[n].operands \in Seq(Qubits)
       /\ IsClassical(k[n]) => k[n].operands = <<>>

VARIABLES
  kernel,       \* kernel->gates, a gate's position being its node
  options,      \* multi, single (commutation), critical, constrained and target
  graph,        \* graph and the state machines that make it
  built,        \* the gates that are in the graph
  cycle,        \* node -> gate->cycle
  curr_cycle,
  avlist,       \* avlist, whose order criticality_lessthan() determines
  scheduled,
  resources,    \* rs
  gates_per_cycle, pred_cycle, gates_to_go,   \* the uniform scheduler's bundles and counters
  sorted,       \* kernel->gates after scheduling, as nodes
  outcome       \* "building", "listing", "uniform", "done" or "fatal"

graphVars   == <<kernel, options, graph, built>>
listVars    == <<curr_cycle, avlist, scheduled, resources>>
uniformVars == <<gates_per_cycle, pred_cycle, gates_to_go>>
schedulerVars == <<graphVars, cycle, listVars, uniformVars, sorted, outcome>>

Direction == IF options.target = "alap" THEN "BACKWARD" ELSE "FORWARD"

End == Sink(kernel)

StartOf(k, o, config) ==
  /\ kernel = k /\ options = o
  /\ graph = EmptyGraph /\ built = 0
  /\ cycle = [n \in Nodes(k) |-> 0]
  /\ curr_cycle = 0 /\ avlist = {} /\ scheduled = {}
  /\ resources = InitialResources(config)
  /\ gates_per_cycle = <<>> /\ pred_cycle = 0 /\ gates_to_go = 0
  /\ sorted = <<>> /\ outcome = "building"

-----------------------------------------------------------------------------
(* init().                                                                 *)

InitGate ==
  /\ outcome = "building" /\ built < Len(kernel)
  /\ graph' = AddGate(graph, built + 1, kernel[built + 1], options)
  /\ built' = built + 1
  /\ UNCHANGED <<kernel, options, cycle, listVars, uniformVars, sorted, outcome>>

\* The sink closes the graph, and scheduling starts: schedule() makes the source (or the
\* sink) available, schedule_alap_uniform() starts from the ASAP schedule.
Closed == AddSink(graph, End)

\* All gates by cycle, gates of one cycle in the order of the kernel.
ByCycle(cycles) ==
  LET before(m, n) == cycles[m] < cycles[n] \/ (cycles[m] = cycles[n] /\ m < n)
  IN [i \in DOMAIN kernel |->
        CHOOSE n \in DOMAIN kernel : Cardinality({m \in DOMAIN kernel : before(m, n)}) = i - 1]

AlapCycles(g) ==
  LET alap[n \in Nodes(kernel)] ==
        Smallest({ALAP_SINK_CYCLE} \cup {alap[m] - DurationOf(kernel, n) : m \in After(g, n)})
  IN alap

\* Mutant: cycles relative to the first gate.
ShiftedToGates(cycles) ==
  [n \in DOMAIN cycles |-> cycles[n] - Smallest({cycles[m] : m \in DOMAIN cycles \ {0}})]

\* Backward scheduling ends by moving the source to cycle 0.
Shifted(cycles) == [n \in DOMAIN cycles |-> cycles[n] - cycles[0]]

StartUnconstrained(g) ==
  LET cycles == IF options.target = "asap" THEN AsapCycles(kernel, g) ELSE Shifted(AlapCycles(g))
  IN /\ options.target # "uniform" /\ ~options.constrained
     /\ cycle' = cycles /\ sorted' = ByCycle(cycles)
     /\ outcome' = "done"
     /\ UNCHANGED <<listVars, uniformVars>>

StartListing(g) ==
  LET start == IF options.target = "asap" THEN 0 ELSE ALAP_SINK_CYCLE
  IN /\ options.target # "uniform" /\ options.constrained
     /\ curr_cycle' = start
     /\ avlist' = {IF options.target = "asap" THEN 0 ELSE End}
     /\ cycle' = [n \in Nodes(kernel) |-> start]
     /\ scheduled' = {}
     /\ resources' = InitialResources([resources.config EXCEPT !.direction = Direction])
     /\ outcome' = "listing"
     /\ UNCHANGED <<uniformVars, sorted>>

CycleCount(cycles) == cycles[End] - 1

StartUniform(g) ==
  LET cycles == AsapCycles(kernel, g)
      count  == CycleCount(cycles)
  IN /\ options.target = "uniform" /\ ~options.constrained
     /\ cycle' = cycles
     /\ gates_per_cycle' = [c \in 1 .. Largest({count} \cup {cycles[n] : n \in DOMAIN kernel}) |->
                              Ascending({n \in DOMAIN kernel : cycles[n] = c})]
     /\ curr_cycle' = count /\ pred_cycle' = count - 1
     /\ gates_to_go' = Cardinality({n \in DOMAIN kernel : cycles[n] <= count})
     /\ outcome' = "uniform"
     /\ UNCHANGED <<avlist, scheduled, resources, sorted>>

\* A graph with a cycle is refused, and so is uniform scheduling with resources.
Refused == ~IsDag(Closed) \/ (options.target = "uniform" /\ options.constrained)

FinishInit ==
  /\ outcome = "building" /\ built = Len(kernel)
  /\ graph' = Closed
  /\ IF Refused THEN outcome' = "fatal" /\ UNCHANGED <<cycle, listVars, uniformVars, sorted>>
     ELSE StartUnconstrained(Closed) \/ StartListing(Closed) \/ StartUniform(Closed)
  /\ UNCHANGED <<kernel, options, built>>

-----------------------------------------------------------------------------
(* schedule().                                                             *)

IsSentinel(n) == n \in {0, End}

TakesResources(n) == ~IsSentinel(n) /\ ~IsClassical(kernel[n]) /\ ~IsWait(kernel[n])

\* rmgr/resource_types/base.cc: what the resources see of an old-IR gate.
GateData(gate) ==
  [qubits |-> gate.operands, duration |-> Duration[gate.name], function |-> gate.name,
   instrumented |-> Len(gate.operands) = 1, channelled |-> FALSE]

OperandsComplete(n) ==
  IF Direction = "FORWARD" THEN cycle[n] <= curr_cycle ELSE curr_cycle <= cycle[n]

ImmediatelySchedulable(n) ==
  /\ OperandsComplete(n)
  /\ TakesResources(n) => Available(resources, curr_cycle, GateData(kernel[n]))

\* select_available(): gates without duration first, then the most critical.
Selectable ==
  LET fitting == {n \in avlist : ImmediatelySchedulable(n)}
      instant == {n \in fitting : ~IsSentinel(n) /\ Duration[kernel[n].name] = 0}
      first   == IF instant = {} THEN fitting ELSE instant
      remaining == Remaining(kernel, graph, Direction)
  IN {n \in first : \A m \in first :
        ~LessCritical(n, m, graph, remaining, Direction, options.critical)}

\* set_cycle_gate(), when all it needs has been scheduled.
EarliestFrom(n, cycles) ==
  IF Direction = "FORWARD"
  THEN Largest({0} \cup {cycles[m] + DurationOf(kernel, m) : m \in Before(graph, n)})
  ELSE Smallest({ALAP_SINK_CYCLE} \cup {cycles[m] - DurationOf(kernel, n) : m \in After(graph, n)})

Schedule(n) ==
  LET released == Released(graph, n, scheduled, Direction)
      now      == [cycle EXCEPT ![n] = curr_cycle]
  IN /\ n \in Selectable
     /\ scheduled' = scheduled \cup {n}
     /\ avlist' = (avlist \ {n}) \cup released
     /\ cycle' = [m \in DOMAIN cycle |-> IF m \in released THEN EarliestFrom(m, now) ELSE now[m]]
     /\ resources' = IF TakesResources(n) THEN Reserve(resources, curr_cycle, GateData(kernel[n]))
                     ELSE resources
     /\ UNCHANGED curr_cycle

AdvanceCurrCycle ==
  /\ avlist # {} /\ Selectable = {}
  /\ curr_cycle' = IF Direction = "FORWARD" THEN curr_cycle + 1 ELSE curr_cycle - 1
  /\ UNCHANGED <<cycle, avlist, scheduled, resources>>

ListStep ==
  /\ outcome = "listing"
  /\ AdvanceCurrCycle \/ \E n \in avlist : Schedule(n)
  /\ UNCHANGED <<graphVars, uniformVars, sorted, outcome>>

FinishListing ==
  /\ outcome = "listing" /\ avlist = {}
  /\ sorted' = ByCycle(cycle)
  /\ cycle' = IF Direction = "BACKWARD" THEN Shifted(cycle) ELSE cycle
  /\ outcome' = "done"
  /\ UNCHANGED <<graphVars, listVars, uniformVars>>

-----------------------------------------------------------------------------
(* schedule_alap_uniform(): from the last cycle down, fill each bundle up  *)
(* to the average size of the non-empty bundles that remain.               *)

NonEmpty == Cardinality({c \in 1 .. curr_cycle : gates_per_cycle[c] # <<>>})

TooSmall == Len(gates_per_cycle[curr_cycle]) * NonEmpty < gates_to_go

CanMoveTo(n) ==
  LET completion == curr_cycle + Duration[kernel[n].name]
  IN /\ completion <= CycleCount(cycle) + 1
     /\ \A m \in After(graph, n) : completion <= cycle[m]

\* The gates of the bundle at pred_cycle that may move, by least remaining, then first.
BestToMove ==
  LET bundle    == gates_per_cycle[pred_cycle]
      remaining == Remaining(kernel, graph, "FORWARD")
      movable   == {i \in DOMAIN bundle : CanMoveTo(bundle[i])}
  IN {i \in movable : \A j \in movable :
        \/ remaining[bundle[i]] < remaining[bundle[j]]
        \/ remaining[bundle[i]] = remaining[bundle[j]] /\ i <= j}

MoveToBundle ==
  \E i \in BestToMove :
    LET n == gates_per_cycle[pred_cycle][i]
    IN /\ gates_per_cycle' = [gates_per_cycle EXCEPT ![pred_cycle] = RemoveAt(@, i),
                                                     ![curr_cycle] = Append(@, n)]
       /\ cycle' = [cycle EXCEPT ![n] = curr_cycle]
       /\ UNCHANGED pred_cycle

Filling == curr_cycle >= 1 /\ NonEmpty # 0

UniformMove ==
  /\ outcome = "uniform" /\ Filling /\ TooSmall /\ pred_cycle >= 1
  /\ \/ MoveToBundle
     \/ BestToMove = {} /\ pred_cycle' = pred_cycle - 1 /\ UNCHANGED <<gates_per_cycle, cycle>>
  /\ UNCHANGED <<graphVars, listVars, gates_to_go, sorted, outcome>>

UniformNextCycle ==
  /\ outcome = "uniform" /\ Filling /\ ~(TooSmall /\ pred_cycle >= 1)
  /\ gates_to_go' = gates_to_go - Len(gates_per_cycle[curr_cycle])
  /\ curr_cycle' = curr_cycle - 1
  /\ pred_cycle' = curr_cycle - 2
  /\ UNCHANGED <<graphVars, cycle, avlist, scheduled, resources, gates_per_cycle, sorted, outcome>>

FinishUniform ==
  /\ outcome = "uniform" /\ ~Filling
  /\ sorted' = ByCycle(cycle)
  /\ outcome' = "done"
  /\ UNCHANGED <<graphVars, cycle, listVars, uniformVars>>

SchedulerNext ==
  \/ InitGate \/ FinishInit
  \/ ListStep \/ FinishListing
  \/ UniformMove \/ UniformNextCycle \/ FinishUniform

-----------------------------------------------------------------------------
(* Properties *)

EndsBefore(m, n) == cycle[m] + DurationOf(kernel, m) <= cycle[n]

\* The schedule of the old scheduler, whatever its target, has every gate once and keeps the
\* order of gates that must stay in order, letting the first finish; with resources, gates
\* that share a qubit never overlap even when they commute (scheduler.cc:196-612 and 1121-1292).
ConflictsScheduled ==
  outcome = "done" =>
    /\ Len(sorted) = Len(kernel) /\ ToSet(sorted) = DOMAIN kernel
    /\ \A i, j \in DOMAIN sorted :
         LET m == sorted[i]  n == sorted[j]
         IN m < n =>
              /\ InConflict(kernel[m], kernel[n], options) => i < j /\ EndsBefore(m, n)
              /\ options.constrained /\ ToSet(kernel[m].operands) \cap ToSet(kernel[n].operands) # {}
                   => EndsBefore(m, n) \/ EndsBefore(n, m)

\* When a chain of conflicting gates ends at the earliest.
EndOf ==
  LET end[n \in 0 .. Len(kernel)] ==
        IF n = 0 THEN 1
        ELSE DurationOf(kernel, n)
             + Largest({1} \cup {end[m] : m \in {k \in 1 .. n - 1 : InConflict(kernel[k], kernel[n], options)}})
  IN end

\* Without resources the circuit is as short as the longest chain of conflicting gates,
\* also after the uniform scheduler has moved gates to later bundles
\* (scheduler.cc:690-792 and 1311-1500).
ShortestCircuit ==
  outcome = "done" /\ ~options.constrained =>
    /\ cycle[End] = Largest({EndOf[n] : n \in 0 .. Len(kernel)})
    /\ \A n \in DOMAIN kernel : 1 <= cycle[n] /\ cycle[n] + DurationOf(kernel, n) <= cycle[End]

=============================================================================
