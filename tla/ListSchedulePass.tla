-------------------------- MODULE ListSchedulePass --------------------------
(***************************************************************************)
(* pass/sch/list_schedule: ListSchedulePass::run_on_block() on one block,  *)
(* from the dependency graph to the reordered statements.  It composes the *)
(* graph builder with the list scheduler, which runs once or, for the      *)
(* heuristics that need path lengths, twice: first without resources in    *)
(* the opposite direction, then in earnest.  The pass makes the problems   *)
(* and the criticalities of the scheduler itself, so these constants of    *)
(* ListScheduler are empty here.                                           *)
(***************************************************************************)
EXTENDS Ddg, ListScheduler

CONSTANTS
  Statements, MaxStatements,
  GateData,                  \* what the resources read in a statement's JSON data
  PassOptions                \* scheduler_target, scheduler_heuristic, resource_constraints

VARIABLES
  block, options, current, pending, commuting, nonCommuting, weight, builderFailed,
  passOptions,   \* the options of this run of the pass
  phase,         \* how far run_on_block() has got
  statements     \* block->statements afterwards: the nodes in their new order

Builder == INSTANCE DdgBuilder WITH failed <- builderFailed

builderVars == <<block, options, current, pending, commuting, nonCommuting, weight, builderFailed>>
runVars == <<passOptions, phase, statements>>
passVars == <<builderVars, vars, runVars>>

\* rmgr/resource_types/base.cc: the operands of a custom instruction that are elements
\* of the main qubit register; other statements have none (a wait does not count as a
\* use of the qubits it waits for).
GateOf(s) ==
  LET qubits == SelectSeq(s.operands, LAMBDA o : s.kind = "custom" /\ o.reference.type = "qubit")
  IN [qubits       |-> [i \in DOMAIN qubits |-> qubits[i].reference.indices[1]],
      duration     |-> s.duration,
      function     |-> GateData[s].function,
      instrumented |-> GateData[s].instrumented,
      channelled   |-> FALSE]

NoGate == [qubits |-> <<>>, duration |-> 0, function |-> "", instrumented |-> FALSE, channelled |-> FALSE]

\* What DdgBuilder and ListScheduler ask of their callers: gates act on qubits there are
\* and, with no instrumented gate of three operands, use instruments there are.
ASSUME PassAssumption ==
  /\ Builder!WellFormedStatements
  /\ \A s \in Statements : /\ OperandsOf(GateOf(s)) \subseteq Qubits
                            /\ Affected(GateOf(s)) \subseteq Instruments
  /\ "none" \in Heuristics /\ \A o \in PassOptions : o.heuristic \in Heuristics

PassInit ==
  /\ Builder!Init
  /\ passOptions \in PassOptions
  /\ phase = "build"
  /\ statements = <<>>
  /\ graph = [source |-> 0, sink |-> 0, direction |-> 1, order |-> [n \in {} |-> 0], weight |-> [e \in {} |-> 0]]
  /\ gates = [n \in Builder!Nodes |-> IF n \in DOMAIN block THEN GateOf(block[n]) ELSE NoGate]
  /\ constrained = FALSE /\ heuristic = "none"
  /\ criticality = [n \in Builder!Nodes |-> <<0>>]
  /\ cycleOf = [n \in Builder!Nodes |-> 0]
  /\ cycle = 0 /\ scheduled = {} /\ available = {} /\ waiting = {} /\ availableIn = {}
  /\ \E config \in ResourceConfigs : resources = InitialResources(config)
  /\ blocked = 0 /\ outcome = "running"

Build ==
  /\ phase = "build"
  /\ Builder!Next
  /\ UNCHANGED <<vars, runVars>>

\* A Scheduler object for the graph g as it is about to be constructed.
NewScheduler(g, h, manager) ==
  /\ graph' = g
  /\ heuristic' = h
  /\ constrained' = manager
  /\ resources' = ResourcesFor(g, resources.config)
  /\ cycle' = 0 /\ scheduled' = {} /\ availableIn' = {}
  /\ available' = {g.source} /\ waiting' = DOMAIN g.order \ {g.source}
  /\ blocked' = 0 /\ outcome' = "running"

Built ==
  [source |-> 0, sink |-> Builder!SinkOf(block), direction |-> 1,
   order |-> [n \in Builder!Nodes |-> n], weight |-> weight]

Targeted == IF passOptions.target = "alap" THEN Reverse(Built) ELSE Built

StartScheduling ==
  /\ phase = "build" /\ Builder!BuildDone /\ ~builderFailed
  /\ \/ /\ passOptions.heuristic = "none"
        /\ NewScheduler(Targeted, "none", passOptions.constrained)
        /\ phase' = "schedule"
     \/ /\ passOptions.heuristic # "none"
        /\ NewScheduler(Reverse(Targeted), "none", FALSE)
        /\ phase' = "preschedule"
  /\ UNCHANGED <<builderVars, gates, criticality, cycleOf, passOptions, statements>>

RunScheduler ==
  /\ phase \in {"preschedule", "schedule"}
  /\ RunNext
  /\ UNCHANGED <<builderVars, runVars>>

\* DeepCriticality::compute(): a statement's own path length, then that of its most
\* critical dependent, and so on; the source is not annotated.
MostCritical(S) == CHOOSE s \in S : \A t \in S : ~LessCritical(s, t)

DeepCriticality(g) ==
  LET deep[n \in DOMAIN g.order] ==
        <<Abs(cycleOf[n])>>
          \o (IF Successors(g, n) = {} THEN <<>> ELSE MostCritical({deep[s] : s \in Successors(g, n)}))
  IN [n \in DOMAIN g.order |-> IF n = g.source THEN <<0>> ELSE deep[n]]

FinishPreschedule ==
  /\ phase = "preschedule" /\ outcome = "done"
  /\ NewScheduler(Reverse(graph), passOptions.heuristic, passOptions.constrained)
  /\ criticality' = IF passOptions.heuristic = "deep_criticality"
                    THEN DeepCriticality(Reverse(graph)) ELSE criticality
  /\ phase' = "schedule"
  /\ UNCHANGED <<builderVars, gates, cycleOf, passOptions, statements>>

\* Mutant: statements of one cycle are put in the opposite order.
SortedUnstably(cycles) ==
  LET before(m, n) == cycles[m] < cycles[n] \/ (cycles[m] = cycles[n] /\ m > n)
  IN CHOOSE list \in [DOMAIN block -> DOMAIN block] :
       \A i, j \in DOMAIN block : i < j => before(list[i], list[j])

\* convert_cycles(): cycles relative to the earliest sentinel, statements stably sorted.
Sorted(cycles) ==
  LET before(m, n) == cycles[m] < cycles[n] \/ (cycles[m] = cycles[n] /\ m < n)
  IN CHOOSE list \in [DOMAIN block -> DOMAIN block] :
       \A i, j \in DOMAIN block : i < j => before(list[i], list[j])

\* Mutant: the source is taken for the earliest statement.
ConvertFromSource ==
  /\ phase = "schedule" /\ outcome = "done"
  /\ LET cycles == [n \in DOMAIN cycleOf |-> cycleOf[n] - cycleOf[graph.source]]
     IN cycleOf' = cycles /\ statements' = Sorted(cycles)
  /\ phase' = "done"
  /\ UNCHANGED <<builderVars, graph, gates, constrained, heuristic, criticality, cycle,
                 scheduled, available, waiting, availableIn, resources, blocked, outcome, passOptions>>

ConvertCycles ==
  /\ phase = "schedule" /\ outcome = "done"
  /\ LET first  == IF cycleOf[graph.source] <= cycleOf[graph.sink]
                   THEN cycleOf[graph.source] ELSE cycleOf[graph.sink]
         cycles == [n \in DOMAIN cycleOf |-> cycleOf[n] - first]
     IN cycleOf' = cycles /\ statements' = Sorted(cycles)
  /\ phase' = "done"
  /\ UNCHANGED <<builderVars, graph, gates, constrained, heuristic, criticality, cycle,
                 scheduled, available, waiting, availableIn, resources, blocked, outcome, passOptions>>

Next == Build \/ StartScheduling \/ RunScheduler \/ FinishPreschedule \/ ConvertCycles

Spec == PassInit /\ [][Next]_passVars

FairSpec == Spec /\ WF_passVars(Next)

-----------------------------------------------------------------------------

Finished == phase = "done"

Place(n) == CHOOSE i \in DOMAIN statements : statements[i] = n

Conflict(m, n) ==
  \E e \in Builder!EventsAt(m), f \in Builder!EventsAt(n) : ~EventCommutesWith(e, f)

\* The new program does what the old one did: two statements that do not commute keep
\* their order in the list, and the later starts when the earlier is finished, so
\* pruned edges, reversals, resources and sorting lose no dependency.
ConflictsKeepOrder ==
  Finished => \A m, n \in DOMAIN block :
    m < n /\ Conflict(m, n)
      => /\ Place(m) < Place(n)
         /\ cycleOf[m] + block[m].duration <= cycleOf[n]

\* What the IR demands of cycles: no statement is lost or duplicated, the list is in the
\* order of the cycles, the first of which is zero.
CyclesNormalized ==
  Finished =>
    /\ \A n \in DOMAIN block : n \in {statements[i] : i \in DOMAIN statements}
    /\ \A i, j \in DOMAIN block : i < j => cycleOf[statements[i]] <= cycleOf[statements[j]]
    /\ \A n \in DOMAIN block : cycleOf[n] >= 0
    /\ block # <<>> => \E n \in DOMAIN block : cycleOf[n] = 0

\* With resource constraints, gates on one qubit never overlap, commuting or not.
QubitsNeverShared ==
  Finished /\ passOptions.constrained =>
    \A m, n \in DOMAIN block :
      m # n /\ OperandsOf(gates[m]) \cap OperandsOf(gates[n]) # {}
        => \/ cycleOf[m] + block[m].duration <= cycleOf[n]
           \/ cycleOf[n] + block[n].duration <= cycleOf[m]

\* The length of the longest chain of conflicting statements.
CriticalPathLength ==
  LET before(n) == {m \in 0 .. (n - 1) : Conflict(m, n)}
      until[n \in Builder!Nodes] ==
        LET ends == {until[m] + Builder!Duration(m) : m \in before(n)}
        IN IF n = 0 THEN 0 ELSE CHOOSE e \in ends : \A f \in ends : f <= e
  IN until[Builder!SinkOf(block)]

\* Without resource constraints the schedule, ASAP or ALAP and for every heuristic, is
\* as short as the conflicts between the statements allow.
ShortestSchedule ==
  Finished /\ ~passOptions.constrained =>
    Abs(cycleOf[Builder!SinkOf(block)] - cycleOf[0]) = CriticalPathLength

\* What the scheduler's comments promise of both of its runs, over pruned and reversed
\* graphs: without resources a statement starts in the very cycle in which the last of
\* its predecessors is finished, so pre-scheduling measures true path lengths.
RunIsEarliest == phase \in {"preschedule", "schedule"} => EarliestWhenUnconstrained

\* The pass terminates with a schedule.
Completes == <>Finished

=============================================================================
