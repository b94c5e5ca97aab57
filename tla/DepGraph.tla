------------------------------- MODULE DepGraph -----------------------------
(***************************************************************************)
(* pass/sch/schedule/detail/scheduler.cc: the dependency graph of a kernel *)
(* of old-IR gates, which the old scheduler and the mapper's lookahead     *)
(* share.  Every qubit and register is a small state machine that a gate's *)
(* operands step.                                                          *)
(*                                                                         *)
(* A gate is a record: name, the sequences operands (qubits), cregs, bregs *)
(* and cond (the bits its condition reads; empty when it has none).  Its   *)
(* node is its position in the kernel; 0 is the source, Len + 1 the sink.  *)
(***************************************************************************)
EXTENDS Integers, Sequences, FiniteSets, SequencesExt

CONSTANTS Objects,      \* the qubits, classical registers and bits of the kernel
          Names,        \* the gates of the platform
          Duration      \* name -> duration in cycles, rounded up

ASSUME DurationAssumption == Duration \in [Names -> Nat] /\ IsFiniteSet(Objects)

ZRotations == {"rz", "z", "pauli_z", "rz180", "z90", "rz90", "zm90", "mrz90", "s", "sdag", "t", "tdag"}
XRotations == {"rx", "x", "pauli_x", "rx180", "x90", "rx90", "xm90", "mrx90", "x45"}

\* ir/compat/gate.h: the gates whose type() is not that of an ordinary gate.
IsClassical(gate) == gate.name = "classical"
IsWait(gate)      == gate.name = "wait"

Qubit(q) == <<"q", q>>
Creg(c)  == <<"c", c>>
Breg(b)  == <<"b", b>>

\* Event "default" stands for DEFAULT, CWRITE and BWRITE, "read" for BREAD.
OnEach(objects, event, commutes) ==
  [i \in DOMAIN objects |-> [object |-> objects[i], event |-> event, commutes |-> commutes]]

AllObjects == SetToSeq(Objects)

QubitsOf(gate) == [i \in DOMAIN gate.operands |-> Qubit(gate.operands[i])]
CregsOf(gate)  == [i \in DOMAIN gate.cregs |-> Creg(gate.cregs[i])]
BregsOf(gate)  == [i \in DOMAIN gate.bregs |-> Breg(gate.bregs[i])]
CondOf(gate)   == [i \in DOMAIN gate.cond |-> Breg(gate.cond[i])]

ConditionEvents(gate) == OnEach(CondOf(gate), "read", TRUE)

\* init()'s chain of cases: what a gate does to its operands.
Signature(gate, options) ==
  CASE gate.name = "display" -> OnEach(AllObjects, "default", FALSE)
    [] IsClassical(gate) -> OnEach(CregsOf(gate), "default", FALSE)
    [] gate.name = "cnot" ->
         OnEach(<<QubitsOf(gate)[1]>>, "z", options.multi) \o OnEach(<<QubitsOf(gate)[2]>>, "x", options.multi)
    [] gate.name \in {"cz", "cphase"} -> OnEach(QubitsOf(gate), "z", options.multi)
    [] gate.name \in ZRotations -> OnEach(QubitsOf(gate), "z", options.single)
    [] gate.name \in XRotations -> OnEach(QubitsOf(gate), "x", options.single)
    [] OTHER -> OnEach(QubitsOf(gate) \o CregsOf(gate) \o BregsOf(gate), "default", FALSE)

EventsOf(gate, options) == ConditionEvents(gate) \o Signature(gate, options)

\* What init() takes for granted, and asserts: the operands exist, and are one or two.
HasOperands(gate) ==
  /\ gate.name \in Names
  /\ \A operands \in {QubitsOf(gate), CregsOf(gate), BregsOf(gate), CondOf(gate)} : operands \in Seq(Objects)
  /\ gate.name \in {"cnot", "cz", "cphase"} => Len(gate.operands) = 2
  /\ gate.name \in ZRotations \cup XRotations => Len(gate.operands) = 1

\* Whether the gate h that comes after the gate g has to stay behind it: they do different
\* things to an object, or the same and h is not one that commutes.  That g is not does not
\* count.
InConflict(g, h, options) ==
  \E i \in DOMAIN EventsOf(g, options), j \in DOMAIN EventsOf(h, options) :
    LET e == EventsOf(g, options)[i]  f == EventsOf(h, options)[j]
    IN e.object = f.object /\ ~(e.event = f.event /\ f.commutes)

-----------------------------------------------------------------------------
(* The state machines: per object the last event, the node of the last     *)
(* default, and the nodes of the last run of reads, X and Z rotations.     *)

EmptyGraph ==
  [machine |-> [o \in Objects |-> [last |-> "default", default |-> 0,
                                   run  |-> [e \in {"x", "z", "read"} |-> {}]]],
   arcs    |-> {}]

\* The kinds of rotation that a rotation is ordered after, whatever came last.
Opposite(event) == CASE event = "x" -> {"z"} [] event = "z" -> {"x"} [] event = "read" -> {}

DefaultSources(m) == IF m.last = "default" THEN {m.default} ELSE m.run[m.last]

\* Mutant: a rotation after a default is not ordered after the rotations before it.
SourcesOfRun(m, event, commutes) ==
  {m.default} \cup (IF m.last = event /\ ~commutes THEN m.run[event] ELSE {})

RotationSources(m, event, commutes) ==
  {m.default}
    \cup (IF m.last = event /\ ~commutes THEN m.run[event] ELSE {})
    \cup UNION {m.run[o] : o \in Opposite(event)}

\* new_event().
NewEvent(graph, node, e) ==
  LET m == graph.machine[e.object]
      sources == IF e.event = "default" THEN DefaultSources(m)
                 ELSE RotationSources(m, e.event, e.commutes)
      after == IF e.event = "default" THEN [m EXCEPT !.default = node, !.last = "default"]
               ELSE [m EXCEPT !.last = e.event,
                              !.run[e.event] = (IF m.last = e.event THEN @ ELSE {}) \cup {node}]
  IN [machine |-> [graph.machine EXCEPT ![e.object] = after],
      arcs    |-> graph.arcs \cup (sources \X {node})]

AddGate(graph, node, gate, options) ==
  FoldLeft(LAMBDA g, e : NewEvent(g, node, e), graph, EventsOf(gate, options))

AddSink(graph, node) ==
  FoldLeft(LAMBDA g, e : NewEvent(g, node, e), graph, OnEach(AllObjects, "default", FALSE))

\* init(): the graph of a whole kernel.
GraphOf(kernel, options) ==
  LET graphs[n \in 0 .. Len(kernel)] ==
        IF n = 0 THEN EmptyGraph ELSE AddGate(graphs[n - 1], n, kernel[n], options)
  IN AddSink(graphs[Len(kernel)], Len(kernel) + 1)

\* lemon::dag(): there are no nodes each of which another of them, or itself, leads to.
IsDag(graph) ==
  \A S \in SUBSET {a[1] : a \in graph.arcs} :
    S # {} => \E n \in S : \A a \in graph.arcs : a[2] = n => a[1] \notin S

-----------------------------------------------------------------------------
(* What schedulers ask of the graph.                                       *)

Nodes(kernel) == 0 .. Len(kernel) + 1
Sink(kernel)  == Len(kernel) + 1

\* The source lasts one cycle, the sink none.
DurationOf(kernel, n) ==
  CASE n = 0 -> 1 [] n = Sink(kernel) -> 0 [] OTHER -> Duration[kernel[n].name]

Before(graph, n) == {a[1] : a \in {x \in graph.arcs : x[2] = n}}
After(graph, n)  == {a[2] : a \in {x \in graph.arcs : x[1] = n}}

\* A finite set of numbers as a list.
Ascending(S) ==
  [i \in 1 .. Cardinality(S) |-> CHOOSE n \in S : Cardinality({m \in S : m < n}) = i - 1]

Largest(S) == CHOOSE m \in S : \A n \in S : n <= m
Smallest(S) == CHOOSE m \in S : \A n \in S : m <= n

\* get_depending_nodes(), Before or After by direction; weights are those of the first end.
Depending(graph, n, direction) == IF direction = "FORWARD" THEN After(graph, n) ELSE Before(graph, n)
Needed(graph, n, direction)    == IF direction = "FORWARD" THEN Before(graph, n) ELSE After(graph, n)

\* set_remaining(): the cycles from a node to the end of the schedule in this direction.
Remaining(kernel, graph, direction) ==
  LET weight(m, n) == DurationOf(kernel, IF direction = "FORWARD" THEN m ELSE n)
      remaining[n \in Nodes(kernel)] ==
        Largest({0} \cup {remaining[m] + weight(n, m) : m \in Depending(graph, n, direction)})
  IN remaining

\* set_cycle() forward: as soon as possible.
AsapCycles(kernel, graph) ==
  LET asap[n \in Nodes(kernel)] == Largest({0} \cup {asap[m] + DurationOf(kernel, m) : m \in Before(graph, n)})
  IN asap

\* criticality_lessthan(m, n), with order the position in the kernel (or, backwards, its
\* opposite).
LessCritical(m, n, graph, remaining, direction, enabled) ==
  LET order(i)     == IF direction = "FORWARD" THEN i ELSE -i
      depending(i) == Cardinality(Depending(graph, i, direction))
  IN \/ remaining[m] < remaining[n]
     \/ /\ enabled /\ remaining[m] = remaining[n]
        /\ \/ depending(m) < depending(n)
           \/ depending(m) = depending(n) /\ order(m) > order(n)

\* take_available(): what becomes available when n has been scheduled, too.
Released(graph, n, scheduled, direction) ==
  {m \in Depending(graph, n, direction) : Needed(graph, m, direction) \subseteq scheduled \cup {n}}

=============================================================================
