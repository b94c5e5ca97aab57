------------------------------ MODULE MCBackend -----------------------------
(* Short kernels on four qubits: in a line, in a one-way ring and in two cores. *)
EXTENDS Backend

MCQubits == 0 .. 3

Gate(name, operands) == NewGate(name, operands)
Measure(q, b)        == [NewGate("measure", <<q>>) EXCEPT !.bregs = <<b>>]
If(gate, b)          == [gate EXCEPT !.cond = <<b>>]
Classical(c)         == [NewGate("classical", <<>>) EXCEPT !.cregs = <<c>>]

Numbered(gates) == [n \in DOMAIN gates |-> [gates[n] EXCEPT !.id = n]]

MCObjects == {Qubit(q) : q \in MCQubits} \cup {Breg(0), Breg(1), Creg(0)}

MCNames == {"x", "h", "cz", "cnot", "prepz", "measure", "classical", "swap", "move", "tswap", "tmove"}
MCDuration ==
  [n \in MCNames |-> CASE n \in {"x", "h"} -> 1
                       [] n \in {"cz", "cnot", "move", "prepz", "measure"} -> 2
                       [] n = "classical" -> 0
                       [] OTHER -> 3]

Both(S) == S \cup {<<p[2], p[1]>> : p \in S}
Line  == [qubits |-> 4, cores |-> 1, comm |-> 4, full |-> FALSE, edges |-> Both({<<0, 1>>, <<1, 2>>, <<2, 3>>})]
Ring  == [Line EXCEPT !.edges = {<<0, 1>>, <<1, 2>>, <<2, 3>>, <<3, 0>>}]
Halves == [Line EXCEPT !.edges = Both({<<0, 1>>, <<2, 3>>})]
TwoCores == [qubits |-> 4, cores |-> 2, comm |-> 1, full |-> TRUE, edges |-> {}]

\* The default options and variations of them.
Base == [heuristic |-> "base", reverse |-> TRUE, moves |-> TRUE, penalty |-> 0,
         prep_only_initializes |-> FALSE, initialized |-> FALSE, lookahead |-> "noroutingfirst",
         swaps |-> "all", tie |-> "random", multi |-> FALSE, single |-> FALSE, critical |-> TRUE]
Commuting == [Base EXCEPT !.multi = TRUE, !.single = TRUE, !.initialized = TRUE, !.critical = FALSE,
                          !.tie = "first"]
Extend == [Base EXCEPT !.heuristic = "min_extend", !.penalty = 2, !.swaps = "earliest", !.tie = "first"]
ExtendRc == [Base EXCEPT !.heuristic = "min_extend_rc", !.lookahead = "1qfirst", !.prep_only_initializes = TRUE,
                         !.swaps = "one", !.tie = "first"]
BaseRc == [Base EXCEPT !.heuristic = "base_rc", !.moves = FALSE, !.reverse = FALSE, !.lookahead = "all",
                       !.tie = "last", !.multi = TRUE]

Asap == [multi |-> FALSE, single |-> FALSE, critical |-> TRUE, constrained |-> TRUE, target |-> "asap"]
Alap == [Asap EXCEPT !.multi = TRUE, !.single = TRUE, !.target = "alap"]
AsapFree == [Asap EXCEPT !.constrained = FALSE, !.critical = FALSE]
AlapFree == [Alap EXCEPT !.constrained = FALSE]
Uniform == [Asap EXCEPT !.constrained = FALSE, !.target = "uniform"]
\* Only some of the commutations.
AlapMulti == [Alap EXCEPT !.single = FALSE]
AlapFreeSingle == [AlapFree EXCEPT !.multi = FALSE]
UniformConstrained == [Uniform EXCEPT !.constrained = TRUE]

Cz(a, b) == Gate("cz", <<a, b>>)
X(q)     == Gate("x", <<q>>)

Gates == {Cz(0, 3), Gate("cnot", <<2, 0>>), X(0), Gate("prepz", <<1>>),
          Measure(3, 0), If(Gate("h", <<2>>), 0), Classical(0)}
QuantumGates == {Cz(0, 3), Gate("cnot", <<2, 0>>), X(0), Gate("prepz", <<3>>), Gate("h", <<2>>)}

Kernels(gates, least, most) == {Numbered(g) : g \in UNION {[1 .. n -> gates] : n \in least .. most}}

Job(gates, chip, mapping, scheduling) ==
  [program |-> gates, topology |-> chip, mapped |-> TRUE, settings |-> mapping, schedule |-> scheduling]

Unmapped(gates, scheduling) == [Job(gates, Line, Base, scheduling) EXCEPT !.mapped = FALSE]

Routed == {Cz(0, 2), Cz(1, 3), X(3)}

\* Swapping one pair at a time need not end with two cores, see the README.
MCJobs ==
  {Job(k, t, m, Asap) : k \in Kernels(Gates, 1, 2), t \in {Line, Ring}, m \in {Base, Commuting, Extend}}
  \cup {Job(k, TwoCores, m, Asap) : k \in Kernels(Gates, 1, 2), m \in {Base, Commuting}}
  \cup {Job(Numbered(<<Cz(0, 1), Cz(0, 3)>>), Halves, Base, Asap)}
  \cup {Job(k, Line, m, Alap) : k \in Kernels(QuantumGates, 2, 2), m \in {ExtendRc, BaseRc}}
  \cup {Job(k, TwoCores, BaseRc, Alap) : k \in Kernels(QuantumGates, 2, 2)}
  \cup {Job(k, t, m, AsapFree) : k \in Kernels(Routed, 3, 3), t \in {Line, Ring}, m \in {Commuting, Extend}}
  \cup {Unmapped(k, s) : k \in Kernels(Gates, 3, 3), s \in {Alap, AlapFree, AsapFree}}
  \cup {Unmapped(k, Uniform) : k \in Kernels({X(0), Cz(0, 1), Cz(1, 2), Measure(2, 0), Measure(3, 1)}, 4, 4)}
  \cup {Unmapped(k, s) : k \in Kernels({X(0), Gate("cnot", <<2, 0>>), Gate("h", <<2>>)}, 3, 3),
                         s \in {AlapMulti, AlapFreeSingle}}
  \cup {Unmapped(Numbered(<<X(0)>>), UniformConstrained)}

\* The default options, on a kernel whose first gates leave time to initialise a neighbour.
MCDefaultJobs ==
  {Job(Numbered(<<X(1), X(1), Cz(1, 3), Cz(0, 1), Cz(1, 2)>>), Line, Base, Asap)}

MCConfig == [direction |-> "FORWARD", exclusive |-> FALSE, overlap |-> FALSE]
MCMin == -100
MCMax == 100
MCSingle == [q \in MCQubits |-> {"mw"}]
MCTwo == [i \in 1 .. 2 |-> [q \in MCQubits |-> {}]]
MCEdge == [e \in MCQubits \X MCQubits |-> {}]
MCCoreOf == [q \in MCQubits |-> "c0"]
=============================================================================
