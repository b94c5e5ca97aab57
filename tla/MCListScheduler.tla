--------------------------- MODULE MCListScheduler --------------------------
(* Every dependency graph over NumStatements single-qubit gates on two qubits    *)
(* that share an instrument, in both directions.                                 *)
EXTENDS ListScheduler

CONSTANTS NumStatements, Durations

MCMin == -30
MCMax == 30
MCQubits == {0, 1}
MCSingle == [q \in MCQubits |-> {"mw"}]
MCTwo == [i \in 1 .. 2 |-> [q \in MCQubits |-> {}]]
MCEdge == [e \in MCQubits \X MCQubits |-> {}]
MCCoreOf == [q \in MCQubits |-> "c0"]

Statements == 1 .. NumStatements
Source == 0
Sink == NumStatements + 1

\* As the builder makes them: every statement is behind the source and before the sink.
Connect(deps) ==
  deps \cup {<<Source, n>> : n \in {m \in Statements : ~\E e \in deps : e[2] = m}}
       \cup {<<n, Sink>> : n \in {m \in Statements : ~\E e \in deps : e[1] = m}}

Graph(deps, duration) ==
  [source |-> Source, sink |-> Sink, direction |-> 1,
   order  |-> [n \in Source .. Sink |-> n],
   weight |-> [e \in Connect(deps) |-> IF e[1] = Source THEN 0 ELSE duration[e[1]]]]

NoGate == [qubits |-> <<>>, duration |-> 0, function |-> "", instrumented |-> FALSE, channelled |-> FALSE]

\* Statement n is a gate on qubit q[n]; gates of odd and even statements differ in function,
\* and a gate that takes no time needs no instrument.
GatesOf(duration, q) ==
  [n \in Source .. Sink |->
     IF n \in Statements
       THEN [qubits |-> <<q[n]>>, duration |-> duration[n], channelled |-> FALSE,
             function |-> IF n % 2 = 0 THEN "x" ELSE "y", instrumented |-> duration[n] > 0]
       ELSE NoGate]

Forward ==
  {[graph |-> Graph(deps, duration), gates |-> GatesOf(duration, q)] :
     deps \in SUBSET {e \in Statements \X Statements : e[1] < e[2]},
     duration \in [Statements -> Durations],
     q \in {f \in [Statements -> MCQubits] : f[1] = 0}}

MCProblems == Forward \cup {[graph |-> Reverse(p.graph), gates |-> p.gates] : p \in Forward}

MCConfigs == {[direction |-> "FORWARD", exclusive |-> FALSE, overlap |-> FALSE]}

MCCriticalities == {[n \in Source .. Sink |-> IF n \in C THEN <<2, 1>> ELSE <<2>>] : C \in SUBSET Statements}
=============================================================================
