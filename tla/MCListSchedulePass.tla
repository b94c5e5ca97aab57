------------------------- MODULE MCListSchedulePass -------------------------
(* Blocks of gates, a measurement, a wait and a use of its result on two qubits *)
(* that share a microwave instrument.                                           *)
EXTENDS ListSchedulePass

CONSTANTS qreg, creg

Q(i) == [target |-> qreg, type |-> "qubit", indices |-> <<i>>]
C    == [target |-> creg, type |-> "classical", indices |-> <<>>]

MCObjects == {qreg, creg}
MCReferences == {Q(0), Q(1), ImplicitBit(Q(0)), ImplicitBit(Q(1)), C}

Operand(m, r) == [mode |-> m, reference |-> r]

Stmt(kind, reads, operands, barrier, duration) ==
  [kind |-> kind, reads |-> reads, operands |-> operands, barrier |-> barrier,
   duration |-> duration, body |-> {}]

X0      == Stmt("custom", {}, <<Operand("commute_x", Q(0))>>, FALSE, 1)
CNOT10  == Stmt("custom", {}, <<Operand("commute_z", Q(1)), Operand("commute_x", Q(0))>>, FALSE, 2)
CondY1  == Stmt("custom", {C}, <<Operand("commute_y", Q(1))>>, FALSE, 1)
Measure == Stmt("custom", {}, <<Operand("measure", Q(1))>>, FALSE, 3)
Set     == Stmt("set", {}, <<Operand("write", C), Operand("read", ImplicitBit(Q(1)))>>, FALSE, 0)
Wait0   == Stmt("wait", {}, <<Operand("barrier", Q(0))>>, FALSE, 2)

MCStatements == {X0, CNOT10, CondY1, Measure, Set, Wait0}

MCGateData ==
  [s \in MCStatements |-> [function     |-> IF s = X0 THEN "x" ELSE "y",
                           instrumented |-> s \in {X0, CondY1}]]

MCPassOptions ==
  [target : {"asap", "alap"}, heuristic : {"none", "deep_criticality"}, constrained : BOOLEAN]

MCCriticalPath == [target : {"asap"}, heuristic : {"critical_path"}, constrained : {FALSE}]

MCMin == -30
MCMax == 30
MCQubits == {0, 1}
MCSingle == [q \in MCQubits |-> {"mw"}]
MCTwo == [i \in 1 .. 2 |-> [q \in MCQubits |-> {}]]
MCEdge == [e \in MCQubits \X MCQubits |-> {}]
MCCoreOf == [q \in MCQubits |-> "c0"]
MCConfigs == {[direction |-> "FORWARD", exclusive |-> FALSE, overlap |-> FALSE]}
=============================================================================
