---------------------------- MODULE MCDdgBuilder ----------------------------
(***************************************************************************)
(* Small instance of DdgBuilder: two qubits of one register and one        *)
(* classical bit, and the kinds of statements the gatherer tells apart.    *)
(***************************************************************************)
EXTENDS DdgBuilder

CONSTANTS qreg, creg

Q(i) == [target |-> qreg, type |-> "qubit", indices |-> <<i>>]
C    == [target |-> creg, type |-> "classical", indices |-> <<>>]

MCObjects == {qreg, creg}
MCReferences == {Q(0), Q(1), ImplicitBit(Q(0)), ImplicitBit(Q(1)), C}

Operand(m, r) == [mode |-> m, reference |-> r]

Stmt(kind, reads, operands, barrier, duration, body) ==
  [kind |-> kind, reads |-> reads, operands |-> operands, barrier |-> barrier,
   duration |-> duration, body |-> body]

Gate(operands, duration) == Stmt("custom", {}, operands, FALSE, duration, {})

X0      == Gate(<<Operand("commute_x", Q(0))>>, 1)
Z0      == Gate(<<Operand("commute_z", Q(0))>>, 0)
CZ01    == Gate(<<Operand("commute_z", Q(0)), Operand("commute_z", Q(1))>>, 2)
CNOT10  == Gate(<<Operand("commute_z", Q(1)), Operand("commute_x", Q(0))>>, 2)
Measure == Gate(<<Operand("measure", Q(1))>>, 3)
CondX0  == Stmt("custom", {ImplicitBit(Q(1))}, <<Operand("commute_x", Q(0))>>, FALSE, 1, {})
Set     == Stmt("set", {}, <<Operand("write", C), Operand("read", ImplicitBit(Q(1)))>>, FALSE, 0, {})
Wait0   == Stmt("wait", {}, <<Operand("barrier", Q(0))>>, FALSE, 1, {})
Barrier == Stmt("custom", {}, <<Operand("write", Q(0))>>, TRUE, 1, {})
If      == Stmt("structure", {C}, <<>>, FALSE, 0, {X0, Set})
Goto    == Stmt("goto", {}, <<>>, FALSE, 0, {})
Forever == Stmt("structure", {}, <<>>, FALSE, 0, {})

MCStatements == {X0, Z0, CZ01, CNOT10, Measure, CondX0, Set, Wait0, Barrier, If, Goto, Forever}

=============================================================================
