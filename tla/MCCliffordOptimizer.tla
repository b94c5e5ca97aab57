------------------------ MODULE MCCliffordOptimizer ------------------------
(* Every Clifford state on one qubit, a few of them on a second one, and     *)
(* gates of every kind that interrupt them.                                  *)
EXTENDS CliffordOptimizer

Gate(name, operands, duration) ==
  [name |-> name, operands |-> operands, classical |-> FALSE, conditional |-> FALSE,
   duration |-> duration]

Single(q, names) == {Gate(n, <<q>>, 20) : n \in names}

MCQubits == {0, 1}

MCGates ==
  Single(0, {"i", "x", "y", "z", "h", "xm90", "s", "ym90", "x90", "y90", "sdag"})
  \cup Single(1, {"h", "s"})
  \cup {Gate("x", <<1>>, 30), Gate("measure", <<0>>, 300), Gate("cnot", <<0, 1>>, 40),
        Gate("display", <<>>, 0),
        [Gate("x", <<0>>, 20) EXCEPT !.conditional = TRUE],
        [Gate("add", <<>>, 20) EXCEPT !.classical = TRUE]}
=============================================================================
