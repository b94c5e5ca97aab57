---------------------------- MODULE MCController -----------------------------
(* Three qubits on one drive instrument and two readout instruments.            *)
EXTENDS Controller

MCInstruments ==
  <<[type |-> "mw", groups |-> <<{1}, {2, 3}>>],
    [type |-> "measure", groups |-> <<{1}>>],
    [type |-> "measure", groups |-> <<{2}, {3}>>]>>
MCQubits == 1..3
MCVars == {"i", "j"}

Drive(name, duration) == Type(name, duration, <<[type |-> "mw", operand |-> 1, value |-> name]>>)
X == Drive("x", 1)
Y == Drive("y", 1)
Long == Drive("long", 3)
CZ == Type("cz", 2, <<[type |-> "mw", operand |-> 1, value |-> "cz1"], [type |-> "mw", operand |-> 2, value |-> "cz2"]>>)
Measure == Type("measure", 2, <<[type |-> "measure", operand |-> 1, value |-> "ro"]>>)
Distribute == Type("_dist_dsm", 1, <<[type |-> "measure", operand |-> 1, value |-> ""]>>)

Always == Literal(TRUE)
At(t, q, cycle) == Custom(t, <<q>>, Always, cycle)
When(c, t, q, cycle) == Custom(t, <<q>>, c, cycle)
WaitAt(duration, cycle) == [Wait(duration) EXCEPT !.cycle = cycle]
\* A measurement and the distribution of its result, which end four cycles later.
Feedback(q, cycle) == <<At(Measure, q, cycle), At(Distribute, q, cycle + 2)>>
Both(p, q, cycle) == <<At(Measure, p, cycle), At(Measure, q, cycle), At(Distribute, p, cycle + 2), At(Distribute, q, cycle + 2)>>

Control(kind) == [kind |-> kind, cycle |-> 0]
BranchOf(c, body) == [condition |-> c, body |-> body]
If(branches, otherwise) == [kind |-> "if", branches |-> branches, otherwise |-> otherwise, cycle |-> 0]
When1(c, body) == If(<<BranchOf(c, body)>>, <<>>)
Foreach(v, frm, to, body) == [kind |-> "foreach", lhs |-> v, frm |-> frm, to |-> to, body |-> body, cycle |-> 0]
For(initialize, c, update, body) ==
  [kind |-> "for", initialize |-> initialize, condition |-> c, update |-> update, body |-> body, cycle |-> 0]
While(c, body) == For(<<>>, c, <<>>, body)
Repeat(c, body) == [kind |-> "repeat", condition |-> c, body |-> body, cycle |-> 0]

-----------------------------------------------------------------------------
(* Straight-line programs: measurements, then gates under conditions.      *)

Measurements ==
  {Both(1, 2, 0), Both(2, 1, 0), Both(2, 3, 0), Both(1, 3, 0), Feedback(1, 0) \o Feedback(2, 3), Feedback(2, 0) \o Feedback(1, 4),
   Feedback(1, 0) \o Both(1, 2, 3), Both(1, 2, 0) \o Feedback(1, 3), Both(1, 2, 0) \o <<At(X, 1, 3), At(X, 2, 3)>> \o Both(1, 3, 4),
   Feedback(1, 0) \o Feedback(1, 4) \o Feedback(2, 8), Feedback(1, 0) \o Feedback(1, 3) \o Feedback(1, 6),
   Feedback(2, 0) \o Both(2, 3, 4)}
Gated == {Literal(FALSE), Bit(1), Bit(2), Not(Bit(1)), Not(Bit(3))}
           \cup UNION {{TwoBits(op, 1, 2), Not(TwoBits(op, 2, 1))} : op \in TwoBitKinds}
Endings ==
  {<<When(c, X, 1, 0), When(d, Y, 2, 0)>> : c, d \in Gated}
  \cup {<<When(c, X, 1, 1), When(c, Y, 1, 2), WaitAt(2, 3)>> : c \in Gated}
  \cup {<<When(Bit(1), X, 1, 0), When(Not(Bit(1)), X, 1, 1), When(c, Y, 1, 2)>> : c \in {Always, Bit(1)}}
  \cup {<<Custom(CZ, <<1, 2>>, c, 0), At(Y, 1, 2), At(X, 3, 2)>> : c \in Gated \cup {Always}}
  \cup {<<When(c, X, 1, 0), When(c, Long, 2, 0), At(Y, 1, 3)>> : c \in Gated}
Straight == {<<m, e>> : m \in Measurements, e \in Endings}

-----------------------------------------------------------------------------
(* Control flow, as far as the bundle before a structured statement holds  *)
(* nothing that would be put out.                                          *)

Tests == {Bit(1), Not(Bit(2)), Always}
Plain(q) == {<<>>, <<At(X, q, 0), At(Y, q, 1)>>, <<WaitAt(1, 0), At(X, 1, 1), At(Y, 2, 1), At(X, 2, 2)>>}
Leave == {<<Control("break")>>, <<When1(Bit(2), <<At(Y, 2, 0)>>), Control("break")>>}
InBody(q) ==
  Plain(q)
  \cup {<<When1(c, body), At(X, 3, 0)>> : c \in Tests, body \in Plain(q) \cup Leave}
  \cup {<<If(<<BranchOf(Bit(1), <<Control("break")>>), BranchOf(Not(Bit(2)), <<Control("break")>>)>>, <<<<At(Y, q, 0)>>>>)>>}
Succeed == Feedback(3, 0) \o <<WaitAt(1, 3), When1(Bit(3), <<Control("break")>>), At(X, 3, 0)>>

Loops1 ==
  {While(c, body) : c \in Tests, body \in InBody(1)}
  \cup {While(c, <<When1(d, <<Control("continue")>>), At(X, 1, 0)>>) : c, d \in Tests}
  \cup {Foreach("i", frm, to, body) : frm \in {1, 2}, to \in {1, 2}, body \in InBody(2)}
  \cup {For(<<Set("i", FALSE, 0)>>, Bit(1), <<Set("i", FALSE, 1)>>, body) : body \in InBody(2)}
  \cup {While(Always, Succeed)}
Nested == {Foreach("j", 1, 2, <<l>>) : l \in {While(Bit(1), <<When1(Not(Bit(2)), <<Control("break")>>)>> \o x) : x \in Plain(1)}
                                             \cup {Foreach("i", 2, 1, x) : x \in InBody(1)}}
Chains ==
  {If(<<BranchOf(c, x), BranchOf(d, <<At(X, 2, 0)>>), BranchOf(Bit(2), y)>>, <<>>) : c, d \in Tests, x, y \in Plain(1)}

Flow == {<<Both(1, 2, 0), <<s, At(Y, 2, 0), At(X, 1, 1)>>>> : s \in Loops1 \cup Nested \cup Chains}
          \cup {<<Both(1, 2, 0), <<s, t>>>> : s \in Chains, t \in {While(Always, Succeed), When1(Bit(2), <<At(X, 1, 0)>>)}}

\* What is refused: operands never measured, unsupported statements, signals in conflict.
Refused == {<<<<When(Bit(1), X, 1, 0)>>>>, <<<<While(Bit(2), <<At(X, 1, 0)>>)>>>>, <<<<While(Literal(FALSE), <<>>)>>>>,
            <<<<At(X, 2, 0), At(Y, 3, 0)>>>>, <<<<Goto(Always, Old(1))>>>>, <<<<Set("i", FALSE, -1)>>>>}

-----------------------------------------------------------------------------
(* Gates in and after the cycle in which a result is distributed, which    *)
(* costs every slot a cycle, and bodies that end in this or in that gate.  *)

Orders(a, b) == {<<a, b>>, <<b, a>>}
With(gate) == {<<At(Measure, 1, 0)>> \o o : o \in Orders(At(Distribute, 1, 2), gate)}
Afterwards(q) ==
  {<<>>, <<WaitAt(1, 3)>>} \cup {<<At(Y, q, c)>> : c \in 3..6} \cup {<<At(Y, q, 4), WaitAt(2, 5)>>}
  \cup {<<At(Measure, q, 4), At(Distribute, q, c)>> : c \in 6..7}
Beside ==
  {<<b \o e, <<When(Bit(1), X, 1, 0)>>>> :
     b \in With(At(X, 2, 2)) \cup With(At(Long, 3, 2)) \cup With(Custom(CZ, <<1, 2>>, Always, 2)) \cup With(At(Measure, 3, 2)),
     e \in Afterwards(2)}
  \cup {<<<<At(Measure, 2, 0)>> \o o \o <<At(Distribute, 3, c)>> \o e, <<When(Bit(3), X, 1, 0)>>>> :
          o \in Orders(At(Distribute, 2, 2), At(Measure, 3, 2)), c \in 4..6, e \in {<<>>, <<WaitAt(2, 7)>>, <<At(Measure, 2, 7)>>}}
  \cup {<<Both(1, 2, 0) \o <<At(Measure, 1, 4)>> \o o \o e, <<When(Bit(1), X, 1, 0)>>>> :
          o \in Orders(At(Distribute, 1, 6), When(Bit(2), X, 2, 6)), e \in {<<>>, <<At(Y, 1, 7)>>, <<At(Y, 1, 8)>>}}
  \cup {<<<<Custom(CZ, <<1, 2>>, Always, 0)>> \o o>> : o \in Orders(At(Measure, 3, 2), At(X, 1, 2))}

-----------------------------------------------------------------------------
(* What the generator reads in its own way.                                *)

Blocks(s) == <<Both(1, 2, 0), <<s>>, <<At(Y, 1, 0)>>>>
Tests2 == Tests \cup {Below("i", 1), Below("j", 0)}
Skips == {<<>>, <<When1(Bit(2), <<Control("continue")>>)>>, <<When1(Bit(2), <<Control("break")>>)>>,
          <<If(<<BranchOf(Bit(1), <<At(X, 1, 0)>>)>>, <<<<Control("continue")>>>>)>>}
Elses == {If(<<BranchOf(c, x)>>, <<y>>) : c \in Tests2, x, y \in Plain(1)}
           \cup {If(<<BranchOf(c, <<At(X, 2, 0)>>), BranchOf(d, x)>>, <<<<At(Y, 3, 0)>>>>) : c, d \in Tests2, x \in Plain(1)}
Untils == {Repeat(c, s \o x) : c \in Tests2, s \in Skips, x \in Plain(2)}
Fors == {For(<<Set("i", FALSE, a)>>, c, <<Set("i", FALSE, b)>>, s \o x) :
           a, b \in 0..1, c \in {Below("i", 1), Bit(1)}, s \in Skips, x \in Plain(2)}
Foreaches == {Foreach("i", frm, to, s \o x) : frm, to \in 1..2, s \in Skips, x \in Plain(1)}
Otherwise == {Blocks(s) : s \in Elses \cup Untils \cup Fors \cup Foreaches}
               \cup {Blocks(Foreach("j", 1, 2, <<l>>)) :
                        l \in {Repeat(Bit(1), <<e>>) : e \in {If(<<BranchOf(Bit(2), x)>>, <<<<Control("break")>>>>) : x \in Plain(1)}}}
Mixed == {<<Both(1, 2, 0), <<At(X, p, 0), When(c, Y, q, 0)>> \o e>> :
            p, q \in {1, 2}, c \in Gated, e \in {<<>>, <<At(Y, 1, 1), At(Y, 3, 1)>>}}

MCInputs == Straight \cup Flow \cup Refused \cup Beside \cup Otherwise \cup Mixed

-----------------------------------------------------------------------------
(* What goes wrong, whatever the Misreadings.                              *)

\* measure_fb, with the wait it ends in, then a correction.
PendingInputs == {<<Feedback(1, 0) \o <<WaitAt(1, 3), When1(Bit(1), <<At(X, 1, 0)>>)>>>>}
StaleInputs == {<<Feedback(1, 0), <<While(Bit(1), <<At(X, 1, 0), At(Measure, 1, 1), At(Distribute, 1, 3)>>)>>>>}
=============================================================================
