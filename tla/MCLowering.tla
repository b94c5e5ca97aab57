----------------------------- MODULE MCLowering -----------------------------
(* Programs of two subcircuits with structured statements in the first, up to   *)
(* loops and branches in loops.  The gates of a program have different names.   *)
EXTENDS Lowering

\* The statements of a cQASM file.
Bundle(items) == [kind |-> "bundle", items |-> items]
G(name) == Bundle(<<Gate(name, 1)>>)
Skip(n) == Bundle(<<[kind |-> "skip", cycles |-> n]>>)
Jump0(target) == Bundle(<<Goto(Literal(TRUE), Old(target))>>)
JumpIf(b, target) == Bundle(<<Goto(Bit(b), Old(target))>>)
Control(kind) == [kind |-> kind, cycle |-> 0]
BranchOf(c, body) == [condition |-> c, body |-> body]
If(branches, otherwise) == [kind |-> "if", branches |-> branches, otherwise |-> otherwise, cycle |-> 0]
Foreach(v, frm, to, body) == [kind |-> "foreach", lhs |-> v, frm |-> frm, to |-> to, body |-> body, cycle |-> 0]
For(initialize, c, update, body) ==
  [kind |-> "for", initialize |-> initialize, condition |-> c, update |-> update, body |-> body, cycle |-> 0]
While(c, body) == For(<<>>, c, <<>>, body)
Repeat(c, body) == [kind |-> "repeat", condition |-> c, body |-> body, cycle |-> 0]

MCBits == {"a", "b"}
MCVars == {"i", "j"}

\* Bodies; n keeps the names of their gates apart.
Plain(n) == {<<G(n)>>, <<JumpIf("a", 2)>>, <<Jump0(1)>>, <<>>, <<G(n), Skip(2), G(n \o "'")>>,
             <<Bundle(<<Gate(n, 2), Gate(n \o "'", 1)>>)>>}
InLoops(n) ==
  Plain(n) \cup
  {<<Control("break")>>, <<Control("continue")>>,
   <<If(<<BranchOf(Bit("a"), <<Control("break")>>)>>, <<>>), G(n)>>,
   <<If(<<BranchOf(Bit("b"), <<Control("continue")>>)>>, <<<<G(n)>>>>)>>,
   <<If(<<BranchOf(Literal(TRUE), <<G(n)>>)>>, <<>>), Control("break")>>}

LoopsOver(body, v) ==
  {Foreach(v, 0, 1, body), Foreach(v, 1, 0, body), While(Bit("a"), body), Repeat(Bit("b"), body),
   For(<<Set(v, FALSE, 0)>>, Below(v, 2), <<Set(v, TRUE, 1)>>, body)}

Conditions == {Literal(TRUE), Literal(FALSE), Bit("a")}
Otherwise(n) == {<<>>, <<<<G(n)>>>>}

Ifs ==
  {If(<<BranchOf(c, x)>>, y) : c \in Conditions, x \in Plain("p"), y \in Otherwise("r")}
  \cup {If(<<BranchOf(c, <<G("p")>>), BranchOf(d, x), BranchOf(e, <<G("q")>>), BranchOf(Bit("b"), <<>>)>>, y) :
          c, d, e \in Conditions, x \in {<<>>, <<G("s")>>}, y \in Otherwise("r")}
FlatLoops == UNION {LoopsOver(x \o y, "i") : x \in InLoops("p"), y \in InLoops("q")}
NestedLoops ==
  UNION {LoopsOver(<<l>> \o y, "i") :
           l \in UNION {LoopsOver(x, "j") : x \in InLoops("p")},
           y \in {<<>>, <<If(<<BranchOf(Bit("b"), <<Control("continue")>>)>>, <<>>), G("q")>>}}
OddConditions == {While(Not(Literal(FALSE)), <<G("p"), If(<<BranchOf(Bit("a"), <<Control("break")>>)>>, <<>>)>>),
                  If(<<BranchOf(Not(Literal(TRUE)), <<G("p")>>), BranchOf(Not(Bit("a")), <<G("q")>>)>>, <<>>)}

\* What follows the statement, and what the second subcircuit does.
After == {<<G("y"), Skip(1), G("y'")>>,
          <<If(<<BranchOf(Literal(FALSE), <<G("y")>>)>>, <<<<G("y'")>>>>), JumpIf("b", 1)>>}
Second == {<<G("z")>>, <<JumpIf("b", 1), G("z"), Jump0(1)>>, <<Jump0(2)>>}

MCInputs ==
  {[subcircuits |-> <<<<G("x"), s>> \o t, u>>, entry |-> 1] : s \in Ifs \cup OddConditions, t \in After, u \in Second}
  \cup {[subcircuits |-> <<<<s>> \o t, <<G("z")>>>>, entry |-> 1] :
          s \in FlatLoops \cup NestedLoops, t \in After}
  \cup {[subcircuits |-> <<<<s>>, <<G("z"), Jump0(1)>>>>, entry |-> 2] : s \in OddConditions \cup Ifs}

\* Kept schedules: a gate before an if and a gate after it.
ScheduledInputs ==
  {[subcircuits |-> <<<<G("x"), If(<<BranchOf(Bit("a"), body)>>, <<>>), G("y")>>>>, entry |-> 1] :
     body \in {<<G("p")>>, <<G("p"), G("q")>>, <<G("p"), Skip(1), G("q"), G("r")>>}}
=============================================================================
