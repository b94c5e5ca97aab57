------------------------------- MODULE Program ------------------------------
(***************************************************************************)
(* ir.tree: programs of named blocks with structured control flow, and     *)
(* what they do.  Gates are all that can be seen of a program; conditions  *)
(* are bits, which the gates may change in any way, or comparisons of      *)
(* integer variables, which set instructions and loops change.             *)
(***************************************************************************)
EXTENDS Integers, Sequences, SequencesExt

Literal(b)        == [kind |-> "literal", value |-> b]
IntLiteral(n)     == [kind |-> "int", number |-> n]
Bit(b)            == [kind |-> "bit", bit |-> b]
Not(c)            == [kind |-> "not", of |-> c]
Differs(v, n)     == [kind |-> "differs", var |-> v, limit |-> n]
Below(v, n)       == [kind |-> "below", var |-> v, limit |-> n]
TwoBits(op, a, b) == [kind |-> op, left |-> a, right |-> b]

\* References to blocks: none, a block of the program as read, or one the decomposer made.
None   == <<"none", 0>>
Old(i) == <<"old", i>>
New(i) == <<"new", i>>

Gate(name, duration)    == [kind |-> "gate", name |-> name, duration |-> duration, cycle |-> 0]
Set(v, relative, n)     == [kind |-> "set", var |-> v, relative |-> relative, value |-> n, cycle |-> 0]
Goto(condition, target) == [kind |-> "goto", condition |-> condition, target |-> target, cycle |-> 0]
Wait(duration)          == [kind |-> "wait", duration |-> duration, cycle |-> 0]

Instructions == {"gate", "set", "goto"}
Loops == {"foreach", "for", "repeat"}

\* The bodies of a statement, in the order in which the decomposer takes them, and all bodies in
\* one another.
BodiesOf(s) ==
  CASE s.kind = "if"    -> s.otherwise \o [i \in DOMAIN s.branches |-> s.branches[i].body]
    [] s.kind \in Loops -> <<s.body>>
    [] OTHER            -> <<>>

RECURSIVE Bodies(_)
Bodies(stmts) == {stmts} \cup UNION {UNION {Bodies(b) : b \in Range(BodiesOf(s))} : s \in Range(stmts)}

-----------------------------------------------------------------------------
(* Running a program.  A place is a stack of frames, the innermost first:  *)
(* what is left of a body, and what it is the body of.  The last frame     *)
(* belongs to a block.                                                     *)

RECURSIVE Holds(_, _, _)
Holds(c, bits, vars) ==
  CASE c.kind = "literal" -> c.value
    [] c.kind = "int"     -> c.number # 0
    [] c.kind = "bit"     -> bits[c.bit]
    [] c.kind = "not"     -> ~Holds(c.of, bits, vars)
    [] c.kind = "differs" -> vars[c.var] # c.limit
    [] c.kind = "below"   -> vars[c.var] < c.limit
    [] c.kind = "and"     -> bits[c.left] /\ bits[c.right]
    [] c.kind = "or"      -> bits[c.left] \/ bits[c.right]
    [] c.kind = "xor"     -> bits[c.left] # bits[c.right]
    [] c.kind = "equal"   -> bits[c.left] = bits[c.right]

Assign(vars, s) == [vars EXCEPT ![s.var] = s.value + IF s.relative THEN @ ELSE 0]

Frame(stmts, of) == [rest |-> stmts, of |-> of]
Branch == [kind |-> "branch"]

\* The start of a block; nowhere when there is none, which ends the program.
Enter(p, block) ==
  IF block = None THEN <<>>
  ELSE <<Frame(p.blocks[block[2]].statements,
               [kind |-> "block", self |-> block, next |-> p.blocks[block[2]].next])>>

\* From the end of the loop body on top of the stack, or of a continue in it: on to the next
\* iteration or out of the loop.
NextIteration(stack, bits, vars) ==
  LET loop == Head(stack).of
      vars2 == CASE loop.kind = "foreach" /\ vars[loop.lhs] # loop.to ->
                      [vars EXCEPT ![loop.lhs] = IF loop.to > loop.frm THEN @ + 1 ELSE @ - 1]
                 [] loop.kind = "for" /\ loop.update # <<>> -> Assign(vars, loop.update[1])
                 [] OTHER -> vars
      again == CASE loop.kind = "foreach" -> vars[loop.lhs] # loop.to
                 [] loop.kind = "for"     -> Holds(loop.condition, bits, vars2)
                 [] loop.kind = "repeat"  -> ~Holds(loop.condition, bits, vars2)
  IN [stack |-> (IF again THEN <<Frame(loop.body, loop)>> ELSE <<>>) \o Tail(stack), vars |-> vars2]

\* The Central Controller's continue, "restart" here: a jump to the label of the loop, in front of
\* the condition of a for loop, but behind every update.
Restart(stack, bits, vars) ==
  LET loop  == Head(stack).of
      again == loop.kind = "for" => Holds(loop.condition, bits, vars)
  IN (IF again THEN <<Frame(loop.body, loop)>> ELSE <<>>) \o Tail(stack)

\* The stack from its innermost loop body on.
InLoop(stack) ==
  LET k == SelectInSeq(stack, LAMBDA f : f.of.kind \in Loops)
  IN SubSeq(stack, k, Len(stack))

\* One step that is not a gate.
Step(p, stack, bits, vars) ==
  LET top   == Head(stack)
      s     == Head(top.rest)
      after == <<Frame(Tail(top.rest), top.of)>> \o Tail(stack)
      Go(new)       == [stack |-> new, vars |-> vars]
      Into(body, v) == [stack |-> <<Frame(body, IF s.kind = "if" THEN Branch ELSE s)>> \o after, vars |-> v]
  IN
  CASE top.rest = <<>> /\ top.of.kind = "block"  -> Go(Enter(p, top.of.next))
    [] top.rest = <<>> /\ top.of.kind = "branch" -> Go(Tail(stack))
    [] top.rest = <<>> /\ top.of.kind \in Loops  -> NextIteration(stack, bits, vars)
    [] OTHER ->
       CASE s.kind = "set"  -> [stack |-> after, vars |-> Assign(vars, s)]
         [] s.kind = "wait" -> Go(after)
         [] s.kind = "goto" -> Go(IF Holds(s.condition, bits, vars) THEN Enter(p, s.target) ELSE after)
         [] s.kind = "if"   ->
              LET taken == SelectInSeq(s.branches, LAMBDA b : Holds(b.condition, bits, vars))
              IN IF taken # 0 THEN Into(s.branches[taken].body, vars)
                 ELSE IF s.otherwise # <<>> THEN Into(s.otherwise[1], vars) ELSE Go(after)
         [] s.kind = "foreach" -> Into(s.body, [vars EXCEPT ![s.lhs] = s.frm])
         [] s.kind = "for" ->
              LET v == IF s.initialize # <<>> THEN Assign(vars, s.initialize[1]) ELSE vars
              IN IF Holds(s.condition, bits, v) THEN Into(s.body, v) ELSE [stack |-> after, vars |-> v]
         [] s.kind = "repeat"   -> Into(s.body, vars)
         [] s.kind = "break"    -> Go(Tail(InLoop(stack)))
         [] s.kind = "continue" -> NextIteration(InLoop(stack), bits, vars)
         [] s.kind = "restart"  -> Go(Restart(InLoop(stack), bits, vars))

\* The blocks between which the step transfers control, if it does.
Jump(stack, next, bits, vars) ==
  LET top == Head(stack)
      leaves == \/ top.rest = <<>> /\ top.of.kind = "block"
                \/ /\ top.rest # <<>> /\ Head(top.rest).kind = "goto"
                   /\ Holds(Head(top.rest).condition, bits, vars)
  IN IF leaves THEN {<<Last(stack).of.self, IF next = <<>> THEN None ELSE Last(next).of.self>>} ELSE {}

\* On to the next gate: which one it is, the place before it, the variables then, and the
\* transfers of control between blocks on the way.  A program that has made no gate within so
\* many steps never will: the bits only change at gates.
RECURSIVE ToGate(_, _, _, _, _)
ToGate(p, stack, bits, vars, patience) ==
  LET Stop(gate) == [gate |-> gate, vars |-> vars, jumps |-> {},
                     stack |-> IF gate = "never" THEN <<>> ELSE stack]
  IN
  CASE stack = <<>> -> Stop("end")
    [] stack # <<>> /\ Head(stack).rest # <<>> /\ Head(Head(stack).rest).kind = "gate" ->
         Stop(Head(Head(stack).rest).name)
    [] OTHER ->
         IF patience = 0 THEN Stop("never")
         ELSE LET next == Step(p, stack, bits, vars)
                  rest == ToGate(p, next.stack, bits, next.vars, patience - 1)
              IN [rest EXCEPT !.jumps = @ \cup Jump(stack, next.stack, bits, vars)]

\* The place behind the gate that is next.
PastGate(stack) == <<Frame(Tail(Head(stack).rest), Head(stack).of)>> \o Tail(stack)
=============================================================================
