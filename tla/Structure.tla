------------------------------ MODULE Structure -----------------------------
(***************************************************************************)
(* com/dec/structure.cc: the decomposer, which turns structured control    *)
(* flow into blocks of instructions, and com/cfg, the control-flow graph   *)
(* of the result.                                                          *)
(*                                                                         *)
(* The decomposer is a record of the blocks that have been made, in the    *)
(* order they are referred to, and the order in which they are in the      *)
(* program; statements are added to the last of these.  cycleOffset is     *)
(* added to the cycles of statements as they come in.                      *)
(***************************************************************************)
EXTENDS Program, FiniteSetsExt

NewDecomposer ==
  [made |-> <<>>, order |-> <<>>, remap |-> <<>>, breakTo |-> <<>>, continueTo |-> <<>>,
   cycleOffset |-> 0, previousCycle |-> 0]

Back(d) == Last(d.order)
\* get_duration_of_block(), as an Int.  The maximum is one of unsigned integers, among which
\* the ends that lie before the block are the largest.
Duration(d) ==
  LET stmts  == d.made[Back(d)].statements
      ends   == {stmts[i].cycle + (IF stmts[i].kind = "gate" THEN stmts[i].duration ELSE 0) : i \in DOMAIN stmts}
      before == {end \in ends : end < 0}
  IN IF before # {} THEN Max(before) ELSE Max(ends \cup {0})

LinkNext(d, from, block) == [d EXCEPT !.made[from].next = block]

\* new_block(false): a block that is not in the list yet.
MakeBlock(d) == [d EXCEPT !.made = Append(@, [statements |-> <<>>, next |-> None])]
Newest(d) == Len(d.made)

\* new_block(): the block at the back continues in the new one, unless it goes elsewhere.
NewBlock(d) ==
  LET made   == MakeBlock(d)
      linked == IF d.order # <<>> /\ d.made[Back(d)].next = None
                  THEN LinkNext(made, Back(d), New(Newest(made))) ELSE made
  IN [linked EXCEPT !.order = Append(@, Newest(made)), !.cycleOffset = -d.previousCycle]

\* Nothing follows a goto in a block.
ProcessInstruction(d, insn) ==
  LET stmts == d.made[Back(d)].statements
      e == IF stmts # <<>> /\ Last(stmts).kind = "goto" THEN NewBlock(d) ELSE d
  IN [e EXCEPT !.made[Back(e)].statements = Append(@, [insn EXCEPT !.cycle = @ + e.cycleOffset]),
               !.previousCycle = insn.cycle]

\* Mutant: instructions of the decomposer's own are put where the last body was.
ProcessUnmoved(d, insn) == ProcessInstruction(d, [insn EXCEPT !.cycle = 0])

\* Instructions of the decomposer's own come at the end of the block.
ProcessNewInstruction(d, insn) ==
  ProcessInstruction([d EXCEPT !.cycleOffset = Duration(d)], [insn EXCEPT !.cycle = 0])

SetTarget(d, block, target) ==
  [d EXCEPT !.made[block].statements[Len(d.made[block].statements)].target = target]

-----------------------------------------------------------------------------
(* Loops: LoopBody's constructor, start_loop_update_and_condition(), the   *)
(* jump back, and LoopBody's destructor.                                   *)

OpenLoop(d) ==
  LET after     == MakeBlock(d)
      condition == MakeBlock(after)
  IN [NewBlock(condition) EXCEPT !.breakTo    = Append(@, Newest(after)),
                                 !.continueTo = Append(@, Newest(condition))]

StartLoopCondition(d) ==
  LET condition == Last(d.continueTo)
  IN [LinkNext(d, Back(d), New(condition)) EXCEPT !.order = Append(@, condition)]

JumpBack(d, condition, start) ==
  LET e == ProcessNewInstruction(d, Goto(condition, New(start)))
  IN LinkNext(e, Back(e), New(Last(e.breakTo)))

\* body is the decomposer at the end of the loop's body.
CloseLoop(d, body) ==
  [d EXCEPT !.order = Append(@, Last(d.breakTo)), !.cycleOffset = -body.previousCycle,
            !.breakTo = Front(@), !.continueTo = Front(@)]

\* Mutant: what follows a break or continue stays in its block.
LinkLoopControl(d, s) ==
  LinkNext(d, Back(d), New(Last(IF s.kind = "break" THEN d.breakTo ELSE d.continueTo)))

\* break and continue leave a block behind that nothing leads to.
ProcessLoopControl(d, s) ==
  NewBlock(LinkNext(d, Back(d), New(Last(IF s.kind = "break" THEN d.breakTo ELSE d.continueTo))))

-----------------------------------------------------------------------------

RECURSIVE ProcessStatement(_, _)

ProcessBlockBase(d, stmts) ==
  FoldLeft(LAMBDA e, s : ProcessStatement(e, s), [d EXCEPT !.cycleOffset = Duration(d)], stmts)

\* The jumps to the branches, the otherwise, the branches, and a block in which all continue.
ProcessIfElse(d, s) ==
  LET AddJump(a, branch) ==
        LET e == ProcessNewInstruction(a.d, Goto(branch.condition, None))
        IN [d |-> e, jumps |-> Append(a.jumps, Back(e))]
      jumped == FoldLeft(AddJump, [d |-> d, jumps |-> <<>>], s.branches)
      else   == IF s.otherwise # <<>> THEN ProcessBlockBase(jumped.d, s.otherwise[1]) ELSE jumped.d
      AddBody(a, i) ==
        LET e == NewBlock(a.d)
            f == ProcessBlockBase(SetTarget(e, jumped.jumps[i], New(Back(e))), s.branches[i].body)
        IN [d |-> f, ends |-> Append(a.ends, Back(f))]
      bodies == FoldLeft(AddBody, [d |-> else, ends |-> <<Back(else)>>], [i \in DOMAIN s.branches |-> i])
      after  == NewBlock(bodies.d)
  IN FoldLeft(LAMBDA e, block : LinkNext(e, block, New(Back(after))), after, bodies.ends)

\* The update comes first in the body, and is passed by on the way in.
ProcessStaticLoop(d, s) ==
  LET first  == ProcessNewInstruction(d, Set(s.lhs, FALSE, s.frm))
      open   == OpenLoop(first)
      update == ProcessNewInstruction(open, Set(s.lhs, TRUE, IF s.to > s.frm THEN 1 ELSE -1))
      inside == NewBlock(update)
      body   == ProcessBlockBase(LinkNext(inside, Back(first), New(Back(inside))), s.body)
      back   == JumpBack(StartLoopCondition(body), Differs(s.lhs, s.to), Back(open))
  IN CloseLoop(back, body)

ProcessForLoop(d, s) ==
  LET first  == IF s.initialize # <<>> THEN ProcessNewInstruction(d, s.initialize[1]) ELSE d
      past   == ProcessNewInstruction(first, Goto(Not(s.condition), None))
      open   == OpenLoop(past)
      inside == LinkNext(SetTarget(open, Back(past), New(Last(open.breakTo))), Back(past), New(Back(open)))
      body   == ProcessBlockBase(inside, s.body)
      cond   == StartLoopCondition(body)
      update == IF s.update # <<>> THEN ProcessNewInstruction(cond, s.update[1]) ELSE cond
  IN CloseLoop(JumpBack(update, s.condition, Back(open)), body)

ProcessRepeatUntil(d, s) ==
  LET open == OpenLoop(d)
      body == ProcessBlockBase(open, s.body)
  IN CloseLoop(JumpBack(StartLoopCondition(body), Not(s.condition), Back(open)), body)

ProcessStatement(d, s) ==
  LET e == CASE s.kind \in Instructions -> ProcessInstruction(d, s)
             [] s.kind = "if"      -> ProcessIfElse(d, s)
             [] s.kind = "foreach" -> ProcessStaticLoop(d, s)
             [] s.kind = "for"     -> ProcessForLoop(d, s)
             [] s.kind = "repeat"  -> ProcessRepeatUntil(d, s)
             [] s.kind \in {"break", "continue"} -> ProcessLoopControl(d, s)
  IN [e EXCEPT !.previousCycle = s.cycle]

\* A block of the program, the next one.
ProcessBlock(d, block) ==
  LET start == NewBlock(d)
      end   == ProcessBlockBase([start EXCEPT !.remap = Append(@, Back(start))], block.statements)
  IN LinkNext(end, Back(end), block.next)

\* The end of process_program(): references to blocks as read become references to new blocks.
Finish(d, p) ==
  LET Update(ref) == IF ref[1] = "old" THEN New(d.remap[ref[2]]) ELSE ref
      UpdateInsn(s) == IF s.kind = "goto" THEN [s EXCEPT !.target = Update(@)] ELSE s
  IN [blocks |-> [b \in DOMAIN d.made |->
                    [statements |-> [i \in DOMAIN d.made[b].statements |-> UpdateInsn(d.made[b].statements[i])],
                     next       |-> Update(d.made[b].next)]],
      entry  |-> Update(p.entry)]

\* check_basic_block_form().
BasicBlockForm(p) ==
  \A b \in DOMAIN p.blocks :
    LET stmts == p.blocks[b].statements
    IN \A i \in DOMAIN stmts : /\ stmts[i].kind \in Instructions
                                /\ stmts[i].kind = "goto" => i = Len(stmts)

\* What check_consistency() says of conditions, and make_function_call() of operator!.
RECURSIVE IsBit(_)
IsBit(c) == CASE c.kind = "int" -> FALSE [] c.kind = "not" -> IsBit(c.of) [] OTHER -> TRUE

Conditional(p) ==
  \A b \in DOMAIN p.blocks : \A i \in DOMAIN p.blocks[b].statements :
    LET s == p.blocks[b].statements[i] IN s.kind = "goto" => IsBit(s.condition)

-----------------------------------------------------------------------------
(* com/cfg: an edge per goto and next; None stands for the sink.           *)

\* Mutant: a block that ends in a goto goes nowhere else.
EdgesOfLast(p) ==
  UNION {LET targets == {s.target : s \in {t \in Range(p.blocks[b].statements) : t.kind = "goto"}}
         IN {<<New(b), block>> : block \in IF targets = {} THEN {p.blocks[b].next} ELSE targets} :
         b \in DOMAIN p.blocks}

EdgesOf(p) ==
  UNION {{<<New(b), p.blocks[b].next>>}
           \cup {<<New(b), s.target>> : s \in {t \in Range(p.blocks[b].statements) : t.kind = "goto"}} :
         b \in DOMAIN p.blocks}

\* add_edge() asserts this of each edge.
NoSelfEdge(p) == \A e \in EdgesOf(p) : e[1] # e[2]
=============================================================================
