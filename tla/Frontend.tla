------------------------------ MODULE Frontend ------------------------------
(***************************************************************************)
(* From a cQASM file to the program that is lowered: the reader makes      *)
(* blocks of subcircuits and cycles of bundles, opt.ConstProp and          *)
(* opt.DeadCodeElim simplify what has constant conditions.                 *)
(***************************************************************************)
EXTENDS Program

(* The reader, with the schedule kept.  A subcircuit is a sequence of      *)
(* bundles and structured statements, their bodies are such sequences too. *)

\* A bundle takes a cycle, however many instructions are in it; skips take more.
AddBundle(block, bundle) ==
  LET AddItem(b, item) ==
        IF item.kind = "skip" THEN [b EXCEPT !.cycle = @ + item.cycles - 1]
        ELSE [b EXCEPT !.statements = Append(@, [item EXCEPT !.cycle = b.cycle])]
      done == FoldLeft(AddItem, block, bundle.items)
  IN [done EXCEPT !.cycle = @ + 1]

RECURSIVE ConvertBlock(_)
ConvertBlock(cqasm) ==
  LET At(block, s) == [s EXCEPT !.cycle = block.cycle]
      Converted(s) ==
        CASE s.kind = "if" -> [s EXCEPT !.branches = [i \in DOMAIN @ |-> [@[i] EXCEPT !.body = ConvertBlock(@)]],
                                        !.otherwise = [i \in DOMAIN @ |-> ConvertBlock(@[i])]]
          [] s.kind \in Loops -> [s EXCEPT !.body = ConvertBlock(@)]
          [] OTHER -> s
      Add(block, s) ==
        IF s.kind = "bundle" THEN AddBundle(block, s)
        ELSE [block EXCEPT !.statements = Append(@, At(block, Converted(s)))]
  IN FoldLeft(Add, [cycle |-> 0, statements |-> <<>>], cqasm).statements

EndsInGoto(subcircuit) ==
  /\ subcircuit # <<>> /\ Last(subcircuit).kind = "bundle" /\ Last(subcircuit).items # <<>>
  /\ LET s == Last(Last(subcircuit).items) IN s.kind = "goto" /\ s.condition = Literal(TRUE)

\* The blocks follow one another, but for a last unconditional goto.
Read(subcircuits, entry) ==
  LET n == Len(subcircuits)
      WithoutGoto(c) == Append(Front(c), [Last(c) EXCEPT !.items = Front(@)])
      Block(i) ==
        IF EndsInGoto(subcircuits[i])
          THEN [statements |-> ConvertBlock(WithoutGoto(subcircuits[i])),
                next       |-> Last(Last(subcircuits[i]).items).target]
          ELSE [statements |-> ConvertBlock(subcircuits[i]),
                next       |-> IF i < n THEN Old(i + 1) ELSE None]
  IN [blocks |-> [i \in 1 .. n |-> Block(i)], entry |-> Old(entry)]

-----------------------------------------------------------------------------
(* opt.ConstProp.  The function table makes an integer of operator!.       *)

RECURSIVE HandleExpression(_)
HandleExpression(c) ==
  IF c.kind # "not" THEN c
  ELSE LET of == HandleExpression(c.of)
       IN IF of.kind = "literal" THEN IntLiteral(IF of.value THEN 0 ELSE 1) ELSE Not(of)

\* Only the operands of a goto's condition are looked into.
RECURSIVE PropagateIn(_)
PropagateIn(stmts) ==
  LET InBranch(b) == [b EXCEPT !.condition = HandleExpression(@), !.body = PropagateIn(@)]
      In(s) ==
        CASE s.kind = "goto" /\ s.condition.kind = "not" ->
               [s EXCEPT !.condition = Not(HandleExpression(@.of))]
          [] s.kind = "if" -> [s EXCEPT !.branches  = [i \in DOMAIN @ |-> InBranch(@[i])],
                                        !.otherwise = [i \in DOMAIN @ |-> PropagateIn(@[i])]]
          [] s.kind = "foreach" -> [s EXCEPT !.body = PropagateIn(@)]
          [] s.kind \in {"for", "repeat"} ->
               [s EXCEPT !.condition = HandleExpression(@), !.body = PropagateIn(@)]
          [] OTHER -> s
  IN [i \in DOMAIN stmts |-> In(stmts[i])]

Propagate(p) == [p EXCEPT !.blocks = [i \in DOMAIN @ |-> [@[i] EXCEPT !.statements = PropagateIn(@)]]]

-----------------------------------------------------------------------------
(* opt.DeadCodeElim.                                                       *)

\* Everything behind branch k is unreachable, but the loop removes every other branch only.
RemoveBehind(branches, k) ==
  [i \in 1 .. k + (Len(branches) - k) \div 2 |-> IF i <= k THEN branches[i] ELSE branches[k + 2 * (i - k)]]

\* The list is walked by index.  When an if is replaced by n statements the index moves on as
\* if the if were still in front of them, so the statement behind them is passed over.
RECURSIVE EliminateFrom(_, _)
EliminateFrom(stmts, i) ==
  LET Body(b) == EliminateFrom(b, 1)
      \* The branches from k on: those with a false condition go, a true one is the last.
      RECURSIVE Walk(_, _)
      Walk(branches, k) ==
        IF k > Len(branches) THEN [branches |-> branches, taken |-> 0]
        ELSE LET c == branches[k].condition
                 seen == [branches EXCEPT ![k].body = Body(@)]
             IN IF c.kind # "literal" THEN Walk(seen, k + 1)
                ELSE IF c.value THEN [branches |-> RemoveBehind(seen, k), taken |-> k]
                ELSE Walk(RemoveAt(branches, k), k)
      Replace(new) == EliminateFrom(SubSeq(stmts, 1, i - 1) \o new \o SubSeq(stmts, i + 1, Len(stmts)),
                                    i + Len(new) + 1)
  IN
  IF i > Len(stmts) THEN stmts
  ELSE LET s == stmts[i] IN
    CASE s.kind \in Loops -> EliminateFrom([stmts EXCEPT ![i].body = Body(@)], i + 1)
      [] s.kind = "if" ->
           LET walked    == Walk(s.branches, 1)
               otherwise == IF walked.taken # 0 THEN <<>> ELSE [k \in DOMAIN s.otherwise |-> Body(s.otherwise[k])]
           IN IF walked.taken = 1 THEN Replace(walked.branches[1].body)
              ELSE IF walked.branches = <<>> THEN Replace(IF otherwise = <<>> THEN <<>> ELSE otherwise[1])
              ELSE EliminateFrom([stmts EXCEPT ![i].branches = walked.branches, ![i].otherwise = otherwise], i + 1)
      [] OTHER -> EliminateFrom(stmts, i + 1)

Eliminate(p) == [p EXCEPT !.blocks = [i \in DOMAIN @ |-> [@[i] EXCEPT !.statements = EliminateFrom(@, 1)]]]
=============================================================================
