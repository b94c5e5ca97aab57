------------------------------ MODULE Lowering ------------------------------
(***************************************************************************)
(* A cQASM program on its way to basic blocks: read, simplified by         *)
(* opt.ConstProp and opt.DeadCodeElim where the compiler runs them, and    *)
(* decomposed by dec.Structure, block by block.  In the end the program    *)
(* that was read and the one that was made run side by side, from gate to  *)
(* gate, on the same bits.                                                 *)
(***************************************************************************)
EXTENDS Frontend, Structure

CONSTANTS Inputs,    \* [subcircuits, entry]
          Passes,    \* the optional passes in front of dec.Structure
          Bits, Vars,
          Patience   \* bound on the steps without a gate, after which there will be none

VARIABLES
  input,
  phase,        \* "read", "simplify", "decompose", "check", "run" or "failed"
  read,         \* the program as read
  program,      \* the IR
  ran,          \* the optional passes that have run
  decomposer,
  places,       \* before which gate each of the two programs is
  bits,
  variables     \* the variables of each

vars == <<input, phase, read, program, ran, decomposer, places, bits, variables>>

ASSUME LoweringAssumption ==
  /\ Passes \subseteq {"opt.ConstProp", "opt.DeadCodeElim"}
  /\ Patience \in Nat

Empty == [blocks |-> <<>>, entry |-> None]

Init ==
  /\ input \in Inputs
  /\ phase = "read"
  /\ read = Empty /\ program = Empty
  /\ ran = {}
  /\ decomposer = NewDecomposer
  /\ places = [made |-> <<>>, read |-> <<>>]
  /\ bits = [b \in Bits |-> FALSE]
  /\ variables = [made |-> [v \in Vars |-> 0], read |-> [v \in Vars |-> 0]]

execution == <<places, bits, variables>>

ReadFile ==
  /\ phase = "read"
  /\ phase' = "simplify"
  /\ read' = Read(input.subcircuits, input.entry)
  /\ program' = read'
  /\ UNCHANGED <<input, ran, decomposer, execution>>

RunPass(pass) ==
  /\ phase = "simplify" /\ pass \notin ran
  /\ program' = IF pass = "opt.ConstProp" THEN Propagate(program) ELSE Eliminate(program)
  /\ ran' = ran \cup {pass}
  /\ UNCHANGED <<input, phase, read, decomposer, execution>>

StartDecomposing ==
  /\ phase = "simplify"
  /\ phase' = "decompose"
  /\ ran' = {}
  /\ UNCHANGED <<input, read, program, decomposer, execution>>

Decompose ==
  /\ phase = "decompose" /\ Len(decomposer.remap) < Len(program.blocks)
  /\ decomposer' = ProcessBlock(decomposer, program.blocks[Len(decomposer.remap) + 1])
  /\ UNCHANGED <<input, phase, read, program, ran, execution>>

\* The postconditions of the pass are checked, also in a release build.
FinishDecomposing ==
  /\ phase = "decompose" /\ Len(decomposer.remap) = Len(program.blocks)
  /\ program' = Finish(decomposer, program)
  /\ phase' = IF BasicBlockForm(program') /\ Conditional(program') THEN "check" ELSE "failed"
  /\ UNCHANGED <<input, read, ran, decomposer, execution>>

\* The option write_dot_graph builds the control-flow graph, writes it and removes it again.
WriteDotGraph ==
  /\ phase = "check" /\ ~NoSelfEdge(program)
  /\ phase' = "failed"
  /\ UNCHANGED <<input, read, program, ran, decomposer, execution>>

StartRunning ==
  /\ phase = "check"
  /\ phase' = "run"
  /\ places' = [made |-> Enter(program, program.entry), read |-> Enter(read, read.entry)]
  /\ decomposer' = NewDecomposer
  /\ UNCHANGED <<input, read, program, ran, bits, variables>>

\* What either program does next.
Made == ToGate(program, places.made, bits, variables.made, Patience)
AsRead == ToGate(read, places.read, bits, variables.read, Patience)

\* Both programs make their gate, whatever it does to the bits.
MakeGate ==
  /\ phase = "run"
  /\ Made.stack # <<>> /\ AsRead.stack # <<>>
  /\ places' = [made |-> PastGate(Made.stack), read |-> PastGate(AsRead.stack)]
  /\ variables' = [made |-> Made.vars, read |-> AsRead.vars]
  /\ bits' \in [Bits -> BOOLEAN]
  /\ UNCHANGED <<input, phase, read, program, ran, decomposer>>

Next == ReadFile \/ (\E pass \in Passes : RunPass(pass)) \/ StartDecomposing \/ Decompose
          \/ FinishDecomposing \/ WriteDotGraph \/ StartRunning \/ MakeGate

Spec == Init /\ [][Next]_vars

-----------------------------------------------------------------------------
(* Properties.                                                             *)

\* pass/dec/structure/structure.cc: "This doesn't change the behavior of the program".  Gate for
\* gate the two programs do the same, with the same variables, and end or go on silently together.
BehaviourKept ==
  phase = "run" => /\ Made.gate = AsRead.gate
                   /\ Made.gate # "never" => Made.vars = AsRead.vars

\* com/cfg/build.cc: a program that is in basic-block form never goes from one block to
\* another, or to its end, but along an edge of the graph.
GraphCoversFlow == phase = "run" => Made.jumps \subseteq EdgesOf(program)

\* When the last statement in a structured statement starts, counted from the start of its body.
LastCycle(s) ==
  LET full == SelectSeq(BodiesOf(s), LAMBDA b : b # <<>>)
  IN IF full = <<>> THEN 0 ELSE Last(Last(full)).cycle

\* No statement is scheduled before its block or before the statement in front of it.
InOrder(stmts) == \A i \in DOMAIN stmts : stmts[i].cycle >= IF i = 1 THEN 0 ELSE stmts[i - 1].cycle

\* No body starts its last statement later than the program starts the instruction behind it.
Fits(body) ==
  \A k \in 1 .. Len(body) - 1 :
    body[k + 1].kind \in Instructions => LastCycle(body[k]) <= body[k + 1].cycle

\* Gates that follow one another in a body still do in some block, at the distance they had.
Spaced(body, blocks) ==
  \A k \in 1 .. Len(body) - 1 : body[k].kind = "gate" /\ body[k + 1].kind = "gate" =>
    \E b \in DOMAIN blocks :
      LET stmts == blocks[b].statements
      IN \E j \in 1 .. Len(stmts) - 1 :
           /\ stmts[j]     = [body[k] EXCEPT !.cycle = stmts[j].cycle]
           /\ stmts[j + 1] = [body[k + 1] EXCEPT !.cycle = stmts[j].cycle + @ - body[k].cycle]

\* pass/dec/structure.cc: "This pass does its best to preserve the schedule" and "The schedule
\* *should* at least be correct".  Distances within bodies are kept.  A schedule that is in order in
\* every body stays so, in whatever way statements are nested, unless a body is longer than the
\* program in front of the instruction behind it, and then it never does.
ScheduleKept ==
  phase = "decompose" =>
    LET bodies == UNION {Bodies(program.blocks[i].statements) : i \in DOMAIN decomposer.remap}
        made   == decomposer.made
    IN /\ \A body \in bodies : Spaced(body, made)
       /\ (\A body \in bodies : InOrder(body)) =>
            ((\A b \in DOMAIN made : InOrder(made[b].statements)) <=> \A body \in bodies : Fits(body))

\* What the comment promises of all programs.
ScheduleCorrect ==
  phase = "check" => \A b \in DOMAIN program.blocks : InOrder(program.blocks[b].statements)

=============================================================================
