----------------------------- MODULE Controller ------------------------------
(***************************************************************************)
(* A structured, scheduled program and the code that is generated for it,  *)
(* side by side.  The code is executed by the Central Controller, which    *)
(* is not part of the repository: a sequencer that all slots share, in     *)
(* which every slot keeps its own time, as far as the comments in          *)
(* functions.cc and datapath.cc describe it.  Invalidation of the DSM, and *)
(* the latency of what is written to it, are left out.                     *)
(***************************************************************************)
EXTENDS CodeGenerator

CONSTANTS Inputs,     \* programs: sequences of bodies, run one after the other
          Qubits, Vars,
          Misreadings, \* what the generator is known to read otherwise than it is written
          Patience    \* bound on the steps without a bundle, after which there will be none

VARIABLES
  program,
  phase,        \* "generate", "run" or "failed"
  generated,    \* how many blocks code has been generated for
  generator,
  machine,      \* the controller
  place,        \* where the program is
  bits,         \* the bits of the program
  variables,    \* the variables of the program
  expected      \* what the program did last, as what the controller did last is in the machine

vars == <<program, phase, generated, generator, machine, place, bits, variables, expected>>

ASSUME ControllerAssumption ==
  /\ Patience \in Nat /\ Qubits \subseteq Nat
  /\ Misreadings \subseteq {"below", "until", "otherwise", "continue", "mixed"}

-----------------------------------------------------------------------------
(* The controller.                                                         *)

Nothing == [outputs |-> {}, times |-> {}, ended |-> FALSE]

PowerUp ==
  [pc |-> 1, regs |-> [r \in Vars \cup {"tmp"} |-> 0], dsm |-> [b \in 0..(SmBits - 1) |-> FALSE],
   clock |-> [i \in Slots |-> 0], aligned |-> TRUE, busy |-> FALSE, did |-> Nothing]

Target(code, label) == CHOOSE k \in DOMAIN code : code[k].op = "label" /\ code[k].at = label

Spend(m, i, cycles) == [m EXCEPT !.clock[i] = @ + cycles]

\* A slot puts out values, from its time on.
Out(m, insn, values) ==
  Spend([m EXCEPT !.busy = TRUE,
                  !.did.outputs = @ \cup {<<insn.slot, v[1], v[2]>> : v \in values},
                  !.did.times = @ \cup {m.clock[insn.slot]}], insn.slot, insn.duration)

LogicOf(m, pl) ==
  {<<g, pl.logic[g].value>> : g \in
     {x \in DOMAIN pl.logic :
        Equation(pl.logic[x].type,
                 [k \in DOMAIN pl.logic[x].bits |-> m.dsm[pl.window * PlWindow + pl.logic[x].bits[k]]])}}

\* The results that the instrument in a slot has for its groups.
FetchInto(m, insn, mux, outcome) ==
  LET result(g) == outcome[CHOOSE q \in Instruments[insn.slot].groups[g] : TRUE]
      written == [b \in {mux.window * MuxWindow + mux.bits[g] : g \in DOMAIN mux.bits} |->
                    \E g \in DOMAIN mux.bits : mux.window * MuxWindow + mux.bits[g] = b /\ result(g)]
  IN Spend([m EXCEPT !.busy = TRUE, !.dsm = written @@ @], insn.slot, 1)

AlignedNow(m) == [m EXCEPT !.aligned = @ /\ \A i, j \in Slots : m.clock[i] = m.clock[j]]

\* One instruction.
Execute(code, dp, m, outcome) ==
  LET insn == code[m.pc]
      step == [m EXCEPT !.pc = @ + 1]
      JumpIf(condition) == IF condition THEN [m EXCEPT !.pc = Target(code, insn.to)] ELSE step
  IN CASE insn.op \in {"label", "bundle"} -> step
       [] insn.op = "block"     -> [AlignedNow(step) EXCEPT !.clock = [i \in Slots |-> 0]]
       [] insn.op = "block_end" -> AlignedNow(step)
       [] insn.op = "jmp"       -> JumpIf(TRUE)
       [] insn.op = "jlt"       -> JumpIf(m.regs[insn.reg] < insn.value)
       [] insn.op = "jge"       -> JumpIf(m.regs[insn.reg] >= insn.value)
       [] insn.op = "move"      -> [step EXCEPT !.regs[insn.reg] = insn.value]
       [] insn.op = "add"       -> [step EXCEPT !.regs[insn.reg] = @ + insn.value]
       [] insn.op = "read"      -> [step EXCEPT !.regs["tmp"] = IF m.dsm[insn.bit] THEN 1 ELSE 0,
                                                !.clock = [i \in Slots |-> @[i] + 3]]
       [] insn.op = "wait"      -> Spend(step, insn.slot, insn.cycles)
       [] insn.op = "inv_sm"    -> Spend(step, insn.slot, 1)
       [] insn.op = "out"       -> Out(step, insn, insn.values)
       [] insn.op = "out_sm"    -> Out(step, insn, LogicOf(m, dp.pls[insn.slot][insn.pl]))
       [] insn.op = "in_sm"     -> FetchInto(step, insn, dp.muxes[insn.slot][insn.mux], outcome)

\* To the end of the next bundle in which something is put out or taken in.
RECURSIVE RunBundle(_, _, _, _, _)
RunBundle(code, dp, m, outcome, patience) ==
  IF m.pc > Len(code) \/ patience = 0 THEN [m EXCEPT !.did.ended = TRUE]
  ELSE LET next == Execute(code, dp, m, outcome)
       IN IF m.busy /\ code[m.pc].op = "bundle" THEN next
          ELSE RunBundle(code, dp, next, outcome, patience - 1)

NextBundle(m, outcome) ==
  RunBundle(generator.code, generator.dp, [m EXCEPT !.busy = FALSE, !.did = Nothing], outcome, Patience)

-----------------------------------------------------------------------------
(* Programs as the generator reads them: as they are written, but for the  *)
(* Misreadings.                                                            *)

\* "below": the jump out is taken when `<' holds, not when it does not.
ReadCondition(c) == IF c.kind = "below" /\ "below" \in Misreadings THEN Not(c) ELSE c

\* "until": the loop goes on while the condition holds.
ReadUntil(c) == IF "until" \in Misreadings THEN Not(ReadCondition(c)) ELSE ReadCondition(c)

\* "otherwise": the last branch goes on into the body of the otherwise.
ReadBranches(branches, otherwise) ==
  LET goOn == [kind |-> "if", branches |-> <<[condition |-> Literal(TRUE), body |-> Head(otherwise)]>>,
               otherwise |-> <<>>, cycle |-> 0]
  IN IF "otherwise" \in Misreadings /\ otherwise # <<>>
     THEN [branches EXCEPT ![Len(branches)].body = Append(@, goOn)] ELSE branches

\* "continue": back to where the loop starts, past its update.
ReadContinue(s) == IF "continue" \in Misreadings THEN [s EXCEPT !.kind = "restart"] ELSE s

RECURSIVE ReadBody(_)
ReadBody(stmts) ==
  LET Branches(s)  == [k \in DOMAIN s.branches |-> [condition |-> ReadCondition(s.branches[k].condition),
                                                   body |-> ReadBody(s.branches[k].body)]]
      Otherwise(s) == [k \in DOMAIN s.otherwise |-> ReadBody(s.otherwise[k])]
      Read(s) ==
        CASE s.kind = "if"       -> [s EXCEPT !.branches = ReadBranches(Branches(s), Otherwise(s)), !.otherwise = Otherwise(s)]
          [] s.kind = "foreach"  -> [s EXCEPT !.body = ReadBody(@)]
          [] s.kind = "for"      -> [s EXCEPT !.condition = ReadCondition(@), !.body = ReadBody(@)]
          [] s.kind = "repeat"   -> [s EXCEPT !.condition = ReadUntil(@), !.body = ReadBody(@)]
          [] s.kind = "continue" -> ReadContinue(s)
          [] OTHER               -> s
  IN [k \in DOMAIN stmts |-> Read(stmts[k])]

-----------------------------------------------------------------------------
(* The program.                                                            *)

AsBlocks(p) ==
  [blocks |-> [k \in DOMAIN p |-> [statements |-> ReadBody(p[k]),
                                   next |-> IF k < Len(p) THEN Old(k + 1) ELSE None]]]

\* The gates of a body that start in the same cycle as the one that is next.
BundleAt(stack) ==
  LET rest == Head(stack).rest
      Other(s) == s.kind \notin {"gate", "wait", "set"} \/ s.cycle # Head(rest).cycle
      n == SelectInSeq(rest, Other)
  IN IF n = 0 THEN rest ELSE SubSeq(rest, 1, n - 1)

GatesOf(stmts) == SelectSeq(stmts, LAMBDA s : s.kind = "gate")
SetsOf(stmts)  == SelectSeq(stmts, LAMBDA s : s.kind = "set")
Skip(stack, n) == <<Frame(SubSeq(Head(stack).rest, n + 1, Len(Head(stack).rest)), Head(stack).of)>> \o Tail(stack)

\* What a gate asks of the instruments.
SignalsOf(gate) ==
  {LET at == SignalInfo(s.type, gate.qubits[s.operand]) IN <<at[1], at[2], s.value>> :
     s \in {x \in Range(gate.signals) : x.value # ""}}

\* What the gates of a bundle make the instruments put out.  "mixed": where an instrument has
\* conditional gates, its unconditional ones are left out.
PutOut(gates, done) ==
  LET Slot(signal) == signal[1]
      conditional == {Slot(x) : x \in UNION {SignalsOf(g) : g \in {x \in gates : x.condition # Literal(TRUE)}}}
      Lost(g, x)  == "mixed" \in Misreadings /\ g.condition = Literal(TRUE) /\ Slot(x) \in conditional
  IN UNION {{x \in SignalsOf(g) : ~Lost(g, x)} : g \in done}

-----------------------------------------------------------------------------

Init ==
  /\ program \in Inputs
  /\ phase = "generate"
  /\ generated = 0
  /\ generator = NewGenerator
  /\ machine = PowerUp
  /\ place = <<>>
  /\ bits = [q \in Qubits |-> FALSE]
  /\ variables = [v \in Vars |-> 0]
  /\ expected = Nothing

execution == <<machine, place, bits, variables, expected>>

\* Blocks are taken as they come, whatever follows them in the program.
StartBlock ==
  /\ phase = "generate" /\ generator.agenda = <<>> /\ generated < Len(program)
  /\ generator' = [generator EXCEPT !.agenda = <<Body(<<<<"block", generated + 1>>>>, program[generated + 1])>>]
  /\ generated' = generated + 1
  /\ UNCHANGED <<program, phase, execution>>

Generate ==
  /\ phase = "generate" /\ generator.agenda # <<>>
  /\ generator' = Perform(generator)
  /\ phase' = IF Failed(generator') THEN "failed" ELSE phase
  /\ UNCHANGED <<program, generated, execution>>

StartRunning ==
  /\ phase = "generate" /\ generator.agenda = <<>> /\ generated = Len(program)
  /\ phase' = "run"
  /\ place' = Enter(AsBlocks(program), Old(1))
  /\ UNCHANGED <<program, generated, generator, machine, bits, variables, expected>>

\* Program and controller do what they do next, and measurements yield what they may.
MakeBundle ==
  LET next   == ToGate(AsBlocks(program), place, bits, variables, Patience)
      bundle == IF next.stack = <<>> THEN <<>> ELSE BundleAt(next.stack)
      gates  == Range(GatesOf(bundle))
      results == UNION {{g.qubits[1]} : g \in {x \in gates : RealTime(x)}}
      done   == {g \in gates : Holds(g.condition, bits, next.vars)}
  IN
  /\ phase = "run" /\ ~(expected.ended /\ machine.did.ended)
  /\ \E outcome \in [results -> BOOLEAN] :
       /\ bits' = outcome @@ bits
       /\ machine' = NextBundle(machine, outcome @@ bits)
  /\ place' = IF next.stack = <<>> THEN <<>> ELSE Skip(next.stack, Len(bundle))
  /\ variables' = FoldLeft(Assign, next.vars, SetsOf(bundle))
  /\ expected' = [outputs |-> PutOut(gates, done),
                  times   |-> {g.cycle : g \in {x \in gates : SignalsOf(x) # {}}},
                  ended   |-> next.stack = <<>>]
  /\ UNCHANGED <<program, phase, generated, generator>>

Next == StartBlock \/ Generate \/ StartRunning \/ MakeBundle

Spec == Init /\ [][Next]_vars

-----------------------------------------------------------------------------
(* Where the generator runs out of time.                                   *)

\* The parts of a body between its structured statements: the slots count from zero in each.
Stretches(body) ==
  LET Add(parts, s) ==
        CASE s.kind \in {"break", "continue"} -> parts
          [] s.kind \in {"if"} \cup Loops     -> Append(parts, <<>>)
          [] OTHER                            -> Append(Front(parts), Append(Last(parts), s))
  IN FoldLeft(Add, <<<<>>>>, body)

CyclesOf(stretch) == {s.cycle : s \in Range(stretch)}
GatesAt(stretch, cycle) == {s \in Range(stretch) : s.kind = "gate" /\ s.cycle = cycle}
Driving(stretch, i, cycle) == {g \in GatesAt(stretch, cycle) : \E x \in SignalsOf(g) : x[1] = i}

\* The time slot i needs for a bundle: that of its longest gate, and a cycle to distribute results.
Work(stretch, i, cycle) ==
  Max({0} \cup {g.duration : g \in Driving(stretch, i, cycle)})
    + IF \E g \in GatesAt(stretch, cycle) : RealTime(g) THEN 1 ELSE 0

WorkFrom(stretch, i, from, to) ==
  MapThenSumSet(LAMBDA cycle : Work(stretch, i, cycle), {c \in CyclesOf(stretch) : from <= c /\ c < to})

\* From some bundle on, a slot has more to do than there is time to the next bundle it has a gate in.
Rushed(stretch, i) ==
  \E from, to \in CyclesOf(stretch) :
    from < to /\ Driving(stretch, i, to) # {} /\ from + WorkFrom(stretch, i, from, to) > to

\* A body ends when the instruction that is listed last does.
Overruns(stretch, i) ==
  LET last == Last(stretch)
      end  == last.cycle + IF last.kind = "set" THEN 0 ELSE last.duration
  IN stretch # <<>> /\ \E from \in CyclesOf(stretch) : from + WorkFrom(stretch, i, from, last.cycle + 1) > end

Crowded ==
  \E k \in DOMAIN program : \E body \in Bodies(program[k]) : \E i \in Slots :
    \/ \E s \in Range(Stretches(body)) : Rushed(s, i)
    \/ Overruns(Last(Stretches(body)), i)

-----------------------------------------------------------------------------
(* Properties.                                                             *)

\* codegen.h: "Generate code for bundle from information collected in bundleInfo".  Bundle by
\* bundle, the controller puts out the signals of the gates whose conditions hold, and no others,
\* for every outcome of the measurements, each in its cycle by the slot's own clock, and it ends
\* with the program, where the program is read with the Misreadings and in no other way amiss.
OutputFollowsProgram == phase = "run" => machine.did = expected

\* bundle_finish(): "for last bundle, pad end of bundle to align durations".  Whenever a block
\* starts or ends, the same time has passed on all slots.
SlotsAligned == machine.aligned

\* emitPadToCycle(): "Inconsistency detected in bundle contents: time travel not yet possible".  A
\* program is refused so when and only when one of its bodies is crowded: what a slot has to do in
\* some of its bundles, the distributions of other slots' results included, does not fit before the
\* next bundle it has a gate in or the end of the body.  Nothing else, as what came before in other
\* bodies, gets in the way.
TimeTravelIffCrowded ==
  /\ generator.dp.error = "time travel" => Crowded
  /\ phase = "run" => ~Crowded

\* datapath.cc: "different instruments must use SM bits located in different DSM transfers".
TransfersApart ==
  LET muxes == generator.dp.muxes
      Transfers(i) == UNION {{(m.window * MuxWindow + m.bits[g]) \div XferSize : g \in DOMAIN m.bits} : m \in Range(muxes[i])}
  IN \A i, j \in Slots : i # j => Transfers(i) \cap Transfers(j) = {}
=============================================================================
