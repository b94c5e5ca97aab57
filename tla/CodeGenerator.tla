---------------------------- MODULE CodeGenerator ----------------------------
(***************************************************************************)
(* backend.cc, codegen.cc and functions.cc of the Central Controller       *)
(* backend: from structured, scheduled blocks to code for the controller.  *)
(*                                                                         *)
(* The generator is a record: the code so far, a sequence of instructions; *)
(* info, what the instructions of the current bundle want of each group of *)
(* each instrument; lastEnd, up to which cycle each slot has code; number, *)
(* the block number, and loops, the labels of the loops we are in; and the *)
(* datapath, which also holds the error.  Block markers and the ends of    *)
(* bundles are comments in the code.  Left out: vcd files, the tables for  *)
(* software downstream, and == and # of integers, which compare a register *)
(* that the emitted code never writes.                                     *)
(***************************************************************************)
EXTENDS Datapath

\* A gate of the platform: signals are [type, operand, value], the last "" if there is none.
Type(name, duration, signals) == [name |-> name, duration |-> duration, signals |-> signals]
Custom(t, qubits, condition, cycle) ==
  [kind |-> "gate", name |-> t.name, duration |-> t.duration, signals |-> t.signals,
   qubits |-> qubits, condition |-> condition, cycle |-> cycle]

\* isMeasRsltRealTime(): it fetches a result, rather than making one.
RealTime(insn) == \E k \in DOMAIN insn.signals : insn.signals[k].type = "measure" /\ insn.signals[k].value = ""

\* findSignalInfoForQubit(): the first slot and group that provide the signal.
SignalInfo(type, qubit) ==
  LET Drives(i) == Instruments[i].type = type /\ qubit \in UNION Range(Instruments[i].groups)
      slot == CHOOSE i \in Slots : Drives(i) /\ \A j \in Slots : Drives(j) => i <= j
      groups == Instruments[slot].groups
  IN <<slot, CHOOSE g \in DOMAIN groups : qubit \in groups[g] /\ \A h \in DOMAIN groups : qubit \in groups[h] => g <= h>>

NewGenerator ==
  [code |-> <<>>, agenda |-> <<>>, bodies |-> <<>>, number |-> 0, loops |-> <<>>, info |-> <<>>,
   lastEnd |-> [i \in Slots |-> 0], dp |-> NewDatapath]

Emit(g, insn) == [g EXCEPT !.code = Append(@, insn)]
Fail(g, why) == [g EXCEPT !.dp = Refuse(@, why)]
Failed(g) == g.dp.error # "none"

-----------------------------------------------------------------------------
(* Bundles.                                                                *)

Unused == [value |-> "", duration |-> 0, condition |-> Literal(TRUE), result |-> FALSE, breg |-> 0]

\* custom_instruction(): what the gate wants of the groups that drive its qubits.
CustomInstruction(g, insn) ==
  LET AddSignal(a, signal) ==
        LET at  == SignalInfo(signal.type, insn.qubits[signal.operand])
            old == IF at \in DOMAIN a.info THEN a.info[at] ELSE Unused
            new == [value     |-> IF signal.value = "" THEN old.value ELSE signal.value,
                    duration  |-> insn.duration,
                    condition |-> insn.condition,
                    result    |-> old.result \/ RealTime(insn),
                    breg      |-> IF RealTime(insn) THEN insn.qubits[1] ELSE old.breg]
        IN IF old.value # "" /\ new.value # old.value THEN Fail(a, "signal conflict")
           ELSE [a EXCEPT !.info = (at :> new) @@ @]
  IN FoldLeft(AddSignal, g, insn.signals)

\* The groups of slot i with something to put out, and those with a result to take in.
Outputs(info, i) == {at[2] : at \in {x \in DOMAIN info : x[1] = i /\ info[x].value # ""}}
Results(info, i) == {at[2] : at \in {x \in DOMAIN info : x[1] = i /\ info[x].result}}
InOrder == [i \in 1..Len(Instruments) |-> i]

PadToCycle(g, i, cycle) ==
  LET padding == cycle - g.lastEnd[i]
      padded  == IF padding > 0 THEN Emit(g, [op |-> "wait", slot |-> i, cycles |-> padding]) ELSE g
  IN IF padding < 0 THEN Fail(g, "time travel") ELSE [padded EXCEPT !.lastEnd[i] = cycle]

\* The datapath is configured for the conditional groups only.
EmitOutput(g, i, start) ==
  LET used        == Outputs(g.info, i)
      conditional == {x \in used : DecodeCondition(g.info[<<i, x>>].condition) # "ALWAYS"}
      duration    == Max({g.info[<<i, x>>].duration : x \in used})
      padded      == PadToCycle(g, i, start)
      emitted ==
        IF conditional = {}
        THEN Emit(padded, [op |-> "out", slot |-> i, duration |-> duration,
                           values |-> {<<x, g.info[<<i, x>>].value>> : x \in used}])
        ELSE Emit([padded EXCEPT !.dp = AddPl(@, i, [x \in conditional |-> g.info[<<i, x>>]])],
                  [op |-> "out_sm", slot |-> i, duration |-> duration, pl |-> Len(padded.dp.pls[i]) + 1])
  IN IF used = {} THEN g ELSE [emitted EXCEPT !.lastEnd[i] = start + duration]

\* emitMeasRsltRealTime(): when any slot takes in a result, all of them spend a cycle on it.
EmitResult(g, i, start) ==
  LET padded == IF start > g.lastEnd[i] THEN PadToCycle(g, i, start) ELSE g
      results == Results(g.info, i)
      emitted ==
        IF results # {}
        THEN Emit([padded EXCEPT !.dp = AddMux(@, i, [x \in results |-> g.dp.bitOf[g.info[<<i, x>>].breg]])],
                  [op |-> "in_sm", slot |-> i, mux |-> Len(padded.dp.muxes[i]) + 1])
        ELSE Emit(padded, [op |-> "inv_sm", slot |-> i])
  IN [emitted EXCEPT !.lastEnd[i] = @ + 1]

\* Mutant: only slots with output are aligned at the end of the last bundle.
AlignBusy(g, i, end) == IF Outputs(g.info, i) = {} THEN g ELSE PadToCycle(g, i, end)

Align(g, i, end) == PadToCycle(g, i, end)

\* bundle_finish(): the bits for all results, before any code.
BundleFinish(g, start, duration, last) ==
  LET Allocate(a, i) ==
        FoldLeft(LAMBDA b, x : [b EXCEPT !.dp = AllocateSmBit(@, b.info[<<i, x>>].breg, i)],
                 a, SetToSortSeq(Results(a.info, i), <))
      fetches == \E i \in Slots : Results(g.info, i) # {}
      Generate(a, i) ==
        LET o == EmitOutput(a, i, start)
            r == IF fetches THEN EmitResult(o, i, start) ELSE o
        IN IF last THEN Align(r, i, start + duration) ELSE r
  IN Emit(FoldLeft(Generate, FoldLeft(Allocate, g, InOrder), InOrder), [op |-> "bundle"])

-----------------------------------------------------------------------------
(* Control flow.  A label is made of a stem, the name of a block and a     *)
(* number, and the part of the statement it stands for.                    *)

Stem(g, name) == <<name, g.number>>
To(stem, part, branch) == <<stem, part, branch>>
Start(stem) == To(stem, "start", 0)
End(stem) == To(stem, "end", 0)

PutLabel(g, label) == Emit(g, [op |-> "label", at |-> label])
JumpTo(g, label) == Emit(g, [op |-> "jmp", to |-> label])
\* as_int(): literals cannot be negative.
WithInt(g, n, insn) == IF n < 0 THEN Fail(g, "negative") ELSE Emit(g, insn)
JumpBelow(g, reg, n, label) == WithInt(g, n, [op |-> "jlt", reg |-> reg, value |-> n, to |-> label])
JumpFrom(g, reg, n, label)  == WithInt(g, n, [op |-> "jge", reg |-> reg, value |-> n, to |-> label])

HandleSet(g, s) ==
  WithInt(g, s.value, [op |-> IF s.relative THEN "add" ELSE "move", reg |-> s.var, value |-> s.value])

\* emit_bin_cast(): one bit of the DSM to a register, which takes three cycles on every slot.
ReadBit(g, breg) ==
  IF ~Measured(g.dp, breg) THEN Fail(g, "never measured")
  ELSE Emit(g, [op |-> "read", bit |-> g.dp.bitOf[breg]])

\* handle_expression(): the comparison jumps when it holds, the others when they do not.
HandleExpression(g, c, ifFalse) ==
  CASE c.kind = "literal" /\ c.value -> g
    [] c.kind = "bit"                -> JumpBelow(ReadBit(g, c.bit), "tmp", 1, ifFalse)
    [] c.kind = "not" /\ c.of.kind = "bit" -> JumpFrom(ReadBit(g, c.of.bit), "tmp", 1, ifFalse)
    [] c.kind = "below"              -> JumpBelow(g, c.var, c.limit, ifFalse)
    [] OTHER                         -> Fail(g, "unsupported")

IfElif(g, c, stem, branch) ==
  LET h == IF branch > 0 THEN PutLabel(JumpTo(g, End(stem)), To(stem, "branch", branch)) ELSE g
  IN HandleExpression(h, c, To(stem, "branch", branch + 1))

\* foreach_end(), but for a loop down to zero, which has an instruction of its own.
ForeachEnd(g, s, stem) ==
  LET up   == s.to >= s.frm
      step == Emit(g, [op |-> "add", reg |-> s.lhs, value |-> IF up THEN 1 ELSE -1])
      back == IF up THEN JumpBelow(step, s.lhs, s.to + 1, Start(stem)) ELSE JumpFrom(step, s.lhs, s.to, Start(stem))
  IN PutLabel(back, End(stem))

-----------------------------------------------------------------------------
(* codegen_block() and the calls it makes, as an agenda of tasks: a        *)
(* statement with bodies puts what is to be done for it in front.  For the *)
(* bodies in progress, the innermost last, the generator has their name,   *)
(* the cycle of their current bundle and the end of their last instruction.*)

Task(do, arg) == [do |-> do, arg |-> arg]
Body(name, stmts) == Task("block", [name |-> name, stmts |-> stmts])
Statements(stmts) == [k \in DOMAIN stmts |-> Task("statement", stmts[k])]

Before(g, tasks) == [g EXCEPT !.agenda = tasks \o @]

BlockStart(g) == [Emit(g, [op |-> "block"]) EXCEPT !.lastEnd = [i \in Slots |-> 0]]
BlockFinish(g) == Emit(g, [op |-> "block_end"])

\* Mutant: the slots go on counting from where the last block ended.
EnterWithoutZero(g, body) ==
  LET open == [name |-> body.name, start |-> -1, end |-> -1, open |-> FALSE]
  IN Before([Emit(g, [op |-> "block"]) EXCEPT !.bodies = Append(@, open)],
            Statements(body.stmts) \o <<Task("leave", 0)>>)

EnterBody(g, body) ==
  LET open == [name |-> body.name, start |-> -1, end |-> -1, open |-> FALSE]
  IN Before([BlockStart(g) EXCEPT !.bodies = Append(@, open)],
            Statements(body.stmts) \o <<Task("leave", 0)>>)

\* The end of codegen_block() flushes the pending bundle.
LeaveBody(g) ==
  LET b == Last(g.bodies)
      flushed == IF b.open THEN BundleFinish(g, b.start, b.end - b.start, TRUE) ELSE g
  IN [BlockFinish(flushed) EXCEPT !.bodies = Front(@), !.number = @ + 1]

\* An instruction in another cycle than the one before finishes that one's bundle.
Instruction(g, s) ==
  LET b   == Last(g.bodies)
      end == s.cycle + (IF s.kind \in {"gate", "wait"} THEN s.duration ELSE 0)
      new == s.cycle # b.start
      finished == IF new /\ b.open THEN BundleFinish(g, b.start, end - b.start, FALSE) ELSE g
      started  == IF new THEN [finished EXCEPT !.info = <<>>] ELSE finished
      h == [started EXCEPT !.bodies = Append(Front(@), [b EXCEPT !.start = s.cycle, !.end = end, !.open = TRUE])]
  IN CASE s.kind = "gate" -> CustomInstruction(h, s)
       [] s.kind = "set"  -> HandleSet(h, s)
       [] s.kind = "wait" -> h
       [] s.kind = "goto" -> Fail(h, "goto")

\* No jump leads from the last branch past the otherwise.
IfTasks(s, stem, name) ==
  LET Elif(k) == <<Task("elif", [condition |-> s.branches[k].condition, stem |-> stem, branch |-> k - 1]),
                      Body(Append(name, <<"if_elif", k - 1>>), s.branches[k].body)>>
      otherwise == IF s.otherwise = <<>> THEN <<>> ELSE <<Body(Append(name, <<"otherwise", 0>>), s.otherwise[1])>>
  IN FlattenSeq([k \in DOMAIN s.branches |-> Elif(k)])
       \o <<Task("label", To(stem, "branch", Len(s.branches)))>> \o otherwise \o <<Task("label", End(stem))>>

\* What is done for a loop before and after its body.
LoopTasks(s, stem, name) ==
  LET start == Task("label", Start(stem))
      again == <<Task("jump", Start(stem)), Task("label", End(stem))>>
      Sets(maybe) == [k \in DOMAIN maybe |-> Task("set", maybe[k])]
      expression == Task("expression", [condition |-> s.condition, ifFalse |-> End(stem)])
      body == <<Body(Append(name, <<s.kind, 0>>), s.body)>>
  IN (CASE s.kind = "foreach" -> <<Task("set", Set(s.lhs, FALSE, s.frm)), start>> \o body \o <<Task("foreach_end", s)>>
        [] s.kind = "repeat"  -> <<start>> \o body \o <<expression>> \o again
        [] s.kind = "for"     -> Sets(s.initialize) \o <<start, expression>> \o body \o Sets(s.update) \o again)
     \o <<Task("end_loop", 0)>>

\* The bundle that is pending when a structured statement comes is left pending.
Structured(g, s) ==
  LET name == Last(g.bodies).name
      stem == Stem(g, name)
      reopen == <<Task("reopen", 0)>>
  IN CASE s.kind = "break"    -> JumpTo(g, End(Last(g.loops)))
       [] s.kind = "continue" -> JumpTo(g, Start(Last(g.loops)))
       [] s.kind = "if"       -> Before(BlockFinish(g), IfTasks(s, stem, name) \o reopen)
       [] s.kind \in Loops    -> Before([BlockFinish(g) EXCEPT !.loops = Append(@, stem)], LoopTasks(s, stem, name) \o reopen)

\* The task in front.
Perform(g) ==
  LET task == Head(g.agenda)
      arg  == task.arg
      h    == [g EXCEPT !.agenda = Tail(@)]
  IN CASE task.do = "block"       -> EnterBody(h, arg)
       [] task.do = "statement"   -> IF arg.kind \in Instructions \cup {"wait"} THEN Instruction(h, arg) ELSE Structured(h, arg)
       [] task.do = "leave"       -> LeaveBody(h)
       [] task.do = "reopen"      -> BlockStart(h)
       [] task.do = "label"       -> PutLabel(h, arg)
       [] task.do = "jump"        -> JumpTo(h, arg)
       [] task.do = "set"         -> HandleSet(h, arg)
       [] task.do = "expression"  -> HandleExpression(h, arg.condition, arg.ifFalse)
       [] task.do = "elif"        -> IfElif(h, arg.condition, arg.stem, arg.branch)
       [] task.do = "foreach_end" -> ForeachEnd(h, arg, Last(h.loops))
       [] task.do = "end_loop"    -> [h EXCEPT !.loops = Front(@)]
=============================================================================
