# A TLA+ model of OpenQL's mapping, scheduling, optimising and lowering passes and of code generation for the Central Controller

OpenQL is a quantum compiler: a library that takes quantum programs through a list of
passes and emits code for control hardware. It is one sequential process: there are no
threads and no messages, and nothing is persisted. What makes it hard to get right is
elsewhere: incremental algorithms over ordered containers whose keys are signed cycle
numbers, state that is deliberately forgotten or pruned, the same code run forward (ASAP)
and backward (ALAP), and long sequences of calls in an order that depends on the program
being compiled. The models make those sequences explicit: the program, its options, the
order of calls, and the order in which containers are walked are chosen by the model
checker.

## Inventory

| Component | State | Operations | What makes it correct |
| --- | --- | --- | --- |
| `utils/rangemap.h` `RangeMap` | an ordered map from non-overlapping ranges to values | `set`, `erase`, `clear`, `find` | behaves like a map from keys; ordered, merged; `find` misses nothing |
| `com/ddg` builder | two event lists, the edges so far | `process_statement`, `process_event`, `add_edge` | orders exactly the statements that conflict, although it prunes what it remembers |
| `com/ddg` operations | node and edge annotations | `reverse`, `check_consistency`, `dump_dot` | reversing twice changes nothing |
| `resource/qubit` | per qubit a range set | `on_gate` | a qubit serves one gate at a time |
| `resource/instrument` | per instrument a range map to functions | `on_gate` | one function at a time |
| `resource/inter_core_channel` | per core and channel a range set | `on_gate` | per-core and system-wide capacity |
| `rmgr` | the resources of a run, whether they are broken | `build`, `available`, `reserve` | a gate is reserved at all resources or the state is unusable |
| `com/sch` scheduler | cycle, `scheduled`, `available`, `available_in`, `waiting` | constructor, `try_schedule`, `advance`, `run`, `convert_cycles` | a valid, complete, terminating schedule |
| `com/sch` heuristics | path lengths in annotations | comparators, `DeepCriticality::compute`, `clear` | a consistent order of the available list |
| `pass/sch/list_schedule` | composes all of the above | `run_on_block` | the program's meaning is kept, cycles normalized |
| `pass/sch/schedule` | the dependency graph of a kernel and its state machines; available list, bundles | ASAP, ALAP, list scheduling with resources, uniform | conflicts in order, no gate on a busy qubit, no circuit longer than necessary |
| `pass/map/qubits/map` | `Future`: graph and available list; `Past`: waiting and scheduled gates, free cycles, resources | map, route, add a swap or a move, schedule, flush, decompose | every gate finds the states of its qubits, on neighbours; routing ends |
| `com/map` | virtual to real, real to virtual, the state of each real qubit | swap, set the state | a bijection that agrees with the gates put out |
| `com/topology` | constants | neighbours, distances, hops | distances are those of the graph of connections |
| `pass/map/qubits/place_mip` | none | an integer program for an external solver | |
| `pmgr` | the pass tree | insert, remove, flatten, construct, run | passes run once, in order, under their conditions |
| `pass/opt/clifford` | accumulated Clifford state and cycles per qubit, cycles saved | accumulate, `sync`, `sync_all` | the rotation of each qubit is kept, in as few gates as possible |
| `pass/opt/const_prop`, `dead_code_elim` | the IR tree, the index in the list being walked | fold, remove branches, promote their bodies | meaning kept |
| `pass/dec/structure`, `com/dec/structure.cc` | blocks made so far, break and continue targets, cycle offset, previous cycle | `process_block`, `process_statement`, `new_block`, loops | basic-block form, same behaviour, schedule kept |
| other `pass/dec`, `com/dec` | the IR tree | decompose by rules, unitaries | unitary kept |
| `ir`, `ir/cqasm`, `pass/io` | the IR tree, old and new form; the cycle while reading | convert, check, read, write | well-formed trees, blocks linked as the file says |
| `com/cfg` | annotations on blocks | `build`, `check_consistency`, `dump_dot`, `clear` | an edge for every transfer of control |
| `com/ana`, `pass/ana` | none | reports | |
| `arch/cc` code generator | the code so far; per slot the cycle it has code up to; per group what the pending bundle asks of it; labels; which shared-memory bit holds which measured bit | `codegen_block`, `bundle_finish`, `if_elif` ... `for_end`, `allocateSmBit`, `emitMux`, `emitPl` | the controller puts out what the program asks for, in its cycle, on all slots |
| other `arch`, `api`, options | configuration | microcode from templates, facade | |

Interaction, all by calls: the pass builds a graph (`ddg::build`), may `reverse` it, makes a
`Scheduler` over it with a `rmgr::Manager`, which builds a `rmgr::State` for the graph's
direction; the scheduler asks `available()` and calls `reserve()` for each statement, which
asks each resource; the qubit, instrument and channel resources keep their reservations in
range maps. Shared state is the annotation of each statement and its `cycle` field, which one
scheduler leaves behind for the heuristic of the next. The mapper and the old scheduler work on
the older form of a kernel, a list of gates; they share the dependency graph of
`pass/sch/schedule/detail/scheduler.cc`, and between passes hand on nothing but the list. The
mapper moves gates from `Future` to `Past`, which keeps the qubit mapping, and copies its `Past`
to try out alternatives. `PROJECT.json` lists the hazards of this
code line by line.

## Modules

Lower modules are used by the ones under them.

| Module | Models | State and actions |
| --- | --- | --- |
| `RangeMap` | `rangemap.h` as operators | a map is a set of `[range, value]` entries; `Find`, `SetRange`, `EraseRange` follow `find_internal`, `set`, `erase`, with the order of `RangeCompare` |
| `KeyMap` | what a range map promises | a function from keys to values; `Set`, `Erase`, `Clear` |
| `RangeMapOps` | a range map in use | `Set`, `Erase`, `Clear`; refines `KeyMap`, each operation the one of its name with its own range and value |
| `DdgGraph` | graph annotations, `reverse` | operators on `[source, sink, direction, order, weight]` |
| `Ddg` | references, access modes, events, the event gatherer | operators only; what each kind of statement contributes |
| `DdgBuilder` | `ddg::build` | `ProcessStatement` goes to the next statement, `ProcessEvent(e)` is `process_event` for one of its events, in any order |
| `RangeMapTheory`, `RangeMapProofs` | | lemmas about the operators of `RangeMap`; theorems about `RangeMapOps` |
| `DdgProofs` | | theorems about `DdgBuilder` |
| `Resources` | `on_gate` of the three resources, `State` | operators `Available`, `Reserve` on a record of reservations |
| `ResourceState` | a `State` in use | `Next` picks any cycle and gate: `reserve`, accepted or refused; `history` is a ghost |
| `ResourceProofs` | | theorems about `ResourceState` |
| `Schedule` | what a scheduler promises | `Place`: cycles are assigned once, moving away from zero, after all predecessors |
| `ListScheduler` | `com/sch/scheduler.h`, heuristics | `Construct`, `TrySchedule(n)`, `Advance` (the public methods in any order: `ApiNext`); `RunSchedule`, `RunBlocked`, `RunDone` (`run()`: `RunNext`); refines `Schedule` |
| `ListSchedulePass` | `run_on_block` | composes `DdgBuilder` (by `INSTANCE`) and `ListScheduler` (by `EXTENDS`; the pass makes its problems and criticalities itself, so `Problems` and `Criticalities` are empty): `Build`, `StartScheduling`, `RunScheduler`, `FinishPreschedule`, `ConvertCycles` |
| `PassProofs` | | theorems about `ListScheduler` and `ListSchedulePass` |
| `DepGraph` | the graph of the old scheduler, and what schedulers ask of it | operators: `NewEvent` is `new_event`, `Signature` the events of each kind of gate |
| `OldScheduler` | `pass/sch/schedule` | `InitGate` adds one gate to the graph; `StartListing`, `Schedule(n)`, `AdvanceCurrCycle` the list scheduler; `UniformMove`, `UniformNextCycle` the uniform one |
| `Topology` | `com/topology` | operators on a record of qubits, cores and edges |
| `QubitMapping` | `com/map/qubit_mapping.cc` | operators `NewMapping`, `GetVirtual`, `SetState`, `Swap` on a record |
| `Past` | `past.cc`, `free_cycle.cc` | operators on a record: `AddSwap`, `ScheduleWaiting`, `MapRoutedGate`, `FlushAll`, with the free cycles and the resources in it |
| `Mapper` | `mapper.cc`, `future.cc`, `alter.cc` | `MapNonQuantum`, `MapSingle`, `MapNeighbours` are the branches of `map_mappable_gates()`, `Route` one round of `gen_alters`, `select_alter`, `commit_alter`, `RouteNowhere` its assertion that there is one; then `Decompose` |
| `Backend` | a kernel through mapper and old scheduler | composes `Mapper` and `OldScheduler`: `Map`, `Hand`, `RunScheduler` |
| `OldSchedulerProofs` | | theorems about the old scheduler in `Backend` |
| `MapperProofs` | | theorems about the mapper in `Backend`, and about both together |
| `CliffordOptimizer` | `pass/opt/clifford` | `Accumulate(g)`, `PassOn(g)` are the branches of `optimize_kernel()` for the next gate; `Finish` |
| `CliffordProofs` | | theorems about `CliffordOptimizer` |
| `Program` | `ir.tree`: blocks, statements, conditions | operators: a program and what it does, as a stack of frames from gate to gate |
| `Frontend` | the reader's blocks and cycles, `pass/opt/const_prop`, `dead_code_elim` | operators: `Read`, `Propagate`, `Eliminate` |
| `Structure` | `com/dec/structure.cc`, `com/cfg/build.cc` | operators on a record that is the decomposer: `NewBlock`, `ProcessStatement`, `ProcessBlock`, `Finish`; `EdgesOf` |
| `Lowering` | a cQASM file through all of these | `ReadFile`, `RunPass(pass)` for the optional passes in any order, `Decompose` one block, `FinishDecomposing` with the postconditions, `WriteDotGraph`; then `MakeGate` runs the program as read and as made side by side |
| `Datapath` | `datapath.cc`, `decode_condition` | operators on a record: `AllocateSmBit`, `AddMux`, `AddPl`, `DecodeCondition`; the first exception is kept in it |
| `CodeGenerator` | `backend.cc`, `codegen.cc`, `functions.cc` | operators on a record: `CustomInstruction`, `BundleFinish`, `Instruction`, `Structured` and the emitters they call; `Perform` does the next task of an agenda, which stands for the recursion of `codegen_block()` |
| `Controller` | a program and its code, side by side | `StartBlock` takes the next block, `Generate` does the next task, `MakeBundle` lets the program and the controller do their next bundle. The controller itself (`Execute`) is not in the repository |
| `MC...` | | small instances for TLC |

Choices that need a word:

* A statement is what the event gatherer sees of it: kind, condition reads, operands with
  access modes, whether it is a barrier, its duration, and for a structured statement the
  statements of its bodies. References are register elements of two qubits and their implicit
  measurement bits, a classical object, and the global state.
* The events of a statement are kept in a map ordered by pointers; the model processes them in
  every order.
* A container's order is modelled by the comparator, not by positions: `available` is a set and
  "the first that fits" is the least fitting element under `ListedBefore`.
* When the key of an element moves while it is in `std::set`, whether `erase` finds it depends
  on the shape of the tree. `EraseFinds` says it does when no comparison has changed and leaves
  the answer open otherwise.
* Assertions (`QL_ASSERT`, active in every build), exceptions and `QL_ICE` end in `failed`.
* Gates that the mapper hands on carry the position `id` of the gate of the program they came from,
  0 for those that the mapper inserted. Real qubits have no amplitudes: `Replay` runs the output over
  what each real qubit holds, the state of a virtual qubit, |0> or nothing known.
* In `CliffordOptimizer` a circuit is what happens on each qubit: a timeline of rotations, written as
  the images of the three axes, and gates that interrupt them. The transition table is the one of
  the source; what a state means is defined apart from it, by the sequence that is put out.
* A program does nothing that can be seen but gates, which may change all bits: `MakeGate` leaves what they
  do to the bits open, so the run goes through every path of the control flow. Integer variables change
  by set instructions and loops only. The program as made and the one as read have their own variables.
* A block of the program as read is `Old(i)`, one that the decomposer has made `New(i)`: references
  to both live side by side until `Finish` maps the old ones, as `remap` does.
* `utils::MIN` and `utils::MAX` are constants beyond all cycles in use.
* Code is a sequence of instructions, one for each that changes something: a comparison of one shared-memory bit
  (`seq_cl_sm`, `seq_wait`, `move_sm`, `and`) is one `read` that takes three cycles. Block markers and the ends of bundles, which
  are comments in the text, are kept, to compare the controller with the program bundle by bundle.
* The controller is what the comments of the source say of it: one sequencer steps through the code, each slot
  keeps its own time, which its own instructions take, results are written to the bits of shared memory that the MUX
  names, and the PL computes outputs from such bits. That a bit may still be in flight or invalid is left out.

## What is checked

| Run | Question and bounds |
| --- | --- |
| `range_map` | `RangeMap.cfg`, keys 0..3, two values, with and without merging: all reachable maps under all `set`, `erase`, `clear`. Four keys give room for an entry to be cut in two with neighbours on both sides. A null range is only used where `find` says the place is free, which is how the resources use it with overlap off. Values are only compared, so the two are symmetric |
| `ddg_build` | `DdgBuilder.cfg`, all blocks of up to three of twelve statements, four settings of the switches. Three statements are the least for an entry to be evicted, pruned and needed again, and for a global write between two others; the induction in the proofs covers longer blocks |
| `resources` | `ResourceState.cfg`, up to three reservations of seven gates (durations 0, 1 and 2, one and two qubits, same and different functions, on two cores) at four cycles, all directions and instrument modes except backward with overlap. Two reservations are forgotten from by the third |
| `list_scheduler` | `ListScheduler.cfg`, every dependency graph over three statements of duration 0 or 2 on two qubits, forward and reversed, with and without resources, and a caller that calls `TrySchedule` and `Advance` in any order up to five cycles from zero |
| `list_schedule_pass` | `ListSchedulePass.cfg`, every block of up to three of six statements (gates on one and two qubits, a conditional gate, measurement, classical assignment, wait), ASAP and ALAP, with and without resources, trivial and deep-criticality heuristics |
| `backend` | `Backend.cfg`, 2340 kernels with their options. Mapped: up to two gates of seven (one- and two-qubit gates, measurement, a conditional gate, a classical one), three for routing, on a line, a one-way ring and two cores of two qubits, with five sets of options that between them have every heuristic, lookahead and swap mode; four qubits in a line are the fewest for a gate to be two swaps away with a choice of where they meet. Unmapped: up to three gates for ASAP and ALAP, four for the uniform scheduler, which needs them to move one gate past another |
| `clifford` | `CliffordOptimizer.cfg`, kernels of up to four of 19 gates on two qubits; one qubit reaches all 24 states in two gates, so four is enough to build up a state, interrupt it and build up the next |
| `lowering` | `Lowering.cfg`, 3,292 programs of two subcircuits: if/else chains of one and of four branches with constant and variable conditions, the five kinds of loop around two bodies, loops in loops with breaks, continues, gotos and skips in them, followed by gates with a gap or by another if. The passes run in every order, or not at all. Two nested loops, a branch in the inner one and a statement after each are what it takes for the stacks of targets and the cycle offsets to be used again after they were changed. `Patience`, 60 steps without a gate, is more than the longest way between two gates (30 is not; with 110 every answer is the same); a program that takes more never makes one |
| `code_generator` | `Controller.cfg`, three qubits on one drive instrument with two groups and two readout instruments, so that one slot serves several groups and results come from one slot or two. Five groups of programs: every one of twelve series of measurements, which reach and exceed 6 bits of shared memory in transfers of 2, followed by each of the endings with every kind of condition; loops of every kind but repeat-until, in one another and around branches, breaks and continues, and chains of branches; gates and measurements in the cycle of a distribution (`Beside`, 98 programs, of which 43 are refused), in both orders and with more and less room behind them; everything the generator reads in its own way (`Otherwise`, `Mixed`), alone and in one another; and programs that are refused. 2 MUXes and 2 PLs per slot and a PL window of 4 bits are small enough to run out. `Patience`, 60 steps without a bundle, is longer than any stretch after which a bundle follows: 80 makes no difference, 50 does |

The properties, by what they would catch:

* `ConsistentOrder`, `FindComplete`, `MaximallyMerged`, `ImplementsKeyMap`: an entry lost,
  duplicated, mis-split or unmerged by some sequence of calls, or missed by a search.
* `NoInternalError`, `ConflictsOrdered`, `OnlyConflictsOrdered`, `Connected`, `CommutingAgree`:
  a dependency lost by pruning or by the shortcut at global writes, one invented, a statement
  off the source-sink paths, an assertion of the builder.
* `QubitExclusive`, `InstrumentOneFunction`, `ChannelCapacity`, `ForgettingIsInvisible`,
  `EventuallyAvailable`: double booking through what was forgotten, and a gate refused for ever.
* `ListedWhenReady`, `NeverStuck`, `ImplementsSchedule`, `NoAssertionFails`: statements lost between
  the four collections, scheduled early, late or twice.
* `ConflictsKeepOrder`, `CyclesNormalized`, `QubitsNeverShared`, `ShortestSchedule`,
  `RunIsEarliest`, `Completes`: the pass as a whole keeps the program's meaning, gives legal cycles, and, when no
  resource interferes, a schedule as short as the longest chain of conflicts.
* `MappingFaithful`, `NearestNeighbours`, `DependenciesKept`, `CompilationEnds`: a swap or a move that
  the mapping does not know of or that comes at the wrong time, a state that is overwritten, a gate
  lost, doubled, reordered or put on qubits that are apart, and routing that goes round in circles.
* `ConflictsScheduled`, `ShortestCircuit`: a dependency that the state machines of the old scheduler
  miss or invent, and a bundle filled with a gate that does not fit in it.
* `EffectKept`, `ShortestSequences`, `SavingsNotOverstated`: a gate that overtakes the rotations
  accumulated before it, an entry of the table, a gate name or a sequence that does not fit the others,
  and cycles counted twice.
* `BehaviourKept`, `ScheduleKept`, `GraphCoversFlow`: a block linked to the wrong successor, a break out of
  the wrong loop, a branch or a loop entered, left or repeated once too often, a statement lost by the
  dead code eliminator, gates of a body pushed together or apart, a schedule that gets out of order for
  another reason than the known one, and a transfer of control that the control-flow graph does not show.
* `OutputFollowsProgram`, `SlotsAligned`, `TimeTravelIffCrowded`, `TransfersApart`: a gate lost,
  doubled, played on the wrong condition or on the bit of another measurement, a jump to the wrong place, slots
  that drift apart or are late, and code that is refused, or let through, for another reason than that its
  bundles ask more of a slot than there is time for.

Deadlock is checked in `backend`, whose last states stutter by an action of their own: no kernel gets
stuck between the passes. Elsewhere it is not: every one of these is a program that ends (the graph is
built, the block is scheduled, the history is full, the kernel read, the code generated and run).

Fairness. The pass's `FairSpec` assumes weak fairness of the whole next-state
relation: the code is a sequential loop that goes on as long as it can take a step. The choice
among enabled steps is not assumed fair. `CompilationEnds` needs no assumption: it says that the
passes take only finitely many steps, and deadlock checking that they do not stop before the end.

How `code_generator` treats the disagreements below. Five constructs are generated otherwise than the IR defines them, and
each is a `Misreading` with an operator that says how the generator reads it: `ReadCondition`, `ReadUntil`,
`ReadBranches`, `ReadContinue` and, for bundles, `PutOut`. `OutputFollowsProgram` compares the controller with the
program read that way, which is the program itself where it has none of them. So it does not say that these constructs are
generated correctly, it says what they become and that nothing else is amiss in them, in combinations as well; take any
one out of `Misreadings` and TLC refutes it. Two things are left out of the inputs, because no reading describes them: a
bundle with output in front of a structured statement, a break or a continue in the same body (`PendingInputs`), and
loops that measure the bit they test (`StaleInputs`). The inputs also have no group asked twice for the same signal in one
bundle, no gate whose condition is distributed in its own bundle (the two depend on each other) and no use of the
variable of a foreach after the loop.

### Disagreements found

Shown by runs of their own:

* `instrument_overlap`: backward, a commit forgets everything in the instrument from the end of the new gate on
  (instrument.cc:725), because later reservations start no later. With `allow_overlap` they may still reach past
  that end. In the run x holds [1,3) on one qubit; y on a second qubit takes [0,1) and with that x is forgotten;
  y on a third qubit also starts in cycle 0, takes four cycles, may overlap the first y, and is let in beside
  x. The documentation of the resource (instrument.cc:786-788) promises one function at a time.
* `critical_path`: with that heuristic the scheduler assigns the field by which its set of
  available statements is ordered before it erases the statement from the set, and asserts that
  the erase succeeded.
* `mapper_moves`: two qubits without a state are exchanged without a gate, but with what is recorded of
  them. If one had been initialised for a move that was then not needed, the mapper takes the other
  one to be in |0> and moves a state into it. When all qubits start in |0>
  (`assume_initialized`), this does no harm, which `MappingFaithful` checks.

Shown by TLC when a constant of a configuration is replaced. In `Lowering.cfg`, with
`Inputs <- ScheduledInputs`, `Passes = {}` and the invariant `ScheduleCorrect`:

* After an if/else or a loop, `new_block()` takes the cycle of the last statement of
  the body, instead of that of the if/else itself, for the cycle at which the new block begins
  (structure.cc:286 and 235). When the body was longer than the program before it, the next
  statement gets a negative cycle. structure.cc:57-59 (`pass/dec`) promises that the schedule is "at least correct", and the
  consistency check looks at nested blocks only, of which there are none left.

The run `lowering` has such programs, too: `ScheduleKept` says that a schedule that is in order in every body gets out of
order when a body is so long (`Fits`), and never otherwise.

In `Controller.cfg`, `OutputFollowsProgram` is refuted when one of these is taken out of `Misreadings`:

* `"otherwise"`: no jump leads from the last branch of an if past the otherwise (codegen.cc:844), so
  both are executed, although ir.tree:546 calls it "The final else block".
* `"until"`: a repeat-until loop goes on when its condition holds (codegen.cc:926); ir.tree:597-598 says
  "iteration stops when it yields true".
* `"continue"`: continue jumps to where the next iteration begins (codegen.cc:969), past the update, which ir.tree:591-592
  says is done "at the end of the loop body and upon continue".
* `"below"`: `<` of integers jumps to `label_if_false` when it holds (functions.cc:362-364), although codegen.h:126 says
  it is for "if the expression evaluates as false". `>=` is written the same way; `>` and `<=` are composed
  differently and are not modelled.
* `"mixed"`: unconditional groups are not in the datapath (codegen.cc:450-455), which is all that is put out when
  another group of the instrument is conditional. The comment there says "otherwise datapath is configured to generate proper digital output".

It is also refuted with these `Inputs`, whatever the `Misreadings`:

* `PendingInputs`: the pending bundle is not generated in front of a structured statement (backend.cc:195) but behind it, and by
  then bodies have replaced what was collected: a measurement followed by a conditional correction in an if plays the
  correction again, unconditionally. backend.cc:191 speaks of "as if the different parts were in separate
  blocks". The jumps of break and continue come before the pending bundle, too.
* `StaleInputs`: a measurement in a loop writes a new bit of shared memory, but the condition of the loop, generated
  before it, reads the old one for ever (datapath.cc:47, 69).

Programs are refused for "time travel" although no instrument is asked for two things at a time; `Crowded` says which,
`TimeTravelIffCrowded` that it is these and no others, and the run has both kinds (`Beside`):

* When a bundle distributes a result, every slot spends a cycle on it, after its own output in that bundle
  (codegen.cc:1158-1189). Measure qubit 1 in cycle 0, distribute the result in cycle 2, and play gates of one cycle on the drive
  instrument in cycles 2 and 3: its slot has code up to cycle 4 when the second gate is to start in 3, and padding
  fails (codegen.cc:1243). A slot with output in that bundle takes part in the distribution later than the others.
* The end of a bundle is taken to be that of its last instruction, not the latest (backend.cc:112). Padding
  the last bundle of a body to it (codegen.cc:588) fails when another one, or a distribution, ends later: a measurement
  listed in front of a shorter gate in the same cycle is enough.

Smaller ones that no run of the project shows, most of them because the models leave the case out:

* A null range set at the start of an existing entry leaves a range map in an order that its own
  `check_consistency` rejects. The instrument resource can do so when overlap is allowed and a gate takes
  no time. With `NullAnywhere = TRUE` in `RangeMap.cfg` TLC shows it: set [0,1), then set [0,0).
  With such a gate in the instance of `resources`, `InstrumentOneFunction` fails in a forward or undirected
  state with overlap: after `x` for two cycles and a null use for `x` in the first of them, `y` is let in
  in the second.
* `opt.DeadCodeElim` puts the statements of the body it promotes into the list around it with the cycles they had in the
  body (dead_code_elim.cc:83-85), so that list may no longer be in order. Hence `ScheduleKept` speaks of programs
  whose bodies are in order when they come to dec.Structure.
* `opt.DeadCodeElim` "removes dead code, currently only unreachable if-branches" (dead_code_elim.cc:174), but of those behind a true
  one it removes every other one (lines 75-77), and it passes over the statement behind an if that it
  has replaced, so that some stay. `BehaviourKept` shows that this does no harm.
* `opt.ConstProp` folds `operator!` of a bit to an integer (platform_functions.h:53), which
  `check_consistency()` then refuses as a condition: the model ends in phase `failed`.
* `com::cfg::build()` asserts that no block goes to itself (build.cc:33), which a legal program may do; with
  `write_dot_graph` the pass then fails (`WriteDotGraph`).
* structure.cc:686 says "The ir tree is not modified": cycles and targets of its instructions are.
* The mapper's schedule ignores condition bits as reads: `FreeCycle::add_no_rc`
  (free_cycle.cc:206-215) lets a later measurement overwrite a bit before a conditional gate has read
  it, and the rescheduling in `decompose_to_primitives` (mapper.cc:937-968) does the same, and hoists
  classical gates. `DependenciesKept` is about the dependencies that remain (`KnownToPast`).
* With two full cores, one communication qubit each, and swap selection `one` or `earliest`, paths may
  come back to their source, and the first swap of the path is undone by the next: routing does not
  end, although mapper.cc:852-853 demands "that at least something is done that decreases the problem".
  The runs use swap selection `all` there.
* Lookahead mode `all` fails the assertion `QL_ASSERT(alters.empty())` in `gen_shortest_paths` as soon
  as there are two gates to route; the model has it as `RouteAll`. Lookahead mode `no` dereferences an
  end iterator (future.cc:78) and is left out.
* When only one of the two kinds of commutation is on (`commute_multi_qubit`, `commute_single_qubit`), the old graph
  looks at the later gate only (scheduler.cc:230 and 253): a cnot that may commute overtakes an earlier rotation
  that may not. scheduler.cc:189 says "commutes indicates whether this event is allowed to commute with the other events of its
  type". `InConflict`, in the properties, follows the code. No state is lost, the gates do commute.
* `is_comm_qubit` (topology.cc:631-635) divides by the number of cores where the number of qubits per
  core is meant.
* A conditional gate that writes the bit it reads gets an arc to itself in the old graph and is
  refused as "not a DAG", which scheduler.cc:605 calls impossible.
* The Clifford optimiser takes "zm90" for "s" and "z90" for "sdag" (clifford.cc:75-77 and 84-86), as
  scheduler.cc:50 does, although their names say the opposite turn; the instance does not use these
  names. It always replaces, also when its sequence takes longer, and adds the negative saving to an
  unsigned number.
* `Compare::evaluate` (pmgr/condition.cc:29-39) has the four orderings the wrong way round, and
  flattening inserts in the wrong order (pmgr/pass_types/base.cc:832-868): both are behind
  `QL_HIERARCHICAL_PASS_MANAGEMENT`, which no build defines.

## What is proved

`RangeMapProofs` proves, for every set of keys and values and both kinds of map, that the order
`check_consistency()` asserts always holds (`AlwaysConsistent`), that `find()` misses no entry that shares
a key with the range (`FindNeverMisses`), that equal entries are joined wherever they meet
(`AlwaysMaximallyMerged`) and that the range map is a plain map from keys to values, on which each
operation writes exactly the keys of its own range, with its own value, and no other (`RangeMapImplementsKeyMap`). The theorems assume `NullAnywhere = FALSE`: null ranges are only set where
nothing is. What happens otherwise is said above, under the disagreements. The order of the entries is not inductive:
the map is ordered by the first key alone, so what is needed, and `WellFormed` adds, is that no two
entries have the same first key, null entries included. `RangeMapTheory` argues about the operators: at
most one entry sticks out of an erased range on either side (`SticksOut`), so `erase()` leaves the others
and at most two remainders (`EraseShape`, `EraseWellFormed`); `set()` is an `erase()` followed by the
insertion of one range, joined with its neighbours (`SetAsErase`); what either does to the value of each
key are `EraseValues` and `SetValues`.

`ResourceProofs` proves, for any number of qubits, instruments, cores, gates, cycles and reservations, every
direction and every mix of resources:

* No qubit is used by two gates in one cycle (`AlwaysQubitExclusive`), and a qubit resource with a direction,
  which forgets all but the last reservation of each qubit, answers as if it had kept all
  (`ForgettingIsAlwaysInvisible`). Neither is inductive: what is forgotten is not compared with what comes
  next. `Remembered` says why it need not be: each reservation ever made is kept, or lies behind a kept one,
  as seen in the direction, and does not touch it, and the order the base class enforces keeps later gates
  in front of that. `Lane` is this invariant for one set of ranges; the channels and the pass use it too.
* An instrument performs one function at a time, and exclusive and overlapping use are what the
  switches say (`AlwaysOneFunction`). `InstrumentInv` says that the map of an instrument still
  knows (`Known`) every cycle of every earlier use with its function, unless the cycle lies where nothing will
  be asked any more (`Past`). The theorem is stated under `SoundSharing`: when uses may overlap, the direction is
  not backward (the run `instrument_overlap` refutes it there) and no instrumented gate takes no time (see
  the disagreements). Without overlap there is no condition.
* Neither a core nor the system communicates over more channels at once than configured
  (`AlwaysChannelCapacity`). `ChannelInv`: each channel is a `Lane`, and gates get the first channel that is free, so
  that the gates under way at a cycle occupy different channels; counting them is `FS_Injection`.
* In a state that is not broken no gate is refused for ever (`AlwaysEventuallyAvailable`): all reservations end
  somewhere (`AlwaysReservedWithin`), and beyond that everything is free.

The assumptions are `ResourcesAssumption` and `GatesAssumption` of the modules: finitely many cores, at least one
channel each, gates of at most two operands, and `MIN` and `MAX` beyond every cycle in use. The lemmas on
ranges come from `RangeMapTheory`.

`DdgProofs` proves, for every finite or infinite set of references and statements and blocks of
every length, that the builder is type correct (`TypeCorrect`), that none of its assertions can
fail (`NoInternalErrors`), that conflicting events are connected in program order (`Soundness`),
that what it calls commuting commutes (`CommutingListCommutes`) and that the graph is connected
(`GraphConnected`). The assumption is the module's own: references are elements of typed objects,
statements have the shape the IR gives them.

`ConflictsOrdered` alone is not inductive: the builder only compares an incoming event with what it
still remembers. `BuilderInv` says why that is enough. `EntriesProcessed`: the lists hold only
processed events. `Covered`: an event that was dropped is shadowed by an entry that refers to at
least as much and is reachable from it, so an edge from the entry orders the dropped one too.
`GlobalWritesFirst`: a global write in the second list precedes all other entries, which is what
allows the builder to connect a new event to the other entries only. `EdgesForward` keeps
the graph acyclic. The lemmas on references (`ShadowTrans`, `ShadowDistinct`, ...) say that
shadowing respects aliasing.

`Precision` is the converse: the builder orders nothing that no conflict orders (`OnlyConflictsOrdered`).
`PrecisionInv` says of every edge that its ends conflict (`EdgesConflict`) and that its weight is the
duration of its source (`EdgeWeights`). An edge between events that commute would have to start at an entry of
the second list; but for each of those something newer in the first list conflicts with it (`Outdated`), which the
event, to commute with the entry, has to evict first, and that prunes the entry. `BuiltGraph` sums up for
callers what is known of a finished graph.

The first part of `PassProofs` proves, for every dependency graph of any size and weights, both directions, every
configuration of the resources and every interleaving of `try_schedule` and `advance`: the variables
keep their types (`SchedulerTypes`), nothing starts before what it depends on has finished
(`DependenciesMet`), every statement is in the collection it belongs to (`NothingMisplaced`), the
list only runs empty at the end (`NothingStranded`), and every step is a step of `Schedule` or
changes nothing it can see (`SchedulerImplementsSchedule`). Unless `critical_path` is the heuristic, no
assertion fails and no reservation throws (`SchedulerNeverFails`); the run `critical_path` shows why the
exception is needed. For `run()` without resources, every statement starts in the very
cycle in which its last predecessor is finished (`RunIsOptimal`, and for both
runs that the pass makes, `RunsAreEarliest`).

The inductive invariant is `SchedInv`. `ListedWhenReady` is not inductive alone: that a statement
`schedule()` unblocks is due now or later, and in none of the lists yet, needs the cycles of the
scheduled statements to lie behind the current one (`CyclesBehind`) and predecessors to be scheduled
first (`PrecedenceRespected`); that `advance()` passes over no batch needs the jump to go to the nearest
one (lemma `NearestBatch`). `Collections` states the four collections as equations, which
also hold before the constructor schedules the source (`BeforeConstruct`). That a farthest predecessor,
a nearest batch and a first unscheduled statement exist is one lemma, `Farthest`, from the
well-foundedness of strict inclusion of finite sets, which stands in for an induction over the set.
`RunInvariant` adds `OnTime`: of the statements that the resources have not refused (`Unrefused`; without
resources, all), each starts when its last predecessor is finished. The assumptions are `ProblemsAssumption` (a graph as the builder makes it, which
`ConflictsOrdered`, `Connected` and the order of the nodes support: finite, edges along the order,
weights along the direction, only the source without predecessors, the source no gate) and
`ResourcesAssumption`. `MaxCycle` only bounds `Advance` in the model; the proofs hold for each value
of it, between the smallest and the largest cycle of the build.

The second part of `PassProofs` puts these together. For every block, however long, every setting of the switches, every target
and heuristic and every set of resources, once the pass has finished (with `critical_path` it may fail instead, as said
above): statements that do not commute keep their order in the scheduled block and do not overlap in time (`DependenciesSurvive`); the scheduled
block is a permutation of the statements in the order of cycles that start at zero (`ScheduleNormalized`); with
resources, gates on one qubit never overlap (`QubitsNeverOverlap`); and without, the schedule is exactly as
long as the longest chain of conflicts (`ScheduleIsShortest`).

The inductive invariant is `PassInv`, one part per phase. `Kept`, in all of them: the invariants of the builder
(the lemmas `Assumed`, `SameEvents`, `SameGraph` and `SameSteps` carry `DdgProofs` over to the
builder inside the pass), and that the switches of the resources stay those of the platform. `Prescheduling` and `FinalScheduling`: the
graph is that of the block, turned the right way (`ReversedTwice`), and the scheduler keeps `RunInv`. In the final
run, `QubitLanes` says that what is kept of the reservations of each qubit stands for all of them, and `ZeroStart`
that nothing is reserved before the first statement, which therefore starts in cycle 0. `Scheduled` is what
is left when a run has ended and what shifting all cycles does not change: dependencies kept (`Keeps`), no gap that
nothing demands (`Tight`), no two gates on one qubit at once (`Exclusive`). A path in the graph then separates
conflicting statements (`PathKeeps`). `Sorted` picks a list in order of the cycles: that there is one, and that it is
a permutation, follows from the rank of each statement, the number of those before it (`RankFacts`, `SortedList`).
`CriticalPathLength` is a recursive function: `ChainsSolved` shows that the recursion has a solution, by looking
at the first statement up to which it has none; that no schedule is shorter (`ChainsFit`) and a tight one no longer
(`TightForward`, `TightBackward`) follow by looking at the first or the last statement that starts at
the wrong time. `PassAssumption` is what is assumed: gates act on qubits and, unless they have three operands,
instruments that exist.

`CliffordProofs` proves, for every set of qubits and gates and kernels of every length, that the
optimised circuit together with the states still held back has the effect of the gates taken so far
(`OptimizerKeepsEffect`) and that every sequence put out is a shortest one (`OptimizedShortest`). The
proofs take three facts from the module's assumptions: `TableAssumption` (the 24 states are closed under
the table, which composes their rotations) and `LengthAssumption` (no shorter sequence of half and quarter turns makes
the same rotation) contain no parameter, so that TLC's evaluation of them decides them once and for all;
`GatesAssumption` says of the platform's gates that those `gate2cs` knows by name do what their
state stands for. The invariants `KeptInv` and `ShortInv` add to the properties that before the end
nothing has been put out for a qubit since the last gate that was passed on, which is why what is put out
later is one sequence and not several.

`SavingsAreReal`: the number of cycles the pass reports as saved, read as a signed number, is never more than the
cycles by which the kernel has become shorter. `SavedInv` names the number `n` that `total_saved` is the remainder of,
which may be negative, since a longer sequence also replaces a shorter one: `n` is at most what all qubits have gained,
and at least minus three cycles, the longest sequence of a state, for every gate taken that no qubit still owes
for. The theorem is stated for kernels of at most a sixth as many gates as an unsigned integer has values (2^64 in
the code), below which the remainder can be read back. The sums over qubits and gates are folds of the community modules;
`FoldExists`, `FoldSums`, `TotalSums` and `TotalsCompare` say what such a sum is, in whichever order it is taken,
by looking at a smallest set for which it would not be so.

`OldSchedulerProofs` proves, for kernels of every length and any qubits, durations, resources and job:

* The graph that the state machines make (`GraphIsRight`) orders two gates directly only if they are in conflict,
  and cycles that respect its arcs keep all conflicts in order.
* The schedule of each target has every gate once and conflicting gates in order, the first finished before the second
  starts; with resources no two gates have a qubit at once, commuting or not (`ScheduleKeepsOrder`).
* Without resources the circuit is exactly as long as the longest chain of conflicting gates
  (`CircuitIsShortest`), also after the moves of the uniform scheduler.

These say `IsKernel(kernel, options) => ...`: the gates have the operands that `init()` asserts they have, those of
quantum gates are qubits that exist, and each gate acts on something (a classical `nop` or a gate without operands
is in no arc, and `ALAP` would leave it behind the sink). For a job that leaves the mapper out, the program is assumed to be such
a kernel (`ScheduleAssumption`). That the mapper delivers such kernels, too, is proved in `MapperProofs`, which makes both
unconditional there (`EveryJobIsScheduled`).

The inductive invariant is `SchedulerInv`, one part per stage. While the graph grows, `GraphInv` compares it with
`GateHistory`, all events so far: the machine of an object remembers only things that have happened
(`Remembers`, which gives precision), and each event, in all cycles that respect the arcs, has finished by the start of one of
the events that the next one may be ordered after (`Covers`, which gives soundness). A rotation that
commutes with the run before it is one of a run, all of which the next event of another kind waits for: that is why the
arcs suffice although most pairs in conflict have none. `Records` carries both from event to event, and the sink turns them into
`Demands`, all that the schedulers need. `OrderInv`, for the list scheduler in both directions: what is available or
scheduled is exactly what needs nothing unscheduled, so that nothing is left behind when the list runs empty (`OrderEnds`), and its
cycle suits those it needs. `LaneInv`, for its resources: the `Lane` of `ResourceProofs` per qubit, of the gates that
reserve; those that do not, waits, are in conflict with all they share a qubit with (`SharedOrOrdered`). `UniformInv`: each bundle
lists gates of its cycle, each once, and a move respects the arcs (`UniformMoves`). The ASAP and ALAP cycles and
`EndOf` are recursive functions; `Recursion` shows that such equations have a solution, `AsapFirst` that no schedule is
earlier, `EndsAsap` that a chain of conflicts explains each cycle, `AlapLength` that the ALAP schedule is as long. That a set
of nodes can be listed in order (`ByCycle`, `Ascending`) is `RankedList`. What is assumed: `DurationAssumption`, `SinkCycleAssumption`,
`ConfigAssumption`, `ResourcesAssumption` and `ScheduleAssumption` (whole durations, a switch or a target where one is expected,
finitely many operands, `MIN` and `MAX` numbers).

`MapperProofs` proves, for every kernel, topology, direction of its connections, and all options of the mapper:

* Two-qubit gates of the program end up on neighbours inside a core, in the direction of the connection, and
  what the mapper inserts uses connections that are there (`OnNeighbours`).
* What the mapper delivers is an `IsKernel` (`KernelsFit`), so that the old scheduler, which runs next, keeps order
  and schedules as short as possible whatever the job (`EveryJobIsScheduled`).

The inductive invariant is `RouteInv` (`RouteInvariant`): the past is made of the gates of `OwnGate` and of `MappedGates`, which are
the gates of the program with real operands next to each other and those that `AddSwap` makes; the circuit, when there is one, too. The lemmas follow the
code. `EarliestPlaced` and `ScheduledPast` say that scheduling what waits never loses it nor makes anything else up, whichever gate is
earliest. The distances computed by Floyd and Warshall are those of a shortest way (`DistanceFacts`), so every path of
`gen_shortest_paths` is a chain of links that starts and ends where it should (`PathsAreRoutes`), and every swap of an alternative
is over a link, on whichever side of the gate it lies (`SplitAlters`, `SwapsLinked`). `AddSwapCases` lists what `add_swap` can
make of a swap: nothing, a move, or a swap, with or without an initialisation before it. `SwapsAdded` and `GateRouted` carry any invariant that
these keep through a whole alternative and the gate it was made for.

* Unless the program resets qubits with `prep_only_initializes` (`Resets`), the output is the program (`MapperIsFaithful`): at
  every moment each gate of the program that has been delivered finds the states of its virtual qubits in its real operands, nothing
  the mapper inserts overwrites a state, its map agrees with where the states are, and no gate is lost or doubled.
* Unless it does so, gates in conflict keep their order and do not overlap in the cycles of the mapped circuit
  (`DependenciesSurviveMapping`), although the mapper delivers gates out of order and moves qubits between them.

The last two rest on `FaithInv` (`FaithAlways`). It speaks of one list of gates, `Line`: what the past has put out, what it has
scheduled, what waits, and what is still to come. `Sound` says that `Replay` of that list finds every state, and that the gates of the program are
on it once each and in the order of their conflicts (`InStep`).

* Scheduling takes a gate out of those that wait and puts it before gates that start later. `Hurried` says what that does to the list: it passes
  only gates it shares no qubit with, because `FcBound` keeps the free cycle of a qubit behind every gate on it. Gates that are `Separate`
  commute in the interpreter, so the replay ends in the same state (`MovedReplay`), whichever gate is earliest and
  whether rescheduling or decomposition does it.
* A swap adds gates at the end. `Tracked` relates the state they leave to the map: one to one, each state where the map says, each
  real qubit with a state known to have one. It is what fails under `Resets`: a qubit that has been
  reset holds a state of the program, but the mapper exchanges it with others of its kind without a gate.
* A gate of the program is taken from the available ones. `FutureInv` says that these need only gates already scheduled (that is `OrderInv` of the
  lookahead scheduler, whose graph `GraphIsRight` is about), so the list stays in order.
* `Timed` adds cycles: of two gates that share a real qubit the first ends before the second starts. Two gates of the program
  that shared a virtual qubit need not share a real one any more. `StateChain` follows the state of that qubit from gate
  to gate, through the swaps and moves between them, each of which ends before the next starts.

Only model-checked: the lowering of control flow (`BehaviourKept`, `ScheduleKept`, `GraphCoversFlow`) and the code generator (`OutputFollowsProgram`,
`SlotsAligned`, `TimeTravelIffCrowded`, `TransfersApart`), whose programs are trees and whose operators therefore recursive: what they
compute for all trees is an induction over data, outside the prover's reach; and the liveness properties (liveness and `ENABLED` are outside
its reach, too).

## What is not modelled

* Gates with three or more qubits. The instrument resource reads past the end of an array for them.
* Structured statements are nested one level deep in the examples, and their bodies are scheduled
  as blocks of their own by the parent class of the pass, which calls `run_on_block` for each.
* `advance()` by more than one cycle, which nothing calls.
* Registration and JSON configuration of resources, dot output, logging.
* Commuting gates on more than two qubits and registers whose size is not one element per index.
* In the mapper: recursion below depth 0, limits on the number of alternatives, the paths along the
  border of a grid, `max_fidelity` (which the code refuses), gates on no or more than two qubits,
  decomposition into other gates (the examples have no `_real` or `_prim` rules), mappings carried from kernel to kernel, which the code does
  not do either (mapper.cc:1002-1004). `QubitMapping::allocate` is never reached, because the mapper
  starts with a one-to-one mapping.
* In the Clifford optimiser: that it marks the kernel's cycles as invalid, and how long the gates it puts
  out take on the platform; it counts each as one cycle itself.
* In the lowering: schedule modes of the reader other than `keep`, types and operands of gates, names of
  blocks, the placeholders `@ql.entry` and `@ql.exit` (an input says where the program starts), real and
  matrix expressions. `ConstProp` is modelled for `operator!`, the only function in the programs it
  is run on.
* In the code generator: codewords, control modes, the files for other software, the loop around programs that do not run
  once, integer operands, comparisons other than bits and `<`, the order and entry of blocks (backend.cc:69 says that both are ignored),
  loops down to zero, and whether shared memory is valid when it is read.
* The conversions of the IR, decompositions of gates and the microcode generator transform trees and text: what could go wrong in them is in their data, not in the order
  of steps. The pass manager's pass list runs front to back.
* Everything else marked `not_modelled` in `PROJECT.json`, with the reason given there.

## Plan

Done, in this order: range maps, the dependency graph, resources, the list scheduler and the pass; proofs
of the graph builder and of the scheduler with its refinement of `Schedule`; the old scheduler, topology,
qubit mapping and mapper, composed; the Clifford optimiser and its proofs; proofs of the range map, with its
refinement of `KeyMap`, and of the qubit resource; the lowering of structured control flow; the code generator of the
Central Controller; proofs of the precision of the graph, instruments, channels, and the list scheduling pass as a whole, which rests on all
of these; proofs of the old scheduler and of the mapper, and with them of the whole backend.

Left: recursion in the mapper's choice of alternatives; proofs about the steps of the code generator that are not recursive, which
would need its bundles apart from the trees they are in.
