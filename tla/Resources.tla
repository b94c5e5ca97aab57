------------------------------ MODULE Resources -----------------------------
(***************************************************************************)
(* rmgr and resource: what the schedulers reserve.  A resource answers     *)
(* whether a gate can start in a cycle and, when asked to commit, records  *)
(* it.  The state of the resources is one record, so that a scheduler can  *)
(* hold (and copy) it as a value, the way rmgr::State does:                *)
(*   config      the scheduling direction and the two switches of the      *)
(*               instrument resource                                       *)
(*   prev        per resource, the cycle of the last committed gate        *)
(*   instrument  per instrument, its reservations                          *)
(*   channel     per core and channel, its reservations                    *)
(*   qubit       per qubit, its reservations                               *)
(* A gate is a record: qubits (a sequence), duration in cycles, function   *)
(* (the tuple of function keys of its JSON data), instrumented and         *)
(* channelled (whether its JSON data satisfies the predicates that the     *)
(* instrument and the channel resource have for its number of operands).   *)
(***************************************************************************)
EXTENDS RangeMap, Sequences, FiniteSets

CONSTANTS
  Qubits, Instruments, Cores,
  MIN, MAX,                   \* utils::MIN and utils::MAX: below and above every cycle
  SingleQubitInstruments,     \* single_qubit_instruments: qubit -> set of instruments
  TwoQubitInstrument,         \* two_qubit_instrument: operand 1..2 -> qubit -> set of instruments
  TwoQubitEdgeInstrument,     \* two_qubit_edge_instrument: [Qubits \X Qubits -> set of instruments]
  CoreOf,                     \* get_core_index: qubit -> core
  CommQubits,                 \* the qubits for which is_comm_qubit() holds
  CommunicationQubitOnly, InterCoreRequired,
  NumChannels,                \* channels per core
  NumSystemWideChannels

ASSUME ResourcesAssumption ==
  /\ MIN \in Int /\ MAX \in Int /\ MIN < MAX
  /\ SingleQubitInstruments \in [Qubits -> SUBSET Instruments]
  /\ TwoQubitInstrument \in [1 .. 2 -> [Qubits -> SUBSET Instruments]]
  /\ TwoQubitEdgeInstrument \in [Qubits \X Qubits -> SUBSET Instruments]
  /\ IsFiniteSet(Cores)
  /\ CoreOf \in [Qubits -> Cores] /\ CommQubits \subseteq Qubits
  /\ CommunicationQubitOnly \in BOOLEAN /\ InterCoreRequired \in BOOLEAN
  /\ NumChannels \in Nat /\ NumChannels >= 1
  /\ NumSystemWideChannels \in Nat /\ NumSystemWideChannels >= 2

Directions == {"FORWARD", "BACKWARD", "UNDEFINED"}

\* The resources in the order in which State visits them (by instance name).
ResourceNames == <<"instrument", "inter_core_channel", "qubit">>

OperandsOf(gate) == {gate.qubits[i] : i \in DOMAIN gate.qubits}

Occupied(cycle, gate) == RangePair(cycle, cycle + gate.duration)

IsFree(reservations, cycle, gate) == Find(reservations, Occupied(cycle, gate)) = {}

\* A RangeSet is a RangeMap without values, and no resource merges equal neighbours.
Reserved(reservations, cycle, gate, value) ==
  SetRange(reservations, Occupied(cycle, gate), value, FALSE)

Optimize(rs) == rs.config.direction # "UNDEFINED"

-----------------------------------------------------------------------------
(* Qubits: one gate at a time.  With a scheduling direction only the last  *)
(* reservation is kept.                                                    *)

QubitAvailable(rs, cycle, gate) ==
  \A q \in OperandsOf(gate) : IsFree(rs.qubit[q], cycle, gate)

\* Mutant: only the first operand is reserved.
FirstQubitCommit(rs, cycle, gate) ==
  [q \in Qubits |->
     IF gate.qubits # <<>> /\ q = gate.qubits[1]
       THEN Reserved(IF Optimize(rs) THEN {} ELSE rs.qubit[q], cycle, gate, "")
       ELSE rs.qubit[q]]

QubitCommit(rs, cycle, gate) ==
  [q \in Qubits |->
     IF q \in OperandsOf(gate)
       THEN Reserved(IF Optimize(rs) THEN {} ELSE rs.qubit[q], cycle, gate, "")
       ELSE rs.qubit[q]]

-----------------------------------------------------------------------------
(* Instruments: shared by qubits and edges, one function at a time.        *)

\* The instruments a gate of one or two operands uses (three or more operands index
\* the two-element array two_qubit_instrument past its end).
Affected(gate) ==
  IF ~gate.instrumented THEN {}
  ELSE CASE Len(gate.qubits) = 0 -> {}
         [] Len(gate.qubits) = 1 -> SingleQubitInstruments[gate.qubits[1]]
         [] Len(gate.qubits) = 2 ->
              (UNION {TwoQubitInstrument[i][gate.qubits[i]] : i \in 1 .. 2})
                \cup TwoQubitEdgeInstrument[<<gate.qubits[1], gate.qubits[2]>>]

\* The value stored with a reservation: function stays 0 when all use is exclusive.
FunctionOf(rs, gate) == IF rs.config.exclusive THEN "" ELSE gate.function

\* Mutant: an exact match is taken for the same use.
ExactIsFree(rs, cycle, gate) ==
  \A i \in Affected(gate) :
    MatchType(rs.instrument[i], Occupied(cycle, gate)) \in {"none", "exact"}

InstrumentAvailable(rs, cycle, gate) ==
  \A i \in Affected(gate) :
    LET range == Occupied(cycle, gate)
        found == Find(rs.instrument[i], range)
        match == MatchType(rs.instrument[i], range)
    IN \/ match = "none"
       \/ /\ ~rs.config.exclusive
          /\ match = "exact" \/ rs.config.overlap
          /\ \A e \in found : e.value = gate.function

InstrumentCommit(rs, cycle, gate) ==
  LET range == Occupied(cycle, gate)
      trimmed(m) == CASE rs.config.direction = "FORWARD"  -> EraseRange(m, RangePair(MIN, range.first))
                      [] rs.config.direction = "BACKWARD" -> EraseRange(m, RangePair(range.second, MAX))
                      [] OTHER -> m
  IN [i \in Instruments |->
        IF i \in Affected(gate)
          THEN Reserved(trimmed(rs.instrument[i]), cycle, gate, FunctionOf(rs, gate))
          ELSE rs.instrument[i]]

-----------------------------------------------------------------------------
(* Inter-core channels: every core has NumChannels, at most                *)
(* NumSystemWideChannels are in use at once.                               *)

AffectedCores(gate) ==
  {CoreOf[q] : q \in {x \in OperandsOf(gate) : CommunicationQubitOnly => x \in CommQubits}}

UsesChannels(gate) ==
  /\ gate.channelled
  /\ gate.qubits # <<>>
  /\ ~(InterCoreRequired /\ Len(gate.qubits) >= 2 /\ Cardinality(AffectedCores(gate)) < 2)

FreeChannels(rs, core, cycle, gate) ==
  {s \in 1 .. NumChannels : IsFree(rs.channel[core][s], cycle, gate)}

ChannelsInUse(rs, cycle, gate) ==
  Cardinality({c \in Cores \X (1 .. NumChannels) : ~IsFree(rs.channel[c[1]][c[2]], cycle, gate)})

\* Mutant: what the gate itself needs is not counted.
InUseOnly(rs, cycle, gate) ==
  UsesChannels(gate) =>
    /\ \A core \in AffectedCores(gate) : FreeChannels(rs, core, cycle, gate) # {}
    /\ ChannelsInUse(rs, cycle, gate) <= NumSystemWideChannels

ChannelAvailable(rs, cycle, gate) ==
  UsesChannels(gate) =>
    /\ \A core \in AffectedCores(gate) : FreeChannels(rs, core, cycle, gate) # {}
    /\ ChannelsInUse(rs, cycle, gate) + Len(gate.qubits) <= NumSystemWideChannels

ChannelCommit(rs, cycle, gate) ==
  LET isFirstFree(core, s) == /\ s \in FreeChannels(rs, core, cycle, gate)
                              /\ \A t \in FreeChannels(rs, core, cycle, gate) : s <= t
  IN [core \in Cores |->
        [s \in 1 .. NumChannels |->
           IF UsesChannels(gate) /\ core \in AffectedCores(gate) /\ isFirstFree(core, s)
             THEN Reserved(IF Optimize(rs) THEN {} ELSE rs.channel[core][s], cycle, gate, "")
             ELSE rs.channel[core][s]]]

-----------------------------------------------------------------------------
(* rmgr: Manager::build(), Base::gate(), State::available() and reserve(). *)

InitialResources(config) ==
  [config     |-> config,
   prev       |-> [r \in {ResourceNames[i] : i \in DOMAIN ResourceNames} |->
                     IF config.direction = "FORWARD" THEN MIN ELSE MAX],
   instrument |-> [i \in Instruments |-> {}],
   channel    |-> [core \in Cores |-> [s \in 1 .. NumChannels |-> {}]],
   qubit      |-> [q \in Qubits |-> {}]]

\* Mutants: the order of the cycles is not looked at; is checked the wrong way round.
AnyOrder(rs, name, cycle) == FALSE
WrongOrder(rs, name, cycle) ==
  \/ rs.config.direction = "FORWARD" /\ cycle > rs.prev[name]
  \/ rs.config.direction = "BACKWARD" /\ cycle < rs.prev[name]

OutOfOrder(rs, name, cycle) ==
  \/ rs.config.direction = "FORWARD" /\ cycle < rs.prev[name]
  \/ rs.config.direction = "BACKWARD" /\ cycle > rs.prev[name]

GateFits(rs, name, cycle, gate) ==
  /\ ~OutOfOrder(rs, name, cycle)
  /\ CASE name = "qubit"              -> QubitAvailable(rs, cycle, gate)
       [] name = "instrument"         -> InstrumentAvailable(rs, cycle, gate)
       [] name = "inter_core_channel" -> ChannelAvailable(rs, cycle, gate)

Available(rs, cycle, gate) ==
  \A i \in DOMAIN ResourceNames : GateFits(rs, ResourceNames[i], cycle, gate)

\* reserve() commits to one resource after the other up to the first that refuses.
Committing(rs, cycle, gate) ==
  {ResourceNames[i] : i \in {j \in DOMAIN ResourceNames :
                               \A k \in 1 .. j : GateFits(rs, ResourceNames[k], cycle, gate)}}

Reserve(rs, cycle, gate) ==
  LET done == Committing(rs, cycle, gate)
  IN [rs EXCEPT
        !.prev       = [r \in DOMAIN rs.prev |-> IF r \in done THEN cycle ELSE rs.prev[r]],
        !.instrument = IF "instrument" \in done THEN InstrumentCommit(rs, cycle, gate) ELSE @,
        !.channel    = IF "inter_core_channel" \in done THEN ChannelCommit(rs, cycle, gate) ELSE @,
        !.qubit      = IF "qubit" \in done THEN QubitCommit(rs, cycle, gate) ELSE @]

=============================================================================
