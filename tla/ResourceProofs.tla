---------------------------- MODULE ResourceProofs ---------------------------
(***************************************************************************)
(* The resources for every number of qubits, instruments, cores, gates,    *)
(* cycles and reservations.  With a direction a qubit and a channel        *)
(* remember only their last reservation, and an instrument only what lies  *)
(* ahead of the last cycle; the invariants say why that is enough: what is *)
(* forgotten lies, as seen in the direction, behind what is kept.          *)
(***************************************************************************)
EXTENDS ResourceState, RangeMapTheory, SequenceTheorems, FiniteSetTheorems, WellFoundedInduction

Direction == state.config.direction
Slot(i) == Occupied(history[i].cycle, history[i].gate)
Uses(i, q) == q \in OperandsOf(history[i].gate)

Names == {"instrument", "inter_core_channel", "qubit"}

StateShape ==
  /\ state = [config |-> state.config, prev |-> state.prev, instrument |-> state.instrument,
              channel |-> state.channel, qubit |-> state.qubit]
  /\ DOMAIN state.prev = Names /\ \A r \in Names : state.prev[r] \in Int
  /\ state.config \in Configs

Slots(q) == {Slot(i) : i \in {j \in DOMAIN history : Uses(j, q)}}

Remembered == \A q \in Qubits : Lane(state.qubit[q], Direction, state.prev["qubit"], Slots(q))

IInv ==
  /\ StateShape
  /\ history \in Seq([cycle : Cycles, gate : Gates])
  /\ QubitExclusive
  /\ ~is_broken => Remembered

-----------------------------------------------------------------------------

\* A gate occupies a valid range of cycles.
LEMMA OccupiedRange ==
  ASSUME NEW c \in Cycles, NEW g \in Gates
  PROVE  /\ Occupied(c, g) \in KeyRanges /\ RangeValid(Occupied(c, g))
         /\ Occupied(c, g).first = c /\ Occupied(c, g).second = c + g.duration
         /\ c \in Int /\ g.duration \in Nat
         /\ OperandsOf(g) \subseteq Qubits
<1>1. c \in Int /\ g.duration \in Nat /\ g.qubits \in Seq(Qubits)
  BY GatesAssumption
<1>2. OperandsOf(g) \subseteq Qubits
  BY <1>1 DEF OperandsOf
<1> QED BY <1>1, <1>2 DEF Occupied, RangePair, KeyRanges, RangeValid

\* The cycles of a gate are those inside the range it occupies.
LEMMA BusyInside ==
  ASSUME NEW h, h.cycle \in Cycles, h.gate \in Gates, NEW k
  PROVE  k \in Busy(h) <=> k \in Int /\ Inside(k, Occupied(h.cycle, h.gate))
<1>1. /\ Occupied(h.cycle, h.gate).first = h.cycle
      /\ Occupied(h.cycle, h.gate).second = h.cycle + h.gate.duration
      /\ h.cycle \in Int /\ h.gate.duration \in Nat
  BY OccupiedRange
<1> QED BY <1>1 DEF Busy, Inside

\* Ranges that share a key touch.
LEMMA InsideTouch ==
  ASSUME NEW a \in KeyRanges, NEW b \in KeyRanges, NEW k \in Int, Inside(k, a), Inside(k, b)
  PROVE  Touches(a, b)
BY DEF KeyRanges, Inside, Touches

\* Gates that run at the same time occupy ranges that touch.
LEMMA ConcurrentTouch ==
  ASSUME NEW g, NEW h, g.cycle \in Cycles, g.gate \in Gates, h.cycle \in Cycles, h.gate \in Gates,
         Concurrent(g, h)
  PROVE  Touches(Occupied(g.cycle, g.gate), Occupied(h.cycle, h.gate))
<1>1. PICK k \in Busy(g) : k \in Busy(h)
  BY DEF Concurrent
<1> QED BY <1>1, BusyInside, InsideTouch, OccupiedRange

\* A gate uses instruments that exist.
LEMMA AffectedInstruments ==
  ASSUME NEW g \in Gates
  PROVE  Affected(g) \subseteq Instruments
<1>1. g.qubits \in Seq(Qubits) /\ Len(g.qubits) \in Nat /\ Len(g.qubits) <= 2
  BY GatesAssumption, LenProperties
<1>2. CASE ~g.instrumented
  BY <1>2 DEF Affected
<1>3. CASE g.instrumented /\ Len(g.qubits) = 0
  BY <1>3 DEF Affected
<1>4. CASE g.instrumented /\ Len(g.qubits) = 1
  <2>1. SingleQubitInstruments[g.qubits[1]] \subseteq Instruments
    BY <1>1, <1>4, ElementOfSeq, ResourcesAssumption
  <2>2. Affected(g) = SingleQubitInstruments[g.qubits[1]]
    BY <1>4 DEF Affected
  <2> QED BY <2>1, <2>2
<1>5. CASE g.instrumented /\ Len(g.qubits) = 2
  <2>1. g.qubits[1] \in Qubits /\ g.qubits[2] \in Qubits
    BY <1>1, <1>5, ElementOfSeq
  <2>2. \A j \in 1 .. 2 : j = 1 \/ j = 2
    OBVIOUS
  <2>3. /\ \A j \in 1 .. 2 : TwoQubitInstrument[j][g.qubits[j]] \subseteq Instruments
        /\ TwoQubitEdgeInstrument[<<g.qubits[1], g.qubits[2]>>] \subseteq Instruments
    BY <2>1, <2>2, ResourcesAssumption
  <2>4. Affected(g) = (UNION {TwoQubitInstrument[j][g.qubits[j]] : j \in 1 .. 2})
                        \cup TwoQubitEdgeInstrument[<<g.qubits[1], g.qubits[2]>>]
    BY <1>5 DEF Affected
  <2>5. UNION {TwoQubitInstrument[j][g.qubits[j]] : j \in 1 .. 2} \subseteq Instruments
    BY <2>3
  <2> QED BY <2>3, <2>4, <2>5
<1>6. Len(g.qubits) = 0 \/ Len(g.qubits) = 1 \/ Len(g.qubits) = 2
  <2>1. \A n \in Nat : n <= 2 => n = 0 \/ n = 1 \/ n = 2
    OBVIOUS
  <2> QED BY <1>1, <2>1
<1>7. CASE g.instrumented
  BY <1>3, <1>4, <1>5, <1>6, <1>7
<1> QED BY <1>2, <1>7

\* A committed reservation occupies a valid range of cycles.
LEMMA Reservations ==
  ASSUME history \in Seq([cycle : Cycles, gate : Gates]), NEW i \in DOMAIN history
  PROVE  /\ history[i].cycle \in Cycles /\ history[i].gate \in Gates
         /\ Slot(i) \in KeyRanges /\ RangeValid(Slot(i))
<1>1. history[i] \in [cycle : Cycles, gate : Gates]
  <2>1. DOMAIN history = 1 .. Len(history)
    BY LenProperties
  <2> QED BY <2>1, ElementOfSeq
<1> QED BY <1>1, OccupiedRange DEF Slot

\* A gate that fits the order of one resource comes, in the direction, after its last one.
LEMMA InOrder ==
  ASSUME StateShape, NEW name \in Names, NEW c \in Cycles, ~OutOfOrder(state, name, c)
  PROVE  UpTo(Direction, state.prev[name], c)
<1>1. c \in Int /\ state.prev[name] \in Int
  BY GatesAssumption DEF StateShape
<1> QED BY <1>1 DEF UpTo, OutOfOrder, Direction

-----------------------------------------------------------------------------
(* What one step does.                                                     *)

\* Every resource is committed; nothing is forgotten but by the commits.
Committed(c, g) ==
  /\ Available(state, c, g)
  /\ state' = [config     |-> state.config,
               prev       |-> [r \in Names |-> c],
               instrument |-> InstrumentCommit(state, c, g),
               channel    |-> ChannelCommit(state, c, g),
               qubit      |-> QubitCommit(state, c, g)]
  /\ ~is_broken'

\* One reservation has been added at the end of the history.
Added(n, c, g) ==
  /\ DOMAIN history' = DOMAIN history \cup {n} /\ n \notin DOMAIN history
  /\ history'[n] = [cycle |-> c, gate |-> g]
  /\ history'[n].cycle = c /\ history'[n].gate = g
  /\ \A i \in DOMAIN history : history'[i] = history[i]

\* What available() asks of the three resources.
LEMMA AvailableParts ==
  ASSUME NEW c, NEW g
  PROVE  Available(state, c, g) <=>
           /\ \A name \in Names : ~OutOfOrder(state, name, c)
           /\ InstrumentAvailable(state, c, g)
           /\ ChannelAvailable(state, c, g)
           /\ QubitAvailable(state, c, g)
<1>1. /\ DOMAIN ResourceNames = 1 .. 3
      /\ ResourceNames[1] = "instrument" /\ ResourceNames[2] = "inter_core_channel"
      /\ ResourceNames[3] = "qubit"
  BY DEF ResourceNames
<1>2. Available(state, c, g) <=> /\ GateFits(state, "instrument", c, g)
                                 /\ GateFits(state, "inter_core_channel", c, g)
                                 /\ GateFits(state, "qubit", c, g)
  <2>1. \A i \in 1 .. 3 : i = 1 \/ i = 2 \/ i = 3
    OBVIOUS
  <2> QED BY <1>1, <2>1 DEF Available
<1>3. GateFits(state, "instrument", c, g)
        <=> ~OutOfOrder(state, "instrument", c) /\ InstrumentAvailable(state, c, g)
  BY DEF GateFits
<1>4. GateFits(state, "inter_core_channel", c, g)
        <=> ~OutOfOrder(state, "inter_core_channel", c) /\ ChannelAvailable(state, c, g)
  BY DEF GateFits
<1>5. GateFits(state, "qubit", c, g) <=> ~OutOfOrder(state, "qubit", c) /\ QubitAvailable(state, c, g)
  BY DEF GateFits
<1> QED BY <1>2, <1>3, <1>4, <1>5 DEF Names

\* reserve() either commits to every resource or breaks the state; the shape, the
\* configuration and the history survive both.
LEMMA ReserveEffect ==
  ASSUME StateShape, history \in Seq([cycle : Cycles, gate : Gates]),
         NEW c \in Cycles, NEW g \in Gates, ReserveGate(c, g)
  PROVE  /\ ~is_broken /\ StateShape' /\ Direction' = Direction /\ state'.config = state.config
         /\ history' \in Seq([cycle : Cycles, gate : Gates])
         /\ \/ is_broken' /\ history' = history
            \/ Committed(c, g) /\ \E n : Added(n, c, g)
<1> DEFINE done == Committing(state, c, g)
           after == Reserve(state, c, g)
           h == [cycle |-> c, gate |-> g]
           p == [r \in DOMAIN state.prev |-> IF r \in done THEN c ELSE state.prev[r]]
           i == IF "instrument" \in done THEN InstrumentCommit(state, c, g) ELSE state.instrument
           n == IF "inter_core_channel" \in done THEN ChannelCommit(state, c, g) ELSE state.channel
           u == IF "qubit" \in done THEN QubitCommit(state, c, g) ELSE state.qubit
<1>1. /\ ~is_broken /\ state' = after
      /\ is_broken' = ~Available(state, c, g)
      /\ history' = IF is_broken' THEN history ELSE Append(history, h)
  BY DEF ReserveGate
<1>2. after = [config |-> state.config, prev |-> p, instrument |-> i, channel |-> n, qubit |-> u]
  <2>1. after = [state EXCEPT !.prev = p, !.instrument = i, !.channel = n, !.qubit = u]
    BY DEF Reserve
  <2> HIDE DEF p, i, n, u, after
  <2>2. state = [config |-> state.config, prev |-> state.prev, instrument |-> state.instrument,
                 channel |-> state.channel, qubit |-> state.qubit]
    BY DEF StateShape
  <2> QED BY <2>1, <2>2
<1>3. DOMAIN p = Names /\ \A r \in Names : p[r] \in Int
  BY OccupiedRange DEF StateShape
<1>4. Available(state, c, g) => done = Names
  <2>1. /\ DOMAIN ResourceNames = 1 .. 3
        /\ ResourceNames[1] = "instrument" /\ ResourceNames[2] = "inter_core_channel"
        /\ ResourceNames[3] = "qubit"
    BY DEF ResourceNames
  <2>2. \A j \in 1 .. 3 : j = 1 \/ j = 2 \/ j = 3
    OBVIOUS
  <2>3. Names = {ResourceNames[j] : j \in 1 .. 3}
    BY <2>1, <2>2 DEF Names
  <2>4. Available(state, c, g) => done = {ResourceNames[j] : j \in 1 .. 3}
    BY <2>1 DEF Available, Committing
  <2> QED BY <2>3, <2>4
<1>5. Available(state, c, g) =>
        /\ p = [r \in Names |-> c] /\ i = InstrumentCommit(state, c, g)
        /\ n = ChannelCommit(state, c, g) /\ u = QubitCommit(state, c, g)
  BY <1>4 DEF StateShape, Names
<1> HIDE DEF p, i, n, u, after, done
<1>6. StateShape' /\ Direction' = Direction /\ state'.config = state.config
  BY <1>1, <1>2, <1>3 DEF StateShape, Direction
<1>7. CASE ~Available(state, c, g)
  BY <1>1, <1>6, <1>7
<1>8. CASE Available(state, c, g)
  <2>1. Committed(c, g)
    BY <1>1, <1>2, <1>5, <1>8 DEF Committed
  <2>2. h \in [cycle : Cycles, gate : Gates] /\ h.cycle = c /\ h.gate = g
    OBVIOUS
  <2> DEFINE k == Len(history) + 1
  <2>3. /\ Append(history, h) \in Seq([cycle : Cycles, gate : Gates])
        /\ Len(Append(history, h)) = k /\ Len(history) \in Nat
        /\ \A j \in 1 .. Len(history) : Append(history, h)[j] = history[j]
        /\ Append(history, h)[k] = h
    BY <2>2, AppendProperties, LenProperties
  <2>4. DOMAIN history = 1 .. Len(history) /\ DOMAIN Append(history, h) = 1 .. k
    BY <2>3, LenProperties
  <2>5. 1 .. k = (1 .. Len(history)) \cup {k} /\ k \notin 1 .. Len(history)
    BY <2>3
  <2>6. Added(k, c, g)
    BY <1>1, <1>8, <2>2, <2>3, <2>4, <2>5 DEF Added
  <2> QED BY <1>1, <1>6, <1>8, <2>1, <2>3, <2>6
<1> QED BY <1>7, <1>8

\* Nothing is reserved at first, whatever the direction.
LEMMA InitialShape ==
  ASSUME Init
  PROVE  /\ StateShape /\ history = << >> /\ DOMAIN history = {}
         /\ history \in Seq([cycle : Cycles, gate : Gates])
         /\ \A r \in Names : state.prev[r] = IF Direction = "FORWARD" THEN MIN ELSE MAX
         /\ \A q \in Qubits : state.qubit[q] = {}
         /\ \A i \in Instruments : state.instrument[i] = {}
         /\ \A core \in Cores, s \in 1 .. NumChannels : state.channel[core][s] = {}
<1>1. PICK config \in Configs : state = InitialResources(config)
  BY DEF Init
<1>2. Names = {ResourceNames[i] : i \in DOMAIN ResourceNames}
  <2>1. DOMAIN ResourceNames = 1 .. 3
    BY DEF ResourceNames
  <2>2. ResourceNames[1] = "instrument" /\ ResourceNames[2] = "inter_core_channel"
        /\ ResourceNames[3] = "qubit"
    BY DEF ResourceNames
  <2> HIDE DEF ResourceNames
  <2>3. \A i \in 1 .. 3 : i = 1 \/ i = 2 \/ i = 3
    OBVIOUS
  <2> QED BY <2>1, <2>2, <2>3 DEF Names
<1>3. state = [config |-> config,
               prev |-> [r \in Names |-> IF config.direction = "FORWARD" THEN MIN ELSE MAX],
               instrument |-> [i \in Instruments |-> {}],
               channel |-> [core \in Cores |-> [s \in 1 .. NumChannels |-> {}]],
               qubit |-> [q \in Qubits |-> {}]]
  BY <1>1, <1>2 DEF InitialResources
<1>4. history = << >> /\ DOMAIN history = {} /\ history \in Seq([cycle : Cycles, gate : Gates])
  BY DEF Init
<1>5. StateShape
  BY <1>3, ResourcesAssumption DEF StateShape
<1> QED BY <1>3, <1>4, <1>5 DEF Direction

-----------------------------------------------------------------------------
(* Qubits.                                                                 *)

\* What available() promises: the new gate touches no reservation of its qubits, kept or
\* forgotten; and what it means when it refuses.
LEMMA QubitAnswers ==
  ASSUME IInv, ~is_broken, NEW c \in Cycles, NEW g \in Gates, ~OutOfOrder(state, "qubit", c)
  PROVE  QubitAvailable(state, c, g) <=>
           \A q \in OperandsOf(g) : \A a \in Slots(q) : ~Touches(a, Occupied(c, g))
<1>1. /\ OperandsOf(g) \subseteq Qubits /\ Occupied(c, g) \in KeyRanges /\ RangeValid(Occupied(c, g))
      /\ Occupied(c, g).first = c
  BY OccupiedRange
<1>2. UpTo(Direction, state.prev["qubit"], c)
  BY InOrder DEF IInv, Names
<1>3. ASSUME NEW q \in OperandsOf(g)
      PROVE  IsFree(state.qubit[q], c, g) <=> \A a \in Slots(q) : ~Touches(a, Occupied(c, g))
  <2>1. Lane(state.qubit[q], Direction, state.prev["qubit"], Slots(q))
    BY <1>1 DEF IInv, Remembered
  <2> QED BY <1>1, <1>2, <2>1, LaneFree DEF IsFree
<1> QED BY <1>3 DEF QubitAvailable

\* A gate that is reserved runs at no time at which a gate on one of its qubits runs.
LEMMA NewGateExclusive ==
  ASSUME IInv, ~is_broken, NEW c \in Cycles, NEW g \in Gates, Available(state, c, g),
         NEW i \in DOMAIN history, NEW n, n.cycle = c, n.gate = g,
         Concurrent(history[i], n) \/ Concurrent(n, history[i])
  PROVE  OperandsOf(history[i].gate) \cap OperandsOf(g) = {}
<1>1. history[i].cycle \in Cycles /\ history[i].gate \in Gates
  BY Reservations DEF IInv
<1>2. Concurrent(history[i], n)
  BY DEF Concurrent
<1>3. Touches(Slot(i), Occupied(c, g))
  BY <1>1, <1>2, ConcurrentTouch DEF Slot
<1>4. \A q \in OperandsOf(g) : \A a \in Slots(q) : ~Touches(a, Occupied(c, g))
  BY AvailableParts, QubitAnswers DEF Names
<1> QED BY <1>3, <1>4 DEF Slots, Uses

\* reserve() keeps the invariant, whether it succeeds or throws.
LEMMA StepKeepsInvariant ==
  ASSUME IInv, NEW c \in Cycles, NEW g \in Gates, ReserveGate(c, g)
  PROVE  IInv'
<1>1. /\ ~is_broken /\ StateShape' /\ Direction' = Direction
      /\ history' \in Seq([cycle : Cycles, gate : Gates])
      /\ \/ is_broken' /\ history' = history
         \/ Committed(c, g) /\ \E n : Added(n, c, g)
  BY ReserveEffect DEF IInv
<1>2. CASE is_broken' /\ history' = history
  BY <1>1, <1>2 DEF IInv, QubitExclusive
<1>3. ASSUME Committed(c, g), NEW n, Added(n, c, g)
      PROVE  IInv'
  <2>1. /\ Available(state, c, g) /\ ~OutOfOrder(state, "qubit", c) /\ QubitAvailable(state, c, g)
        /\ state'.qubit = QubitCommit(state, c, g) /\ state'.prev["qubit"] = c
    BY <1>3, AvailableParts DEF Committed, Names
  <2>2. QubitExclusive'
    <3> SUFFICES ASSUME NEW i \in DOMAIN history', NEW j \in DOMAIN history', i # j,
                        Concurrent(history'[i], history'[j])
                 PROVE  OperandsOf(history'[i].gate) \cap OperandsOf(history'[j].gate) = {}
      BY DEF QubitExclusive
    <3>1. CASE i \in DOMAIN history /\ j \in DOMAIN history
      BY <3>1, <1>3 DEF IInv, QubitExclusive, Added
    <3>2. CASE i \in DOMAIN history /\ j = n
      <4>1. OperandsOf(history[i].gate) \cap OperandsOf(g) = {}
        BY <3>2, <1>1, <1>3, <2>1, NewGateExclusive DEF Added
      <4> QED BY <3>2, <4>1, <1>3 DEF Added
    <3>3. CASE i = n /\ j \in DOMAIN history
      <4>1. OperandsOf(history[j].gate) \cap OperandsOf(g) = {}
        BY <3>3, <1>1, <1>3, <2>1, NewGateExclusive DEF Added
      <4> QED BY <3>3, <4>1, <1>3 DEF Added
    <3> QED BY <3>1, <3>2, <3>3, <1>3 DEF Added
  <2>3. ASSUME NEW q \in Qubits
        PROVE  Lane(state'.qubit[q], Direction, c, Slots(q)')
    <3>1. Lane(state.qubit[q], Direction, state.prev["qubit"], Slots(q))
      BY <1>1 DEF IInv, Remembered
    <3>2. UpTo(Direction, state.prev["qubit"], c) /\ Direction \in {"FORWARD", "BACKWARD", "UNDEFINED"}
      BY <2>1, InOrder, GatesAssumption DEF IInv, Names, StateShape, Direction, Directions
    <3>3. /\ Occupied(c, g) \in KeyRanges /\ RangeValid(Occupied(c, g)) /\ Occupied(c, g).first = c
          /\ c \in Int
      BY OccupiedRange
    <3>4. Slots(q)' = IF q \in OperandsOf(g) THEN Slots(q) \cup {Occupied(c, g)} ELSE Slots(q)
      BY <1>3 DEF Slots, Slot, Uses, Added
    <3>5. CASE q \notin OperandsOf(g)
      <4>1. state'.qubit[q] = state.qubit[q]
        BY <2>1, <3>5 DEF QubitCommit
      <4> QED BY <4>1, <3>1, <3>2, <3>3, <3>4, <3>5, LaneWaits
    <3>6. CASE q \in OperandsOf(g)
      <4>1. state'.qubit[q] = SetRange(IF Direction # "UNDEFINED" THEN {} ELSE state.qubit[q],
                                       Occupied(c, g), "", FALSE)
        BY <2>1, <3>6 DEF QubitCommit, Reserved, Optimize, Direction
      <4>2. Find(state.qubit[q], Occupied(c, g)) = {}
        BY <2>1, <3>6 DEF QubitAvailable, IsFree
      <4>3. Lane(SetRange(IF Direction # "UNDEFINED" THEN {} ELSE state.qubit[q],
                          Occupied(c, g), "", FALSE),
                 Direction, Occupied(c, g).first, Slots(q) \cup {Occupied(c, g)})
        BY <3>1, <3>2, <3>3, <4>2, LaneReserve
      <4> QED BY <4>1, <4>3, <3>3, <3>4, <3>6
    <3> QED BY <3>5, <3>6
  <2> QED BY <1>1, <2>1, <2>2, <2>3 DEF IInv, Remembered
<1> QED BY <1>1, <1>2, <1>3

\* The invariant holds whatever is reserved, in whatever order, until a reservation fails.
THEOREM AlwaysRemembered == Spec => []IInv
<1>1. Init => IInv
  <2> SUFFICES ASSUME Init PROVE IInv
    OBVIOUS
  <2>1. \A q \in Qubits : Slots(q) = {}
    BY InitialShape DEF Slots
  <2>2. Remembered
    <3>1. state.prev["qubit"] \in Int
      BY InitialShape DEF StateShape, Names
    <3>2. Lane({}, Direction, state.prev["qubit"], {})
      BY <3>1, LaneEmpty
    <3> QED BY <2>1, <3>2, InitialShape DEF Remembered
  <2> QED BY <2>2, InitialShape DEF IInv, QubitExclusive
<1>2. IInv /\ [Next]_vars => IInv'
  <2> SUFFICES ASSUME IInv, [Next]_vars PROVE IInv'
    OBVIOUS
  <2>1. CASE Next
    BY <2>1, StepKeepsInvariant DEF Next
  <2>2. CASE UNCHANGED vars
    BY <2>2 DEF vars, IInv, StateShape, Direction, QubitExclusive, Remembered, Slots, Uses, Slot
  <2> QED BY <2>1, <2>2
<1> QED BY <1>1, <1>2, PTL DEF Spec

\* resource/qubit.cc: no qubit is used by two gates in one cycle.
THEOREM AlwaysQubitExclusive == Spec => []QubitExclusive
<1>1. IInv => QubitExclusive
  BY DEF IInv
<1> QED BY <1>1, AlwaysRemembered, PTL

\* Forgetting all but the last reservation of a qubit changes no answer.
THEOREM ForgettingIsAlwaysInvisible == Spec => []ForgettingIsInvisible
<1>1. IInv => ForgettingIsInvisible
  <2> SUFFICES ASSUME IInv, NEW c \in Cycles, NEW g \in Gates, ~is_broken,
                      ~OutOfOrder(state, "qubit", c)
               PROVE  QubitAvailable(state, c, g) <=>
                        \A i \in DOMAIN history :
                          OperandsOf(g) \cap OperandsOf(history[i].gate) # {}
                            => Find({Entry(Slot(i), "")}, Occupied(c, g)) = {}
    BY DEF ForgettingIsInvisible, Slot
  <2>1. Occupied(c, g) \in KeyRanges /\ RangeValid(Occupied(c, g))
    BY OccupiedRange
  <2>2. ASSUME NEW i \in DOMAIN history
        PROVE  Find({Entry(Slot(i), "")}, Occupied(c, g)) = {} <=> ~Touches(Slot(i), Occupied(c, g))
    <3>1. Slot(i) \in KeyRanges /\ RangeValid(Slot(i))
      BY Reservations DEF IInv
    <3>2. WellFormed({Entry(Slot(i), "")}, {""})
      BY <3>1 DEF WellFormed, Ordered, Entries, Entry
    <3>3. Find({Entry(Slot(i), "")}, Occupied(c, g)) = Touching({Entry(Slot(i), "")}, Occupied(c, g))
      BY <2>1, <3>2, FindTouching
    <3>4. Entry(Slot(i), "").range = Slot(i)
      BY DEF Entry
    <3> QED BY <3>3, <3>4 DEF Touching
  <2> QED BY <2>2, QubitAnswers DEF Slots, Uses
<1> QED BY <1>1, AlwaysRemembered, PTL

-----------------------------------------------------------------------------
(* Every resource becomes available: nothing is reserved beyond the cycles *)
(* that are tried.                                                         *)

\* A cycle that no gate that starts at MIN reaches, and before MAX.
WithinCycles(k) == k \in Int /\ MIN < k /\ k < MAX /\ \A g \in Gates : MIN + g.duration < k
Within(m) == \A e \in m : WithinCycles(e.range.first) /\ WithinCycles(e.range.second)

ReservedWithin ==
  /\ StateShape
  /\ history \in Seq([cycle : Cycles, gate : Gates])
  /\ \A r \in Names : MIN <= state.prev[r] /\ state.prev[r] <= MAX
  /\ \A q \in Qubits : Within(state.qubit[q])
  /\ \A i \in Instruments : Within(state.instrument[i])
  /\ \A core \in Cores, s \in 1 .. NumChannels : Within(state.channel[core][s])

\* A gate that is tried starts and ends within the cycles.
LEMMA OccupiedWithin ==
  ASSUME NEW c \in Cycles, NEW g \in Gates
  PROVE  /\ WithinCycles(Occupied(c, g).first) /\ WithinCycles(Occupied(c, g).second)
         /\ WithinCycles(c)
<1>1. /\ Occupied(c, g).first = c /\ Occupied(c, g).second = c + g.duration
      /\ c \in Int /\ g.duration \in Nat
  BY OccupiedRange
<1>2. c + g.duration < MAX /\ \A h \in Gates : h.duration \in Nat /\ MIN + h.duration < c
  BY GatesAssumption
<1>3. MIN \in Int /\ MAX \in Int
  BY ResourcesAssumption
<1> QED BY <1>1, <1>2, <1>3 DEF WithinCycles

\* Whatever the walks of find_internal() return, the pieces that erase() puts back end
\* where what they are pieces of ended, or where the range does.
LEMMA EraseWithin ==
  ASSUME NEW m, Within(m), NEW c, WithinCycles(c)
  PROVE  /\ Within(EraseRange(m, RangePair(MIN, c)))
         /\ Within(EraseRange(m, RangePair(c, MAX)))
<1>1. MIN \in Int /\ MAX \in Int
  BY ResourcesAssumption
<1>2. ASSUME NEW r, WithinCycles(r.first) \/ r.first = MIN, WithinCycles(r.second) \/ r.second = MAX
      PROVE  Within(EraseRange(m, r))
  <2> SUFFICES ASSUME NEW x \in EraseRange(m, r)
               PROVE  WithinCycles(x.range.first) /\ WithinCycles(x.range.second)
    BY DEF Within
  <2>1. CASE x \in m
    BY <2>1 DEF Within
  <2>2. CASE \E e \in m : /\ e.range.first < r.first
                          /\ x = Entry(RangePair(e.range.first, r.first), e.value)
    <3>1. PICK e \in m : /\ e.range.first < r.first
                         /\ x = Entry(RangePair(e.range.first, r.first), e.value)
      BY <2>2
    <3>2. WithinCycles(e.range.first)
      BY DEF Within
    <3>3. WithinCycles(r.first)
      BY <1>1, <1>2, <3>1, <3>2 DEF WithinCycles
    <3> QED BY <3>1, <3>2, <3>3 DEF Entry, RangePair
  <2>3. CASE \E e \in m : /\ e.range.second > r.second
                          /\ x = Entry(RangePair(r.second, e.range.second), e.value)
    <3>1. PICK e \in m : /\ e.range.second > r.second
                         /\ x = Entry(RangePair(r.second, e.range.second), e.value)
      BY <2>3
    <3>2. WithinCycles(e.range.second)
      BY DEF Within
    <3>3. WithinCycles(r.second)
      BY <1>1, <1>2, <3>1, <3>2 DEF WithinCycles
    <3> QED BY <3>1, <3>2, <3>3 DEF Entry, RangePair
  <2> QED BY <2>1, <2>2, <2>3
       DEF EraseRange, Find, FindBefore, FindAfter, SticksOutBefore, SticksOutAfter
<1>3. /\ RangePair(MIN, c).first = MIN /\ RangePair(MIN, c).second = c
      /\ RangePair(c, MAX).first = c /\ RangePair(c, MAX).second = MAX
  BY DEF RangePair
<1> QED BY <1>2, <1>3

\* The same for a reservation.
LEMMA ReservedRangeWithin ==
  ASSUME NEW m, Within(m), NEW c \in Cycles, NEW g \in Gates, NEW v
  PROVE  Within(Reserved(m, c, g, v))
<1> DEFINE r == Occupied(c, g)
<1>1. WithinCycles(r.first) /\ WithinCycles(r.second)
  BY OccupiedWithin
<1> HIDE DEF r
<1>2. ASSUME NEW merge, ~merge, NEW x \in SetRange(m, r, v, merge)
      PROVE  \/ x \in m
             \/ x = Entry(RangePair(r.first, r.second), v)
             \/ \E e \in m : x = Entry(RangePair(e.range.first, r.first), e.value)
             \/ \E e \in m : x = Entry(RangePair(r.second, e.range.second), e.value)
  BY <1>2 DEF SetRange, Insert, Find, FindBefore, FindAfter, SticksOutBefore, SticksOutAfter
<1>3. ASSUME NEW x, \/ x \in m
                    \/ x = Entry(RangePair(r.first, r.second), v)
                    \/ \E e \in m : x = Entry(RangePair(e.range.first, r.first), e.value)
                    \/ \E e \in m : x = Entry(RangePair(r.second, e.range.second), e.value)
      PROVE  WithinCycles(x.range.first) /\ WithinCycles(x.range.second)
  BY <1>1, <1>3 DEF Within, Entry, RangePair
<1>4. \A merge : ~merge => Within(SetRange(m, r, v, merge))
  BY <1>2, <1>3 DEF Within
<1>5. ~FALSE
  OBVIOUS
<1>6. Within(SetRange(m, r, v, FALSE))
  BY <1>4, <1>5, Zenon
<1> QED BY <1>6 DEF Reserved, r

\* What lies within the cycles is not found by a gate that starts at MAX or at MIN.
LEMMA FreeAtTheEnds ==
  ASSUME NEW m, Within(m), NEW g \in Gates
  PROVE  IsFree(m, MIN, g) /\ IsFree(m, MAX, g)
<1>1. MIN \in Int /\ MAX \in Int /\ MIN < MAX /\ g.duration \in Nat
  BY ResourcesAssumption, GatesAssumption
<1>2. ASSUME NEW e \in m
      PROVE  /\ e.range.first \in Int /\ e.range.second \in Int
             /\ e.range.first < MAX /\ e.range.second < MAX
             /\ MIN < e.range.first /\ MIN + g.duration < e.range.first
  BY DEF Within, WithinCycles
<1>3. Occupied(MIN, g).first = MIN /\ Occupied(MIN, g).second = MIN + g.duration
      /\ Occupied(MAX, g).first = MAX
  BY DEF Occupied, RangePair
<1>4. ASSUME NEW e \in m, NEW r
      PROVE  /\ e \in FindBefore(m, r) => RangeBefore(e.range, r) /\ ~RangeEntirelyBefore(e.range, r)
             /\ e \in FindAfter(m, r) => ~RangeBefore(e.range, r) /\ ~RangeEntirelyBefore(r, e.range)
  <2>1. ~RangeBefore(e.range, e.range)
    BY <1>2 DEF RangeBefore
  <2> QED BY <2>1 DEF FindBefore, FindAfter
<1>5. ASSUME NEW e \in m
      PROVE  e \notin Find(m, Occupied(MIN, g)) /\ e \notin Find(m, Occupied(MAX, g))
  <2>1. ~RangeBefore(e.range, Occupied(MIN, g)) /\ RangeEntirelyBefore(Occupied(MIN, g), e.range)
    BY <1>1, <1>2, <1>3 DEF RangeBefore, RangeEntirelyBefore
  <2>2. RangeBefore(e.range, Occupied(MAX, g)) /\ RangeEntirelyBefore(e.range, Occupied(MAX, g))
    BY <1>1, <1>2, <1>3 DEF RangeBefore, RangeEntirelyBefore
  <2> QED BY <1>4, <2>1, <2>2 DEF Find
<1>6. \A r : Find(m, r) \subseteq m
  BY DEF Find, FindBefore, FindAfter
<1> QED BY <1>5, <1>6 DEF IsFree

\* A commit reserves within the cycles.
LEMMA CommitWithin ==
  ASSUME ReservedWithin, NEW c \in Cycles, NEW g \in Gates
  PROVE  /\ \A q \in Qubits : Within(QubitCommit(state, c, g)[q])
         /\ \A i \in Instruments : Within(InstrumentCommit(state, c, g)[i])
         /\ \A core \in Cores, s \in 1 .. NumChannels : Within(ChannelCommit(state, c, g)[core][s])
<1>1. Within({})
  BY DEF Within
<1>2. ASSUME NEW q \in Qubits PROVE Within(QubitCommit(state, c, g)[q])
  <2>1. Within(IF Optimize(state) THEN {} ELSE state.qubit[q])
    BY <1>1 DEF ReservedWithin
  <2>2. Within(Reserved(IF Optimize(state) THEN {} ELSE state.qubit[q], c, g, ""))
    BY <2>1, ReservedRangeWithin
  <2> QED BY <2>2 DEF QubitCommit, ReservedWithin
<1>3. ASSUME NEW i \in Instruments PROVE Within(InstrumentCommit(state, c, g)[i])
  <2> DEFINE range == Occupied(c, g)
             trimmed == CASE Direction = "FORWARD" ->
                               EraseRange(state.instrument[i], RangePair(MIN, range.first))
                          [] Direction = "BACKWARD" ->
                               EraseRange(state.instrument[i], RangePair(range.second, MAX))
                          [] OTHER -> state.instrument[i]
  <2>1. Within(state.instrument[i])
    BY DEF ReservedWithin
  <2>2. /\ Within(EraseRange(state.instrument[i], RangePair(MIN, range.first)))
        /\ Within(EraseRange(state.instrument[i], RangePair(range.second, MAX)))
    BY <2>1, EraseWithin, OccupiedWithin
  <2>3. Within(trimmed)
    BY <2>1, <2>2
  <2>4. Within(Reserved(trimmed, c, g, FunctionOf(state, g)))
    BY <2>3, ReservedRangeWithin
  <2>5. InstrumentCommit(state, c, g)[i]
          = IF i \in Affected(g) THEN Reserved(trimmed, c, g, FunctionOf(state, g))
                                 ELSE state.instrument[i]
    BY DEF InstrumentCommit, Direction
  <2> QED BY <2>1, <2>4, <2>5
<1>4. ASSUME NEW core \in Cores, NEW s \in 1 .. NumChannels
      PROVE  Within(ChannelCommit(state, c, g)[core][s])
  <2>1. Within(state.channel[core][s])
    BY DEF ReservedWithin
  <2>2. Within(IF Optimize(state) THEN {} ELSE state.channel[core][s])
    BY <1>1, <2>1
  <2>3. Within(Reserved(IF Optimize(state) THEN {} ELSE state.channel[core][s], c, g, ""))
    BY <2>2, ReservedRangeWithin
  <2>4. \/ ChannelCommit(state, c, g)[core][s]
             = Reserved(IF Optimize(state) THEN {} ELSE state.channel[core][s], c, g, "")
        \/ ChannelCommit(state, c, g)[core][s] = state.channel[core][s]
    BY DEF ChannelCommit
  <2> QED BY <2>1, <2>3, <2>4
<1> QED BY <1>2, <1>3, <1>4

\* No reservation leaves the cycles that are tried.
THEOREM AlwaysReservedWithin == Spec => [](~is_broken => ReservedWithin)
<1> DEFINE Inv == ~is_broken => ReservedWithin
<1>1. Init => Inv
  <2> SUFFICES ASSUME Init PROVE ReservedWithin
    OBVIOUS
  <2>1. Within({}) /\ MIN \in Int /\ MAX \in Int /\ MIN < MAX
    BY ResourcesAssumption DEF Within
  <2>2. \A r \in Names : MIN <= state.prev[r] /\ state.prev[r] <= MAX
    BY <2>1, InitialShape
  <2> QED BY <2>1, <2>2, InitialShape DEF ReservedWithin
<1>2. Inv /\ [Next]_vars => Inv'
  <2> SUFFICES ASSUME Inv, [Next]_vars, ~is_broken' PROVE ReservedWithin'
    OBVIOUS
  <2>1. CASE Next
    <3>1. PICK c \in Cycles, g \in Gates : ReserveGate(c, g)
      BY <2>1 DEF Next
    <3>2. ReservedWithin
      BY <3>1 DEF ReserveGate
    <3>3. /\ StateShape' /\ history' \in Seq([cycle : Cycles, gate : Gates])
          /\ state' = [config     |-> state.config,
                       prev       |-> [r \in Names |-> c],
                       instrument |-> InstrumentCommit(state, c, g),
                       channel    |-> ChannelCommit(state, c, g),
                       qubit      |-> QubitCommit(state, c, g)]
      BY <3>1, <3>2, ReserveEffect DEF ReservedWithin, Committed
    <3>4. /\ state'.prev = [r \in Names |-> c] /\ state'.qubit = QubitCommit(state, c, g)
          /\ state'.instrument = InstrumentCommit(state, c, g)
          /\ state'.channel = ChannelCommit(state, c, g)
      BY <3>3
    <3>5. MIN <= c /\ c <= MAX
      BY OccupiedWithin, ResourcesAssumption DEF WithinCycles
    <3> QED BY <3>2, <3>3, <3>4, <3>5, CommitWithin DEF ReservedWithin
  <2>2. CASE UNCHANGED vars
    BY <2>2 DEF vars, ReservedWithin, StateShape
  <2> QED BY <2>1, <2>2
<1> QED BY <1>1, <1>2, PTL DEF Spec

\* No gate is refused for ever: in a state that is not broken, every gate is available far
\* enough in the direction of scheduling.
THEOREM AlwaysEventuallyAvailable == Spec => []EventuallyAvailable
<1>1. (~is_broken => ReservedWithin) => EventuallyAvailable
  <2> SUFFICES ASSUME ReservedWithin, NEW g \in Gates
               PROVE  Available(state, IF Direction = "BACKWARD" THEN MIN ELSE MAX, g)
    BY DEF EventuallyAvailable, Direction
  <2> DEFINE c == IF Direction = "BACKWARD" THEN MIN ELSE MAX
  <2>1. c \in {MIN, MAX} /\ MIN \in Int /\ MAX \in Int
        /\ NumChannels \in Nat /\ NumChannels >= 1
        /\ NumSystemWideChannels \in Nat /\ NumSystemWideChannels >= 2
    BY ResourcesAssumption
  <2>2. \A m : Within(m) => IsFree(m, c, g)
    BY <2>1, FreeAtTheEnds
  <2>3. g.qubits \in Seq(Qubits) /\ Len(g.qubits) <= 2 /\ Len(g.qubits) \in Nat
        /\ OperandsOf(g) \subseteq Qubits
    BY GatesAssumption, LenProperties DEF OperandsOf
  <2>4. ASSUME NEW name \in Names
        PROVE  ~OutOfOrder(state, name, c)
    <3>1. state.prev[name] \in Int /\ MIN <= state.prev[name] /\ state.prev[name] <= MAX
      BY DEF ReservedWithin, StateShape
    <3> QED BY <2>1, <3>1 DEF OutOfOrder, Direction
  <2> HIDE DEF c
  <2>5. QubitAvailable(state, c, g)
    BY <2>2, <2>3 DEF QubitAvailable, ReservedWithin
  <2>6. InstrumentAvailable(state, c, g)
    <3>1. ASSUME NEW i \in Affected(g)
          PROVE  Find(state.instrument[i], Occupied(c, g)) = {}
      <4>1. i \in Instruments
        BY AffectedInstruments
      <4> QED BY <4>1, <2>2 DEF IsFree, ReservedWithin
    <3>2. ASSUME NEW i \in Affected(g)
          PROVE  MatchType(state.instrument[i], Occupied(c, g)) = "none"
      BY <3>1 DEF MatchType
    <3> QED BY <3>2 DEF InstrumentAvailable
  <2>7. ChannelAvailable(state, c, g)
    <3>1. \A core \in Cores : FreeChannels(state, core, c, g) = 1 .. NumChannels
      BY <2>2 DEF FreeChannels, ReservedWithin
    <3>2. AffectedCores(g) \subseteq Cores
      BY <2>3, ResourcesAssumption DEF AffectedCores
    <3>3. {x \in Cores \X (1 .. NumChannels) : ~IsFree(state.channel[x[1]][x[2]], c, g)} = {}
      BY <2>2 DEF ReservedWithin
    <3>4. ChannelsInUse(state, c, g) = 0
      BY <3>3, FS_EmptySet DEF ChannelsInUse
    <3>5. 1 \in 1 .. NumChannels
      BY <2>1
    <3>6. \A core \in AffectedCores(g) : FreeChannels(state, core, c, g) # {}
      BY <3>1, <3>2, <3>5
    <3>7. ChannelsInUse(state, c, g) + Len(g.qubits) <= NumSystemWideChannels
      BY <3>4, <2>1, <2>3
    <3> QED BY <3>6, <3>7 DEF ChannelAvailable
  <2> QED BY <2>4, <2>5, <2>6, <2>7, AvailableParts DEF c
<1> QED BY <1>1, AlwaysReservedWithin, PTL


-----------------------------------------------------------------------------
(* Channels.  Every committed gate is given, per core it uses, the channel *)
(* on which the commit reserved it; gates that run at the same time were   *)
(* given different ones.                                                   *)

Channels == 1 .. NumChannels
UsesCore(i, core) == UsesChannels(history[i].gate) /\ core \in AffectedCores(history[i].gate)

Assignments == [DOMAIN history -> [Cores -> Channels]]

LaneSlots(lanes, core, s) ==
  {Slot(i) : i \in {j \in DOMAIN history : UsesCore(j, core) /\ lanes[j][core] = s}}

Apart(lanes) ==
  \A i, j \in DOMAIN history, core \in Cores :
    i # j /\ UsesCore(i, core) /\ UsesCore(j, core) /\ Concurrent(history[i], history[j])
      => lanes[i][core] # lanes[j][core]

LanesKept(lanes) ==
  \A core \in Cores, s \in Channels :
    Lane(state.channel[core][s], Direction, state.prev["inter_core_channel"], LaneSlots(lanes, core, s))

\* The uses of a core by a gate in cycle k.
Communicating(k) ==
  {p \in Cores \X DOMAIN history : k \in Busy(history[p[2]]) /\ UsesCore(p[2], p[1])}

ChannelInv ==
  /\ StateShape
  /\ history \in Seq([cycle : Cycles, gate : Gates])
  /\ \E lanes \in Assignments : Apart(lanes) /\ (~is_broken => LanesKept(lanes))
  /\ \A k \in Cycles : /\ IsFiniteSet(Communicating(k))
                       /\ Cardinality(Communicating(k)) <= NumSystemWideChannels

\* Some channel is the first of those that are free.
LEMMA FirstOf ==
  ASSUME NEW T, T \subseteq Channels, T # {}
  PROVE  \E s \in T : \A t \in T : s <= t
<1>1. T \subseteq Nat
  BY ResourcesAssumption DEF Channels
<1>2. PICK s \in T : \A t \in T : <<t, s>> \notin OpToRel(<, Nat)
  BY <1>1, NatLessThanWellFounded, WFMin, Zenon
<1>3. ASSUME NEW t \in T PROVE s <= t
  <2>1. ~(t < s)
    BY <1>1, <1>2 DEF OpToRel
  <2> QED BY <1>1, <2>1
<1> QED BY <1>3

\* A gate communicates over at most one core per operand.
LEMMA CoresPerGate ==
  ASSUME NEW g \in Gates
  PROVE  /\ AffectedCores(g) \subseteq Cores /\ IsFiniteSet(AffectedCores(g))
         /\ Cardinality(AffectedCores(g)) \in Nat /\ Len(g.qubits) \in Nat
         /\ Cardinality(AffectedCores(g)) <= Len(g.qubits)
<1> DEFINE A == AffectedCores(g)
           f == [core \in A |-> CHOOSE i \in 1 .. Len(g.qubits) : CoreOf[g.qubits[i]] = core]
<1>1. g.qubits \in Seq(Qubits) /\ Len(g.qubits) \in Nat /\ DOMAIN g.qubits = 1 .. Len(g.qubits)
  BY GatesAssumption, LenProperties
<1>2. ASSUME NEW core \in A
      PROVE  core \in Cores /\ \E i \in 1 .. Len(g.qubits) : CoreOf[g.qubits[i]] = core
  <2>1. PICK q \in OperandsOf(g) : core = CoreOf[q]
    BY DEF AffectedCores
  <2>2. PICK i \in 1 .. Len(g.qubits) : q = g.qubits[i]
    BY <1>1 DEF OperandsOf
  <2>3. g.qubits[i] \in Qubits
    BY <1>1, ElementOfSeq
  <2> QED BY <2>1, <2>2, <2>3, ResourcesAssumption
<1> HIDE DEF A
<1>3. \A core \in A : f[core] \in 1 .. Len(g.qubits) /\ CoreOf[g.qubits[f[core]]] = core
  BY <1>2
<1>4. f \in Injection(A, 1 .. Len(g.qubits))
  BY <1>3 DEF Injection, IsInjective
<1>5. IsFiniteSet(1 .. Len(g.qubits)) /\ Cardinality(1 .. Len(g.qubits)) = Len(g.qubits)
  <2>1. /\ IsFiniteSet(1 .. Len(g.qubits))
        /\ Cardinality(1 .. Len(g.qubits)) = IF 1 > Len(g.qubits) THEN 0 ELSE Len(g.qubits) - 1 + 1
    BY ONLY <1>1, FS_Interval
  <2> QED BY ONLY <1>1, <2>1, SMTT(30)
<1>6. IsFiniteSet(A) /\ Cardinality(A) <= Len(g.qubits)
  BY <1>4, <1>5, FS_Injection
<1> QED BY <1>1, <1>2, <1>6, FS_CardinalityType DEF A

\* The uses in a cycle of a new gate occupy channels that are in use for that gate.
LEMMA CommunicatingInUse ==
  ASSUME StateShape, history \in Seq([cycle : Cycles, gate : Gates]),
         NEW lanes \in Assignments, Apart(lanes), LanesKept(lanes),
         NEW c \in Cycles, NEW g \in Gates, ~OutOfOrder(state, "inter_core_channel", c),
         NEW k \in Int, Inside(k, Occupied(c, g))
  PROVE  /\ IsFiniteSet(Communicating(k))
         /\ Cardinality(Communicating(k)) <= ChannelsInUse(state, c, g)
         /\ ChannelsInUse(state, c, g) \in Nat
<1> DEFINE P == Communicating(k)
           U == {x \in Cores \X Channels : ~IsFree(state.channel[x[1]][x[2]], c, g)}
           f == [p \in P |-> <<p[1], lanes[p[2]][p[1]]>>]
<1>1. IsFiniteSet(U) /\ Cardinality(U) = ChannelsInUse(state, c, g)
  <2>1. IsFiniteSet(Cores) /\ IsFiniteSet(Channels)
    BY ResourcesAssumption, FS_Interval DEF Channels
  <2>2. IsFiniteSet(Cores \X Channels)
    BY <2>1, FS_Product
  <2> QED BY <2>2, FS_Subset DEF ChannelsInUse, Channels
<1>2. ASSUME NEW core \in Cores, NEW i \in DOMAIN history, k \in Busy(history[i]), UsesCore(i, core)
      PROVE  lanes[i][core] \in Channels /\ ~IsFree(state.channel[core][lanes[i][core]], c, g)
  <2>1. lanes[i][core] \in Channels
    BY DEF Assignments
  <2>2. Lane(state.channel[core][lanes[i][core]], Direction, state.prev["inter_core_channel"],
             LaneSlots(lanes, core, lanes[i][core]))
    BY <2>1 DEF LanesKept
  <2>3. Slot(i) \in LaneSlots(lanes, core, lanes[i][core])
    BY <1>2 DEF LaneSlots
  <2>4. Touches(Slot(i), Occupied(c, g))
    BY <1>2, Reservations, BusyInside, InsideTouch, OccupiedRange DEF Slot
  <2>5. UpTo(Direction, state.prev["inter_core_channel"], c)
    BY InOrder DEF Names
  <2>6. Find(state.channel[core][lanes[i][core]], Occupied(c, g)) # {}
    <3>1. /\ Occupied(c, g) \in KeyRanges /\ RangeValid(Occupied(c, g))
          /\ UpTo(Direction, state.prev["inter_core_channel"], Occupied(c, g).first)
      BY <2>5, OccupiedRange
    <3>2. Find(state.channel[core][lanes[i][core]], Occupied(c, g)) = {}
            <=> \A a \in LaneSlots(lanes, core, lanes[i][core]) : ~Touches(a, Occupied(c, g))
      BY <2>2, <3>1, LaneFree
    <3> QED BY <2>3, <2>4, <3>2
  <2> QED BY <2>1, <2>6 DEF IsFree
<1>3. ASSUME NEW p \in P
      PROVE  /\ p[1] \in Cores /\ p[2] \in DOMAIN history /\ p = <<p[1], p[2]>>
             /\ k \in Busy(history[p[2]]) /\ UsesCore(p[2], p[1])
  BY DEF Communicating
<1> HIDE DEF P
<1>4. \A p \in P : f[p] \in U
  BY <1>2, <1>3
<1>5. ASSUME NEW p \in P, NEW q \in P, f[p] = f[q]
      PROVE  p = q
  <2>1. p[1] = q[1] /\ lanes[p[2]][p[1]] = lanes[q[2]][p[1]]
    BY <1>5
  <2>2. Concurrent(history[p[2]], history[q[2]])
    BY <1>3 DEF Concurrent
  <2>3. p[2] = q[2]
    BY <1>3, <2>1, <2>2 DEF Apart
  <2> QED BY <1>3, <2>1, <2>3
<1> HIDE DEF U
<1>6. f \in Injection(P, U)
  BY <1>4, <1>5 DEF Injection, IsInjective
<1>7. IsFiniteSet(P) /\ Cardinality(P) <= Cardinality(U)
  BY <1>1, <1>6, FS_Injection
<1> QED BY <1>1, <1>7, FS_CardinalityType DEF P

\* In no cycle is more communicated than the whole system allows.
LEMMA SystemWideKept ==
  ASSUME ChannelInv, ~is_broken, NEW c \in Cycles, NEW g \in Gates, Available(state, c, g),
         NEW n, Added(n, c, g), NEW k \in Cycles
  PROVE  /\ IsFiniteSet(Communicating(k)')
         /\ Cardinality(Communicating(k)') <= NumSystemWideChannels
<1> DEFINE P == Communicating(k)
           A == AffectedCores(g)
           new == {<<core, n>> : core \in A}
<1>1. /\ IsFiniteSet(P) /\ Cardinality(P) \in Nat /\ Cardinality(P) <= NumSystemWideChannels
  BY FS_CardinalityType DEF ChannelInv
<1>2. k \in Busy(history'[n]) <=> k \in Int /\ Inside(k, Occupied(c, g))
  <2>1. history'[n].cycle \in Cycles /\ history'[n].gate \in Gates
        /\ history'[n].cycle = c /\ history'[n].gate = g
    BY DEF Added
  <2> QED BY <2>1, BusyInside
<1>3. AffectedCores(g) \subseteq Cores
  BY CoresPerGate
<1>4. Communicating(k)' = IF k \in Busy(history'[n]) /\ UsesChannels(g) THEN P \cup new ELSE P
  <2>1. ASSUME NEW core \in Cores, NEW i \in DOMAIN history
        PROVE  <<core, i>> \in Communicating(k)' <=> <<core, i>> \in P
    BY DEF Communicating, UsesCore, Added
  <2>2. ASSUME NEW core \in Cores
        PROVE  <<core, n>> \in Communicating(k)'
                 <=> k \in Busy(history'[n]) /\ UsesChannels(g) /\ core \in A
    BY DEF Communicating, UsesCore, Added
  <2>3. /\ Communicating(k)' \subseteq Cores \X (DOMAIN history \cup {n})
        /\ P \subseteq Cores \X DOMAIN history
        /\ new \subseteq Cores \X {n}
    BY <1>3 DEF Communicating, Added
  <2>4. n \notin DOMAIN history
    BY DEF Added
  <2> HIDE DEF P, A
  <2>5. \A core \in Cores : <<core, n>> \in new <=> core \in A
    OBVIOUS
  <2>6. \A x \in Communicating(k)' : x = <<x[1], x[2]>> /\ x[1] \in Cores
                                     /\ (x[2] \in DOMAIN history \/ x[2] = n)
    BY <2>3
  <2>7. \A x \in P : x = <<x[1], x[2]>> /\ x[1] \in Cores /\ x[2] \in DOMAIN history
    BY <2>3
  <2>8. \A x \in new : x = <<x[1], n>> /\ x[1] \in Cores
    BY <2>3
  <2> HIDE DEF new
  <2>9. CASE k \in Busy(history'[n]) /\ UsesChannels(g)
    BY <2>1, <2>2, <2>5, <2>6, <2>7, <2>8, <2>9
  <2>10. CASE ~(k \in Busy(history'[n]) /\ UsesChannels(g))
    BY <2>1, <2>2, <2>6, <2>7, <2>10
  <2> QED BY <2>9, <2>10
<1>5. CASE k \in Busy(history'[n]) /\ UsesChannels(g)
  <2>1. PICK lanes \in Assignments : Apart(lanes) /\ LanesKept(lanes)
    BY DEF ChannelInv
  <2>2. ~OutOfOrder(state, "inter_core_channel", c) /\ ChannelAvailable(state, c, g)
    BY AvailableParts DEF Names
  <2>3. /\ Cardinality(P) <= ChannelsInUse(state, c, g)
        /\ ChannelsInUse(state, c, g) \in Nat
    BY <1>2, <1>5, <2>1, <2>2, CommunicatingInUse DEF ChannelInv
  <2>4. ChannelsInUse(state, c, g) + Len(g.qubits) <= NumSystemWideChannels
    BY <1>5, <2>2 DEF ChannelAvailable
  <2>5. /\ IsFiniteSet(A) /\ Cardinality(A) \in Nat /\ Len(g.qubits) \in Nat
        /\ Cardinality(A) <= Len(g.qubits)
    BY CoresPerGate
  <2> HIDE DEF A, P
  <2>6. IsFiniteSet(new) /\ Cardinality(new) <= Cardinality(A)
    <3> DEFINE f == [core \in A |-> <<core, n>>]
    <3>1. f \in Surjection(A, new)
      BY DEF Surjection
    <3> HIDE DEF f, new
    <3> QED BY <3>1, <2>5, FS_Surjection
  <2> HIDE DEF new
  <2>7. /\ IsFiniteSet(P \cup new) /\ IsFiniteSet(P \cap new)
        /\ Cardinality(P \cup new) = Cardinality(P) + Cardinality(new) - Cardinality(P \cap new)
    BY <1>1, <2>6, FS_Union, FS_Intersection
  <2>8. Cardinality(P \cap new) \in Nat /\ Cardinality(new) \in Nat
    BY <2>6, <2>7, FS_CardinalityType
  <2>9. Cardinality(P \cup new) <= NumSystemWideChannels
    BY <1>1, <2>3, <2>4, <2>5, <2>6, <2>7, <2>8, ResourcesAssumption
  <2> QED BY <1>4, <1>5, <2>7, <2>9
<1>6. CASE ~(k \in Busy(history'[n]) /\ UsesChannels(g))
  BY <1>1, <1>4, <1>6
<1> QED BY <1>5, <1>6


\* A commit keeps every channel, and gives the new gate channels of its own.
LEMMA ChannelsKept ==
  ASSUME ChannelInv, ~is_broken, NEW c \in Cycles, NEW g \in Gates, Committed(c, g),
         NEW n, Added(n, c, g), StateShape', Direction' = Direction
  PROVE  \E lanes \in Assignments' : Apart(lanes)' /\ LanesKept(lanes)'
<1>1. PICK old \in Assignments : Apart(old) /\ LanesKept(old)
  BY DEF ChannelInv
<1> DEFINE Claims(core) == UsesChannels(g) /\ core \in AffectedCores(g)
           free(core) == FreeChannels(state, core, c, g)
           first(core) == IF Claims(core) THEN CHOOSE s \in free(core) : \A t \in free(core) : s <= t
                                          ELSE 1
<1>2. /\ Available(state, c, g) /\ ~OutOfOrder(state, "inter_core_channel", c)
      /\ ChannelAvailable(state, c, g)
      /\ state'.channel = ChannelCommit(state, c, g) /\ state'.prev["inter_core_channel"] = c
  BY AvailableParts DEF Committed, Names
<1>3. ASSUME NEW core \in Cores
      PROVE  /\ first(core) \in Channels
             /\ Claims(core) => first(core) \in free(core) /\ \A t \in free(core) : first(core) <= t
  <2>1. free(core) \subseteq Channels
    BY DEF FreeChannels, Channels
  <2>2. 1 \in Channels
    BY ResourcesAssumption DEF Channels
  <2>3. Claims(core) => free(core) # {}
    BY <1>2 DEF ChannelAvailable
  <2> HIDE DEF free, Claims
  <2>4. CASE Claims(core)
    <3>1. \E s \in free(core) : \A t \in free(core) : s <= t
      BY <2>1, <2>3, <2>4, FirstOf
    <3> QED BY <2>1, <2>4, <3>1
  <2>5. CASE ~Claims(core)
    BY <2>2, <2>5
  <2> QED BY <2>4, <2>5
<1>4. ASSUME NEW core \in Cores, NEW s \in Channels
      PROVE  /\ Claims(core) /\ s = first(core) =>
                  state'.channel[core][s]
                    = SetRange(IF Direction # "UNDEFINED" THEN {} ELSE state.channel[core][s],
                               Occupied(c, g), "", FALSE)
             /\ ~(Claims(core) /\ s = first(core)) =>
                  state'.channel[core][s] = state.channel[core][s]
  <2>1. state'.channel[core][s]
          = IF Claims(core) /\ s \in free(core) /\ \A t \in free(core) : s <= t
              THEN SetRange(IF Direction # "UNDEFINED" THEN {} ELSE state.channel[core][s],
                            Occupied(c, g), "", FALSE)
              ELSE state.channel[core][s]
    <3>1. ChannelCommit(state, c, g)[core][s]
            = IF Claims(core) /\ s \in free(core) /\ \A t \in free(core) : s <= t
                THEN Reserved(IF Optimize(state) THEN {} ELSE state.channel[core][s], c, g, "")
                ELSE state.channel[core][s]
      BY DEF ChannelCommit, Channels
    <3> HIDE DEF Claims, free
    <3> QED BY <1>2, <3>1 DEF Reserved, Optimize, Direction
  <2>2. free(core) \subseteq Int /\ s \in Int
    BY DEF FreeChannels, Channels
  <2> HIDE DEF free, Claims, first
  <2>3. Claims(core) => (s = first(core) <=> s \in free(core) /\ \A t \in free(core) : s <= t)
    BY <1>3, <2>2
  <2> QED BY <2>1, <2>3
<1> HIDE DEF first, Claims
<1>5. PICK lanes \in [DOMAIN history \cup {n} -> [Cores -> Channels]] :
        /\ \A i \in DOMAIN history : lanes[i] = old[i]
        /\ \A core \in Cores : lanes[n][core] = first(core)
  <2> DEFINE new == [core \in Cores |-> first(core)]
             all == [i \in DOMAIN history \cup {n} |-> IF i = n THEN new ELSE old[i]]
  <2>1. new \in [Cores -> Channels] /\ \A core \in Cores : new[core] = first(core)
    BY <1>3
  <2>2. \A i \in DOMAIN history : old[i] \in [Cores -> Channels] /\ i # n
    BY DEF Assignments, Added
  <2> HIDE DEF new
  <2>3. /\ all \in [DOMAIN history \cup {n} -> [Cores -> Channels]]
        /\ \A i \in DOMAIN history : all[i] = old[i]
        /\ all[n] = new
    BY <2>1, <2>2
  <2> HIDE DEF all
  <2> QED BY <2>1, <2>3
<1>6. /\ lanes \in Assignments'
      /\ DOMAIN history' = DOMAIN history \cup {n} /\ n \notin DOMAIN history
  BY DEF Assignments, Added
<1>7. /\ \A core \in Cores : UsesCore(n, core)' <=> Claims(core)
      /\ \A core \in Cores, i \in DOMAIN history :
           /\ UsesCore(i, core)' <=> UsesCore(i, core)
           /\ Slot(i)' = Slot(i) /\ history'[i] = history[i]
      /\ Slot(n)' = Occupied(c, g)
  BY DEF UsesCore, Slot, Added, Claims
<1>8. /\ Occupied(c, g) \in KeyRanges /\ RangeValid(Occupied(c, g)) /\ Occupied(c, g).first = c
      /\ c \in Int /\ UpTo(Direction, state.prev["inter_core_channel"], c)
      /\ Direction \in {"FORWARD", "BACKWARD", "UNDEFINED"}
  BY <1>2, InOrder, OccupiedRange, GatesAssumption
     DEF ChannelInv, Names, StateShape, Direction, Directions
<1>9. ASSUME NEW core \in Cores, NEW s \in Channels
      PROVE  Lane(state'.channel[core][s], Direction, c, LaneSlots(lanes, core, s)')
  <2>1. Lane(state.channel[core][s], Direction, state.prev["inter_core_channel"],
             LaneSlots(old, core, s))
    BY <1>1 DEF LanesKept
  <2>2. LaneSlots(lanes, core, s)'
          = IF Claims(core) /\ s = first(core) THEN LaneSlots(old, core, s) \cup {Occupied(c, g)}
                                               ELSE LaneSlots(old, core, s)
    BY <1>5, <1>6, <1>7 DEF LaneSlots
  <2>3. CASE ~(Claims(core) /\ s = first(core))
    BY <1>4, <1>8, <2>1, <2>2, <2>3, LaneWaits
  <2>4. CASE Claims(core) /\ s = first(core)
    <3>1. Find(state.channel[core][s], Occupied(c, g)) = {}
      BY <1>3, <2>4 DEF FreeChannels, IsFree
    <3>2. Lane(SetRange(IF Direction # "UNDEFINED" THEN {} ELSE state.channel[core][s],
                        Occupied(c, g), "", FALSE),
               Direction, Occupied(c, g).first, LaneSlots(old, core, s) \cup {Occupied(c, g)})
      <4>1. UpTo(Direction, state.prev["inter_core_channel"], Occupied(c, g).first)
        BY ONLY <1>8
      <4> QED BY ONLY <1>8, <2>1, <3>1, <4>1, LaneReserve, ZenonT(60)
    <3> QED BY <1>4, <1>8, <2>2, <2>4, <3>2
  <2> QED BY <2>3, <2>4
<1>10. ASSUME NEW core \in Cores, NEW i \in DOMAIN history, UsesCore(i, core), Claims(core),
              \/ Concurrent(history[i], history'[n])
              \/ Concurrent(history'[n], history[i])
       PROVE  old[i][core] # first(core)
  <2> SUFFICES ASSUME old[i][core] = first(core) PROVE FALSE
    OBVIOUS
  <2>1. Concurrent(history[i], history'[n])
    BY <1>10 DEF Concurrent
  <2>2. Touches(Slot(i), Occupied(c, g))
    BY <2>1, Reservations, ConcurrentTouch DEF ChannelInv, Added, Slot
  <2>3. Lane(state.channel[core][first(core)], Direction, state.prev["inter_core_channel"],
             LaneSlots(old, core, first(core)))
    BY <1>1, <1>3 DEF LanesKept
  <2>4. Slot(i) \in LaneSlots(old, core, first(core))
    BY <1>10 DEF LaneSlots
  <2>5. Find(state.channel[core][first(core)], Occupied(c, g)) = {}
    BY <1>3, <1>10 DEF FreeChannels, IsFree
  <2>6. \A a \in LaneSlots(old, core, first(core)) : ~Touches(a, Occupied(c, g))
    BY <1>8, <2>3, <2>5, LaneFree
  <2> QED BY <2>2, <2>4, <2>6
<1>11. Apart(lanes)'
  <2> SUFFICES ASSUME NEW i \in DOMAIN history', NEW j \in DOMAIN history', NEW core \in Cores,
                      i # j, UsesCore(i, core)', UsesCore(j, core)',
                      Concurrent(history'[i], history'[j])
               PROVE  lanes[i][core] # lanes[j][core]
    BY DEF Apart
  <2>1. CASE i \in DOMAIN history /\ j \in DOMAIN history
    BY <2>1, <1>1, <1>5, <1>6, <1>7 DEF Apart
  <2>2. CASE i \in DOMAIN history /\ j = n
    BY <2>2, <1>5, <1>6, <1>7, <1>10
  <2>3. CASE i = n /\ j \in DOMAIN history
    BY <2>3, <1>5, <1>6, <1>7, <1>10
  <2> QED BY <2>1, <2>2, <2>3, <1>6
<1>12. LanesKept(lanes)'
  BY <1>2, <1>9 DEF LanesKept
<1> QED BY <1>6, <1>11, <1>12

\* What is said of the history alone survives a step that leaves it.
LEMMA SameHistory ==
  ASSUME history' = history
  PROVE  /\ Assignments' = Assignments
         /\ \A lanes \in Assignments : Apart(lanes)' <=> Apart(lanes)
         /\ \A lanes \in Assignments, core \in Cores, s \in Channels :
              LaneSlots(lanes, core, s)' = LaneSlots(lanes, core, s)
         /\ \A k \in Cycles : Communicating(k)' = Communicating(k)
<1>1. Assignments' = Assignments
  BY DEF Assignments
<1>2. \A i, core : (UsesCore(i, core)' <=> UsesCore(i, core)) /\ Slot(i)' = Slot(i)
  BY DEF UsesCore, Slot
<1>3. \A lanes : Apart(lanes)' <=> Apart(lanes)
  BY <1>2 DEF Apart
<1>4. \A lanes, core, s : LaneSlots(lanes, core, s)' = LaneSlots(lanes, core, s)
  BY <1>2 DEF LaneSlots
<1>5. \A k : Communicating(k)' = Communicating(k)
  BY <1>2 DEF Communicating
<1> QED BY <1>1, <1>3, <1>4, <1>5

\* The invariant of the channels holds whatever is reserved.
THEOREM ChannelsInvariant == Spec => []ChannelInv
<1>1. Init => ChannelInv
  <2> SUFFICES ASSUME Init PROVE ChannelInv
    OBVIOUS
  <2>1. \E lanes \in Assignments : Apart(lanes) /\ LanesKept(lanes)
    <3> DEFINE lanes == [i \in DOMAIN history |-> [core \in Cores |-> 1]]
    <3>1. lanes \in Assignments /\ DOMAIN history = {}
      BY InitialShape, ResourcesAssumption DEF Assignments, Channels
    <3>2. Apart(lanes) /\ \A core \in Cores, s \in Channels : LaneSlots(lanes, core, s) = {}
      BY <3>1 DEF Apart, LaneSlots
    <3>3. Lane({}, Direction, state.prev["inter_core_channel"], {})
      BY InitialShape, LaneEmpty DEF StateShape, Names
    <3>4. LanesKept(lanes)
      BY <3>2, <3>3, InitialShape DEF LanesKept, Channels
    <3> QED BY <3>1, <3>2, <3>4
  <2>2. \A k : Communicating(k) = {}
    BY InitialShape DEF Communicating
  <2>3. \A k \in Cycles : /\ IsFiniteSet(Communicating(k))
                          /\ Cardinality(Communicating(k)) <= NumSystemWideChannels
    <3>1. NumSystemWideChannels \in Nat
      BY ResourcesAssumption
    <3>2. IsFiniteSet({}) /\ Cardinality({}) = 0
      BY ONLY FS_EmptySet
    <3>3. 0 <= NumSystemWideChannels
      BY ONLY <3>1
    <3> QED BY ONLY <2>2, <3>2, <3>3
  <2> QED BY <2>1, <2>3, InitialShape DEF ChannelInv
<1>2. ChannelInv /\ [Next]_vars => ChannelInv'
  <2> SUFFICES ASSUME ChannelInv, [Next]_vars PROVE ChannelInv'
    OBVIOUS
  <2>1. ASSUME NEW c \in Cycles, NEW g \in Gates, ReserveGate(c, g)
        PROVE  ChannelInv'
    <3>1. /\ ~is_broken /\ StateShape' /\ Direction' = Direction
          /\ history' \in Seq([cycle : Cycles, gate : Gates])
          /\ \/ is_broken' /\ history' = history
             \/ Committed(c, g) /\ \E n : Added(n, c, g)
      BY <2>1, ReserveEffect DEF ChannelInv
    <3>2. CASE is_broken' /\ history' = history
      <4>1. /\ Assignments' = Assignments
            /\ \A lanes \in Assignments : Apart(lanes)' <=> Apart(lanes)
            /\ \A k \in Cycles : Communicating(k)' = Communicating(k)
        BY <3>2, SameHistory
      <4> QED BY <3>1, <3>2, <4>1 DEF ChannelInv
    <3>3. ASSUME Committed(c, g), NEW n, Added(n, c, g)
          PROVE  ChannelInv'
      <4>1. Available(state, c, g)
        BY <3>3 DEF Committed
      <4>2. \E lanes \in Assignments' : Apart(lanes)' /\ LanesKept(lanes)'
        BY <3>1, <3>3, ChannelsKept
      <4>3. \A k \in Cycles : /\ IsFiniteSet(Communicating(k)')
                              /\ Cardinality(Communicating(k)') <= NumSystemWideChannels
        BY <3>1, <3>3, <4>1, SystemWideKept
      <4> QED BY <3>1, <4>2, <4>3 DEF ChannelInv
    <3> QED BY <3>1, <3>2, <3>3
  <2>2. CASE UNCHANGED vars
    <3>1. state' = state /\ is_broken' = is_broken /\ history' = history
      BY <2>2 DEF vars
    <3>2. /\ Assignments' = Assignments
          /\ \A lanes \in Assignments : Apart(lanes)' <=> Apart(lanes)
          /\ \A lanes \in Assignments, core \in Cores, s \in Channels :
               LaneSlots(lanes, core, s)' = LaneSlots(lanes, core, s)
          /\ \A k \in Cycles : Communicating(k)' = Communicating(k)
      BY <3>1, SameHistory
    <3>3. StateShape'
      BY <3>1 DEF ChannelInv, StateShape
    <3>4. \A lanes \in Assignments : LanesKept(lanes)' <=> LanesKept(lanes)
      BY <3>1, <3>2 DEF LanesKept, Direction
    <3> QED BY <3>1, <3>2, <3>3, <3>4 DEF ChannelInv
  <2> QED BY <2>1, <2>2 DEF Next
<1> QED BY <1>1, <1>2, PTL DEF Spec

\* resource/inter_core_channel.cc: in no cycle does a core communicate over more channels
\* than it has, or the system over more than it allows.
THEOREM AlwaysChannelCapacity == Spec => []ChannelCapacity
<1>1. ChannelInv => ChannelCapacity
  <2> SUFFICES ASSUME ChannelInv, NEW k \in Cycles
               PROVE  LET using(core) == {i \in DOMAIN history :
                                            /\ k \in Busy(history[i])
                                            /\ UsesChannels(history[i].gate)
                                            /\ core \in AffectedCores(history[i].gate)}
                      IN /\ \A core \in Cores : Cardinality(using(core)) <= NumChannels
                         /\ Cardinality({p \in Cores \X DOMAIN history : p[2] \in using(p[1])})
                              <= NumSystemWideChannels
    BY DEF ChannelCapacity
  <2> DEFINE using(core) == {i \in DOMAIN history : /\ k \in Busy(history[i])
                                                    /\ UsesChannels(history[i].gate)
                                                    /\ core \in AffectedCores(history[i].gate)}
  <2>1. ASSUME NEW core \in Cores
        PROVE  Cardinality(using(core)) <= NumChannels
    <3>1. PICK lanes \in Assignments : Apart(lanes)
      BY DEF ChannelInv
    <3> DEFINE U == using(core)
               f == [i \in U |-> lanes[i][core]]
    <3>2. \A i \in U : f[i] \in Channels
      BY DEF Assignments
    <3>3. \A i, j \in U : f[i] = f[j] => i = j
      BY <3>1 DEF Apart, UsesCore, Concurrent
    <3> HIDE DEF U
    <3>4. f \in Injection(U, Channels)
      BY <3>2, <3>3 DEF Injection, IsInjective
    <3>5. /\ IsFiniteSet(Channels)
          /\ Cardinality(Channels) = IF 1 > NumChannels THEN 0 ELSE NumChannels - 1 + 1
      BY ResourcesAssumption, FS_Interval DEF Channels
    <3>6. Cardinality(Channels) = NumChannels
      BY <3>5, ResourcesAssumption
    <3>7. Cardinality(U) <= Cardinality(Channels)
      BY <3>4, <3>5, FS_Injection
    <3> QED BY <3>6, <3>7 DEF U
  <2>2. {p \in Cores \X DOMAIN history : p[2] \in using(p[1])} = Communicating(k)
    BY DEF Communicating, UsesCore
  <2>3. Cardinality(Communicating(k)) <= NumSystemWideChannels
    BY DEF ChannelInv
  <2> QED BY <2>1, <2>2, <2>3
<1> QED BY <1>1, ChannelsInvariant, PTL


-----------------------------------------------------------------------------
(* Instruments.  The map of an instrument still says, of every cycle in    *)
(* which a gate uses it, which function is used, unless the cycle lies     *)
(* behind the last one in the direction.                                   *)

\* Overlapping uses of one function, which merge into each other in the map.
Sharing == state.config.overlap /\ ~state.config.exclusive

\* When uses may overlap, set() cuts reservations that are still needed if the direction
\* is backward, and a reservation of no cycles upsets the order of the map.
SoundSharing ==
  Sharing => Direction # "BACKWARD" /\ \A g \in Gates : g.instrumented => g.duration > 0

FunctionKeys == {""} \cup {g.function : g \in Gates}
UsesInstrument(j, i) == i \in Affected(history[j].gate)

\* The map says what the reservation r of the gate holds of cycle k.
Known(m, gate, r, k) ==
  \E e \in m : /\ Inside(k, e.range) /\ e.value = FunctionOf(state, gate)
               /\ Sharing \/ e.range = r

\* Nothing will be asked of cycle k any more, or what is kept lies before it.
Past(m, last, k) ==
  \/ Direction = "FORWARD" /\ k < last
  \/ Direction = "BACKWARD" /\ \E e \in m : e.range.second <= k

InstrumentsKnown ==
  \A i \in Instruments :
    /\ WellFormed(state.instrument[i], FunctionKeys)
    /\ Direction = "BACKWARD" => \A e \in state.instrument[i] : state.prev["instrument"] <= e.range.first
    /\ \A j \in DOMAIN history, k \in Int :
         UsesInstrument(j, i) /\ Inside(k, Slot(j))
           => \/ Known(state.instrument[i], history[j].gate, Slot(j), k)
              \/ Past(state.instrument[i], state.prev["instrument"], k)

InstrumentInv ==
  /\ StateShape
  /\ history \in Seq([cycle : Cycles, gate : Gates])
  /\ SoundSharing => /\ InstrumentOneFunction
                     /\ ~is_broken => InstrumentsKnown

\* What available() promises of the reservations a new gate touches.
LEMMA InstrumentAnswers ==
  ASSUME NEW c \in Cycles, NEW g \in Gates, InstrumentAvailable(state, c, g),
         NEW i \in Affected(g), WellFormed(state.instrument[i], FunctionKeys),
         NEW e \in Touching(state.instrument[i], Occupied(c, g))
  PROVE  /\ ~state.config.exclusive /\ e.value = g.function
         /\ state.config.overlap \/ e.range = Occupied(c, g)
<1> DEFINE m == state.instrument[i]
           r == Occupied(c, g)
           found == Find(m, r)
           match == MatchType(m, r)
<1>1. found = Touching(m, r)
  BY OccupiedRange, FindTouching
<1>2. e \in found
  BY <1>1
<1>3. \/ match = "none"
      \/ /\ ~state.config.exclusive
         /\ match = "exact" \/ state.config.overlap
         /\ \A x \in found : x.value = g.function
  BY DEF InstrumentAvailable
<1>4. match # "none"
  <2>1. found # {}
    BY <1>2
  <2> QED BY <2>1 DEF MatchType
<1>5. match = "exact" => e.range = r
  <2>1. found # {}
    BY <1>2
  <2> HIDE DEF found
  <2>2. match = "exact" => \E a \in found : found = {a} /\ a.range = r
    BY <2>1 DEF MatchType, found
  <2> QED BY <1>2, <2>2
<1> QED BY <1>2, <1>3, <1>4, <1>5

\* A new gate that runs in a cycle in which another one uses its instrument uses it for
\* the same function.
LEMMA NewUse ==
  ASSUME StateShape, history \in Seq([cycle : Cycles, gate : Gates]), SoundSharing, InstrumentsKnown,
         NEW c \in Cycles, NEW g \in Gates, Available(state, c, g),
         NEW i \in Affected(g), NEW j \in DOMAIN history, UsesInstrument(j, i),
         NEW k \in Int, Inside(k, Slot(j)), Inside(k, Occupied(c, g))
  PROVE  /\ ~state.config.exclusive /\ history[j].gate.function = g.function
         /\ state.config.overlap \/ Slot(j) = Occupied(c, g)
<1>1. /\ ~OutOfOrder(state, "instrument", c) /\ InstrumentAvailable(state, c, g)
      /\ UpTo(Direction, state.prev["instrument"], c)
  BY AvailableParts, InOrder DEF Names
<1>2. /\ i \in Instruments /\ WellFormed(state.instrument[i], FunctionKeys)
      /\ \/ Known(state.instrument[i], history[j].gate, Slot(j), k)
         \/ Past(state.instrument[i], state.prev["instrument"], k)
  BY AffectedInstruments DEF InstrumentsKnown
<1>3. /\ Occupied(c, g) \in KeyRanges /\ Occupied(c, g).first = c /\ c \in Int
      /\ Occupied(c, g).second \in Int /\ state.prev["instrument"] \in Int
      /\ c <= k /\ k < Occupied(c, g).second
  BY OccupiedRange DEF KeyRanges, Inside, StateShape, Names
<1>4. ~Past(state.instrument[i], state.prev["instrument"], k)
  <2>1. ASSUME Direction = "FORWARD", k < state.prev["instrument"]
        PROVE  FALSE
    BY <2>1, <1>1, <1>3 DEF UpTo
  <2>2. ASSUME Direction = "BACKWARD", NEW e \in state.instrument[i], e.range.second <= k
        PROVE  FALSE
    <3>1. /\ state.prev["instrument"] <= e.range.first
          /\ e.range.first \in Int /\ e.range.second \in Int /\ e.range.first <= e.range.second
      BY <1>2, <2>2, EntryShape DEF InstrumentsKnown
    <3>2. c <= state.prev["instrument"]
      BY <2>2, <1>1 DEF UpTo
    <3>3. Touches(e.range, Occupied(c, g))
      BY <2>2, <3>1, <3>2, <1>3 DEF Touches
    <3>4. ~state.config.exclusive /\ (state.config.overlap \/ e.range = Occupied(c, g))
      BY <1>1, <1>2, <3>3, InstrumentAnswers DEF Touching
    <3>5. e.range = Occupied(c, g)
      BY <2>2, <3>4 DEF SoundSharing, Sharing
    <3> QED BY <2>2, <3>5, <1>3
  <2> QED BY <2>1, <2>2 DEF Past
<1>5. PICK e \in state.instrument[i] : /\ Inside(k, e.range)
                                       /\ e.value = FunctionOf(state, history[j].gate)
                                       /\ Sharing \/ e.range = Slot(j)
  BY <1>2, <1>4 DEF Known
<1>6. e.range \in KeyRanges
  BY <1>2 DEF WellFormed, Entries
<1>7. Touches(e.range, Occupied(c, g))
  BY <1>3, <1>5, <1>6, InsideTouch
<1>8. /\ ~state.config.exclusive /\ e.value = g.function
      /\ state.config.overlap \/ e.range = Occupied(c, g)
  BY <1>1, <1>2, <1>7, InstrumentAnswers DEF Touching
<1> QED BY <1>5, <1>8 DEF FunctionOf, Sharing


\* What a commit forgets of an instrument.
Trimmed(m, c, g) ==
  IF Direction = "FORWARD" THEN EraseRange(m, RangePair(MIN, Occupied(c, g).first))
  ELSE IF Direction = "BACKWARD" THEN EraseRange(m, RangePair(Occupied(c, g).second, MAX))
  ELSE m

LEMMA InstrumentAfter ==
  ASSUME NEW c, NEW g, NEW i \in Instruments
  PROVE  InstrumentCommit(state, c, g)[i]
           = IF i \in Affected(g)
               THEN SetRange(Trimmed(state.instrument[i], c, g), Occupied(c, g),
                             FunctionOf(state, g), FALSE)
               ELSE state.instrument[i]
BY DEF InstrumentCommit, Reserved, Trimmed, Direction

\* What is forgotten lies beside the range that is reserved.
LEMMA TrimRanges ==
  ASSUME NEW c \in Cycles, NEW g \in Gates
  PROVE  LET r == Occupied(c, g)
             b == RangePair(MIN, r.first)
             a == RangePair(r.second, MAX)
         IN /\ b \in KeyRanges /\ RangeValid(b) /\ ~RangeEmpty(b) /\ b.second <= r.first
            /\ b.first = MIN /\ b.second = c
            /\ a \in KeyRanges /\ RangeValid(a) /\ ~RangeEmpty(a) /\ r.second <= a.first
            /\ a.first = r.second /\ a.second = MAX
<1>1. /\ Occupied(c, g).first = c /\ Occupied(c, g).second \in Int /\ c \in Int
      /\ MIN < c /\ Occupied(c, g).second < MAX
  BY OccupiedRange, OccupiedWithin DEF WithinCycles
<1>2. MIN \in Int /\ MAX \in Int
  BY ResourcesAssumption
<1> QED BY <1>1, <1>2 DEF RangePair, KeyRanges, RangeValid, RangeEmpty

\* When uses do not overlap, forgetting leaves a range free or exactly reserved, moves no
\* start of a reservation to an earlier cycle, and keeps what lies ahead.
LEMMA TrimFitting ==
  ASSUME NEW c \in Cycles, NEW g \in Gates, NEW V, NEW m, WellFormed(m, V),
         \A e \in Touching(m, Occupied(c, g)) : e.range = Occupied(c, g)
  PROVE  LET r == Occupied(c, g)
             trimmed == Trimmed(m, c, g)
         IN /\ WellFormed(trimmed, V)
            /\ \A x \in Touching(trimmed, r) : x.range = r
            /\ \A x \in trimmed : \E e \in m : e.range.first <= x.range.first
            /\ \A e \in m : \/ e \in trimmed
                            \/ Direction = "FORWARD" /\ Touches(e.range, RangePair(MIN, r.first))
                            \/ Direction = "BACKWARD" /\ Touches(e.range, RangePair(r.second, MAX))
<1> DEFINE r == Occupied(c, g)
<1>1. r \in KeyRanges /\ RangeValid(r)
  BY OccupiedRange
<1>2. \A e \in m : e.range.first \in Int
  BY EntryShape
<1>3. ASSUME NEW z \in KeyRanges, RangeValid(z), ~RangeEmpty(z),
             z.second <= r.first \/ r.second <= z.first
      PROVE  /\ WellFormed(EraseRange(m, z), V)
             /\ \A x \in Touching(EraseRange(m, z), r) : x.range = r
             /\ \A x \in EraseRange(m, z) : \E e \in m : e.range.first <= x.range.first
             /\ \A e \in m : e \in EraseRange(m, z) \/ Touches(e.range, z)
  <2>1. /\ WellFormed(EraseRange(m, z), V)
        /\ \A x \in Touching(EraseRange(m, z), r) : x.range = r
        /\ \A x \in EraseRange(m, z) : \E e \in m : PieceOf(m, z, x, e)
        /\ \A e \in m : ~Touches(e.range, z) => e \in EraseRange(m, z)
    BY <1>1, <1>3, EraseFitting
  <2>2. ASSUME NEW x \in EraseRange(m, z)
        PROVE  \E e \in m : e.range.first <= x.range.first
    <3>1. PICK e \in m : PieceOf(m, z, x, e)
      BY <2>1
    <3>2. z.first \in Int /\ z.second \in Int
      BY DEF KeyRanges
    <3> QED BY <3>1, <3>2, <1>2 DEF PieceOf, LeftPiece, RightPiece, Entry, RangePair
  <2> QED BY <2>1, <2>2
<1>4. CASE Direction = "FORWARD"
  <2>1. Trimmed(m, c, g) = EraseRange(m, RangePair(MIN, r.first))
    BY <1>4 DEF Trimmed
  <2> QED BY <1>3, <1>4, <2>1, TrimRanges
<1>5. CASE Direction = "BACKWARD"
  <2>1. Trimmed(m, c, g) = EraseRange(m, RangePair(r.second, MAX))
    BY <1>5 DEF Trimmed
  <2> QED BY <1>3, <1>5, <2>1, TrimRanges
<1>6. CASE Direction # "FORWARD" /\ Direction # "BACKWARD"
  <2>1. Trimmed(m, c, g) = m
    BY <1>6 DEF Trimmed
  <2>2. \A x \in m : \E e \in m : e.range.first <= x.range.first
    BY <1>2
  <2> QED BY <2>1, <2>2
<1> QED BY <1>4, <1>5, <1>6

\* A commit to an instrument whose uses do not overlap.
LEMMA ExclusiveKept ==
  ASSUME StateShape, ~Sharing,
         NEW c \in Cycles, NEW g \in Gates, Available(state, c, g),
         NEW i \in Affected(g), WellFormed(state.instrument[i], FunctionKeys),
         Direction = "BACKWARD" => \A e \in state.instrument[i] :
                                      state.prev["instrument"] <= e.range.first
  PROVE  LET m == state.instrument[i]
             r == Occupied(c, g)
             after == InstrumentCommit(state, c, g)[i]
         IN /\ WellFormed(after, FunctionKeys)
            /\ Direction = "BACKWARD" => \A e \in after : c <= e.range.first
            /\ \A k \in Int : Inside(k, r) => Known(after, g, r, k)
            /\ \A gate, s, k :
                 k \in Int /\ (Known(m, gate, s, k) \/ Past(m, state.prev["instrument"], k))
                   => Known(after, gate, s, k) \/ Past(after, c, k)
<1> DEFINE m == state.instrument[i]
           r == Occupied(c, g)
           v == FunctionOf(state, g)
           after == InstrumentCommit(state, c, g)[i]
           trimmed == Trimmed(m, c, g)
<1>1. /\ InstrumentAvailable(state, c, g) /\ UpTo(Direction, state.prev["instrument"], c)
      /\ i \in Instruments /\ state.prev["instrument"] \in Int
  BY AvailableParts, InOrder, AffectedInstruments DEF Names, StateShape
<1>2. /\ r \in KeyRanges /\ RangeValid(r) /\ r.first = c /\ r.second \in Int /\ c \in Int
      /\ c <= r.second
  BY OccupiedRange DEF KeyRanges, RangeValid
<1>3. ASSUME NEW e \in Touching(m, r)
      PROVE  e.range = r /\ e.value = v
  <2>1. /\ ~state.config.exclusive /\ e.value = g.function
        /\ state.config.overlap \/ e.range = r
    BY <1>1, InstrumentAnswers
  <2> QED BY <2>1 DEF Sharing, FunctionOf
<1>4. /\ WellFormed(trimmed, FunctionKeys)
      /\ \A x \in Touching(trimmed, r) : x.range = r
      /\ \A x \in trimmed : \E e \in m : e.range.first <= x.range.first
      /\ \A e \in m : \/ e \in trimmed
                      \/ Direction = "FORWARD" /\ Touches(e.range, RangePair(MIN, r.first))
                      \/ Direction = "BACKWARD" /\ Touches(e.range, RangePair(r.second, MAX))
  BY <1>3, TrimFitting
<1>5. after = SetRange(trimmed, r, v, FALSE)
  BY <1>1, InstrumentAfter
<1>6. v \in FunctionKeys
  BY DEF FunctionOf, FunctionKeys
<1> HIDE DEF trimmed, v, after, m, r
<1>7. /\ WellFormed(after, FunctionKeys)
      /\ after \subseteq trimmed \cup {Entry(r, v)}
      /\ \E e \in after : e.range = r /\ (~RangeEmpty(r) => e.value = v)
      /\ \A e \in trimmed : ~Touches(e.range, r) \/ e.value = v => e \in after
  BY <1>2, <1>4, <1>5, <1>6, SetFitting
<1>8. PICK new \in after : new.range = r /\ (~RangeEmpty(r) => new.value = v)
  BY <1>7
<1>9. ASSUME Direction = "BACKWARD", NEW x \in after
      PROVE  c <= x.range.first
  <2>1. CASE x \in trimmed
    <3>1. PICK e \in m : e.range.first <= x.range.first
      BY <1>4, <2>1
    <3>2. e.range.first \in Int /\ x.range.first \in Int
      BY <1>4, <2>1, EntryShape DEF m
    <3>3. c <= state.prev["instrument"] /\ state.prev["instrument"] <= e.range.first
      BY <1>1, <1>9 DEF UpTo, m
    <3> QED BY <3>1, <3>2, <3>3, <1>1, <1>2
  <2>2. CASE x = Entry(r, v)
    BY <2>2, <1>2 DEF Entry
  <2> QED BY <2>1, <2>2, <1>7
<1>10. ASSUME NEW k \in Int, Inside(k, r)
       PROVE  Known(after, g, r, k)
  <2>1. ~RangeEmpty(r)
    BY <1>2, <1>10 DEF Inside, RangeEmpty
  <2> QED BY <1>8, <1>10, <2>1 DEF Known, v
<1>11. ASSUME NEW e \in m, NEW k \in Int, Inside(k, e.range)
       PROVE  e \in after \/ Past(after, c, k)
  <2>1. /\ e.range.first \in Int /\ e.range.second \in Int
        /\ e.range.first <= k /\ k < e.range.second
    BY <1>11, EntryShape DEF Inside, m
  <2>2. CASE Direction = "FORWARD" /\ k < c
    BY <2>2 DEF Past
  <2>3. CASE Direction = "BACKWARD" /\ r.second <= k
    BY <2>3, <1>8 DEF Past
  <2>4. CASE /\ ~(Direction = "FORWARD" /\ k < c)
             /\ ~(Direction = "BACKWARD" /\ r.second <= k)
    <3>1. e \in trimmed
      <4>1. ASSUME Direction = "FORWARD", Touches(e.range, RangePair(MIN, r.first))
            PROVE  FALSE
        <5>1. e.range.first < c
          <6>1. /\ RangePair(MIN, r.first).first = MIN /\ RangePair(MIN, r.first).second = c
                /\ MIN \in Int /\ MIN < c
            BY <1>2, ResourcesAssumption, OccupiedWithin DEF RangePair, WithinCycles
          <6> HIDE DEF r
          <6> QED BY <1>2, <2>1, <4>1, <6>1 DEF Touches
        <5>2. c <= k
          BY <1>2, <2>4, <4>1
        <5>3. Touches(e.range, r)
          BY <1>2, <2>1, <5>1, <5>2 DEF Touches
        <5>4. e.range = r
          BY <1>3, <5>3 DEF Touching, m
        <5> QED BY <1>2, <5>1, <5>4
      <4>2. ASSUME Direction = "BACKWARD", Touches(e.range, RangePair(r.second, MAX))
            PROVE  FALSE
        <5>1. r.second < e.range.second
          BY <1>2, <2>1, <4>2, TrimRanges DEF Touches, r, RangePair
        <5>2. k < r.second
          BY <1>2, <2>4, <4>2
        <5>3. c <= e.range.first
          BY <4>2, <1>1, <1>2, <2>1 DEF UpTo, m
        <5>4. Touches(e.range, r)
          BY <1>2, <2>1, <5>2, <5>3 DEF Touches
        <5>5. e.range = r
          BY <1>3, <5>4 DEF Touching, m
        <5> QED BY <1>2, <5>1, <5>5
      <4> QED BY <1>4, <4>1, <4>2
    <3>2. ~Touches(e.range, r) \/ e.value = v
      BY <1>3 DEF Touching, m
    <3> QED BY <1>7, <3>1, <3>2
  <2> QED BY <2>2, <2>3, <2>4
<1>12. ASSUME NEW k \in Int, Past(m, state.prev["instrument"], k)
       PROVE  Past(after, c, k)
  <2>1. CASE Direction = "FORWARD" /\ k < state.prev["instrument"]
    BY <2>1, <1>1, <1>2 DEF UpTo, Past
  <2>2. CASE Direction = "BACKWARD" /\ \E e \in m : e.range.second <= k
    <3>1. PICK e \in m : e.range.second <= k
      BY <2>2
    <3>2. /\ e.range.first \in Int /\ e.range.second \in Int /\ e.range.first <= e.range.second
          /\ c <= e.range.first
      BY <2>2, <1>1, <1>2, EntryShape DEF UpTo, m
    <3>3. r.second <= k
      <4>1. CASE Touches(e.range, r)
        BY <4>1, <3>1, <1>3 DEF Touching, m
      <4>2. CASE ~Touches(e.range, r)
        BY <4>2, <3>1, <3>2, <1>2 DEF Touches
      <4> QED BY <4>1, <4>2
    <3> QED BY <3>3, <2>2, <1>8 DEF Past
  <2> QED BY <2>1, <2>2, <1>12 DEF Past
<1>13. ASSUME NEW gate, NEW s, NEW k \in Int, Known(m, gate, s, k)
       PROVE  Known(after, gate, s, k) \/ Past(after, c, k)
  <2>1. PICK e \in m : /\ Inside(k, e.range) /\ e.value = FunctionOf(state, gate)
                       /\ Sharing \/ e.range = s
    BY <1>13 DEF Known
  <2>2. e \in after \/ Past(after, c, k)
    BY <1>11, <2>1
  <2> QED BY <2>1, <2>2 DEF Known
<1> QED BY <1>7, <1>9, <1>10, <1>12, <1>13 DEF m, r, after


\* A commit to an instrument whose uses overlap and merge.
LEMMA SharedKept ==
  ASSUME StateShape, Sharing, SoundSharing,
         NEW c \in Cycles, NEW g \in Gates, Available(state, c, g),
         NEW i \in Affected(g), WellFormed(state.instrument[i], FunctionKeys)
  PROVE  LET m == state.instrument[i]
             r == Occupied(c, g)
             after == InstrumentCommit(state, c, g)[i]
         IN /\ WellFormed(after, FunctionKeys)
            /\ \A k \in Int : Inside(k, r) => Known(after, g, r, k)
            /\ \A gate, s, k :
                 k \in Int /\ (Known(m, gate, s, k) \/ Past(m, state.prev["instrument"], k))
                   => Known(after, gate, s, k) \/ Past(after, c, k)
<1> DEFINE m == state.instrument[i]
           r == Occupied(c, g)
           v == FunctionOf(state, g)
           after == InstrumentCommit(state, c, g)[i]
           trimmed == Trimmed(m, c, g)
<1>1. /\ InstrumentAvailable(state, c, g) /\ UpTo(Direction, state.prev["instrument"], c)
      /\ i \in Instruments /\ state.prev["instrument"] \in Int
      /\ Direction # "BACKWARD"
  BY AvailableParts, InOrder, AffectedInstruments DEF Names, StateShape, SoundSharing
<1>2. /\ r \in KeyRanges /\ RangeValid(r) /\ r.first = c /\ c \in Int /\ ~RangeEmpty(r)
  <2>1. g.instrumented
    BY DEF Affected
  <2>2. g.duration > 0
    BY <2>1 DEF SoundSharing
  <2> QED BY <2>2, OccupiedRange DEF RangeEmpty
<1>3. ASSUME NEW e \in Touching(m, r)
      PROVE  e.value = v
  BY <1>1, InstrumentAnswers DEF Sharing, FunctionOf
<1>4. /\ WellFormed(trimmed, FunctionKeys)
      /\ \A k \in Int : ~(Direction = "FORWARD" /\ k < c) => ValuesAt(trimmed, k) = ValuesAt(m, k)
  <2>1. CASE Direction = "FORWARD"
    <3> DEFINE z == RangePair(MIN, r.first)
    <3>1. /\ z \in KeyRanges /\ RangeValid(z) /\ ~RangeEmpty(z) /\ z.first = MIN /\ z.second = c
      BY TrimRanges
    <3>2. trimmed = EraseRange(m, z)
      BY <2>1 DEF Trimmed
    <3> HIDE DEF z, trimmed, r, m
    <3>3. WellFormed(m, FunctionKeys) /\ UsableOn(m, z)
      BY <3>1 DEF UsableOn, m
    <3>4. WellFormed(trimmed, FunctionKeys)
      BY <3>1, <3>2, <3>3, EraseWellFormed
    <3>5. ASSUME NEW k \in Int, ~(k < c)
          PROVE  ValuesAt(trimmed, k) = ValuesAt(m, k)
      <4>1. ValuesAt(EraseRange(m, z), k) = IF Inside(k, z) THEN {} ELSE ValuesAt(m, k)
        BY <3>1, <3>3, EraseValues
      <4>2. ~Inside(k, z)
        BY <3>1, <3>5, <1>2 DEF Inside
      <4> QED BY <3>2, <4>1, <4>2
    <3> QED BY <2>1, <3>4, <3>5
  <2>2. CASE Direction # "FORWARD"
    <3>1. trimmed = m
      BY <1>1, <2>2 DEF Trimmed
    <3> QED BY <3>1
  <2> QED BY <2>1, <2>2
<1>5. after = SetRange(trimmed, r, v, FALSE)
  BY <1>1, InstrumentAfter
<1>6. v \in FunctionKeys
  BY DEF FunctionOf, FunctionKeys
<1>7. ASSUME NEW gate, NEW s, NEW k, NEW x
      PROVE  Known(x, gate, s, k) <=> FunctionOf(state, gate) \in ValuesAt(x, k)
  BY DEF Known, ValuesAt, Holding, Inside
<1> HIDE DEF trimmed, v, after, m, r
<1>8. UsableOn(trimmed, r)
  BY <1>2 DEF UsableOn
<1>9. WellFormed(after, FunctionKeys)
  <2>1. \A merge : WellFormed(SetRange(trimmed, r, v, merge), FunctionKeys)
    BY <1>2, <1>4, <1>6, <1>8, SetWellFormed
  <2> QED BY <1>5, <2>1, Zenon
<1>10. ASSUME NEW k \in Int
       PROVE  ValuesAt(after, k) = IF Inside(k, r) THEN {v} ELSE ValuesAt(trimmed, k)
  <2>1. \A merge : ValuesAt(SetRange(trimmed, r, v, merge), k)
                     = IF Inside(k, r) THEN {v} ELSE ValuesAt(trimmed, k)
    BY <1>2, <1>4, <1>6, <1>8, SetValues
  <2> QED BY <1>5, <2>1, Zenon
<1>11. ASSUME NEW k \in Int, Inside(k, r)
       PROVE  Known(after, g, r, k)
  BY <1>7, <1>10, <1>11 DEF v
<1>12. ASSUME NEW gate, NEW s, NEW k \in Int, Known(m, gate, s, k)
       PROVE  Known(after, gate, s, k) \/ Past(after, c, k)
  <2>1. CASE Inside(k, r)
    <3>1. PICK e \in m : Inside(k, e.range) /\ e.value = FunctionOf(state, gate)
      BY <1>12 DEF Known
    <3>2. Touches(e.range, r)
      <4>1. e.range \in KeyRanges
        BY DEF m, WellFormed, Entries
      <4> QED BY <4>1, <3>1, <2>1, <1>2, InsideTouch
    <3>3. FunctionOf(state, gate) = v
      BY <1>3, <3>1, <3>2 DEF Touching
    <3> QED BY <1>7, <1>10, <2>1, <3>3
  <2>2. CASE Direction = "FORWARD" /\ k < c
    BY <2>2 DEF Past
  <2>3. CASE ~Inside(k, r) /\ ~(Direction = "FORWARD" /\ k < c)
    BY <2>3, <1>4, <1>7, <1>10, <1>12
  <2> QED BY <2>1, <2>2, <2>3
<1>13. ASSUME NEW k \in Int, Past(m, state.prev["instrument"], k)
       PROVE  Past(after, c, k)
  BY <1>1, <1>2, <1>13 DEF UpTo, Past
<1> QED BY <1>9, <1>11, <1>12, <1>13 DEF m, r, after

\* One instrument after a commit, whether the new gate uses it or not.
LEMMA InstrumentKept ==
  ASSUME StateShape, SoundSharing, InstrumentsKnown,
         NEW c \in Cycles, NEW g \in Gates, Available(state, c, g), NEW i \in Instruments
  PROVE  LET m == state.instrument[i]
             r == Occupied(c, g)
             after == InstrumentCommit(state, c, g)[i]
         IN /\ WellFormed(after, FunctionKeys)
            /\ Direction = "BACKWARD" => \A e \in after : c <= e.range.first
            /\ i \in Affected(g) => \A k \in Int : Inside(k, r) => Known(after, g, r, k)
            /\ \A gate, s, k :
                 k \in Int /\ (Known(m, gate, s, k) \/ Past(m, state.prev["instrument"], k))
                   => Known(after, gate, s, k) \/ Past(after, c, k)
<1>1. /\ WellFormed(state.instrument[i], FunctionKeys)
      /\ Direction = "BACKWARD" => \A e \in state.instrument[i] :
                                      state.prev["instrument"] <= e.range.first
  BY DEF InstrumentsKnown
<1>2. CASE i \in Affected(g) /\ ~Sharing
  BY <1>1, <1>2, ExclusiveKept
<1>3. CASE i \in Affected(g) /\ Sharing
  BY <1>1, <1>3, SharedKept DEF SoundSharing
<1>4. CASE i \notin Affected(g)
  <2>1. InstrumentCommit(state, c, g)[i] = state.instrument[i]
    BY <1>4, InstrumentAfter
  <2>2. /\ UpTo(Direction, state.prev["instrument"], c)
        /\ state.prev["instrument"] \in Int /\ c \in Int
    BY AvailableParts, InOrder, OccupiedRange DEF Names, StateShape
  <2>3. ASSUME NEW k \in Int, Past(state.instrument[i], state.prev["instrument"], k)
        PROVE  Past(state.instrument[i], c, k)
    BY <2>2, <2>3 DEF Past, UpTo
  <2>4. ASSUME Direction = "BACKWARD", NEW e \in state.instrument[i]
        PROVE  c <= e.range.first
    <3>1. e.range.first \in Int /\ state.prev["instrument"] <= e.range.first
      BY <1>1, <2>4, EntryShape
    <3> QED BY <2>2, <2>4, <3>1 DEF UpTo
  <2> QED BY <1>1, <1>4, <2>1, <2>3, <2>4
<1> QED BY <1>2, <1>3, <1>4

\* A successful reservation keeps what the instruments know.
LEMMA InstrumentStep ==
  ASSUME InstrumentInv, SoundSharing, ~is_broken,
         NEW c \in Cycles, NEW g \in Gates, Committed(c, g), NEW n, Added(n, c, g),
         Direction' = Direction, state'.config = state.config
  PROVE  InstrumentOneFunction' /\ InstrumentsKnown'
<1>1. /\ Available(state, c, g) /\ state'.instrument = InstrumentCommit(state, c, g)
      /\ state'.prev["instrument"] = c
  BY DEF Committed, Names
<1>2. /\ StateShape /\ history \in Seq([cycle : Cycles, gate : Gates]) /\ InstrumentsKnown
      /\ InstrumentOneFunction
  BY DEF InstrumentInv
<1>3. /\ DOMAIN history' = DOMAIN history \cup {n} /\ n \notin DOMAIN history
      /\ history'[n].cycle = c /\ history'[n].gate = g
      /\ \A j \in DOMAIN history : history'[j] = history[j] /\ Slot(j)' = Slot(j)
      /\ Slot(n)' = Occupied(c, g)
  BY DEF Added, Slot
<1>4. ASSUME NEW m, NEW gate, NEW s, NEW k, NEW last
      PROVE  (Known(m, gate, s, k)' <=> Known(m, gate, s, k)) /\ (Past(m, last, k)' <=> Past(m, last, k))
  BY DEF Known, Past, FunctionOf, Sharing
<1>5. ASSUME NEW i \in Instruments
      PROVE  /\ WellFormed(state'.instrument[i], FunctionKeys)
             /\ Direction = "BACKWARD" => \A e \in state'.instrument[i] : c <= e.range.first
             /\ \A j \in DOMAIN history', k \in Int :
                  UsesInstrument(j, i)' /\ Inside(k, Slot(j)')
                    => \/ Known(state'.instrument[i], history'[j].gate, Slot(j)', k)
                       \/ Past(state'.instrument[i], c, k)
  <2> DEFINE m == state.instrument[i]
             after == InstrumentCommit(state, c, g)[i]
  <2>1. /\ WellFormed(after, FunctionKeys)
        /\ Direction = "BACKWARD" => \A e \in after : c <= e.range.first
        /\ i \in Affected(g) => \A k \in Int : Inside(k, Occupied(c, g)) => Known(after, g, Occupied(c, g), k)
        /\ \A gate, s, k :
             k \in Int /\ (Known(m, gate, s, k) \/ Past(m, state.prev["instrument"], k))
               => Known(after, gate, s, k) \/ Past(after, c, k)
    BY <1>1, <1>2, InstrumentKept
  <2>2. \A j \in DOMAIN history, k \in Int :
          UsesInstrument(j, i) /\ Inside(k, Slot(j))
            => Known(m, history[j].gate, Slot(j), k) \/ Past(m, state.prev["instrument"], k)
    BY <1>2 DEF InstrumentsKnown
  <2>3. state'.instrument[i] = after
    BY <1>1
  <2> HIDE DEF m, after
  <2>4. ASSUME NEW j \in DOMAIN history', NEW k \in Int, UsesInstrument(j, i)', Inside(k, Slot(j)')
        PROVE  Known(after, history'[j].gate, Slot(j)', k) \/ Past(after, c, k)
    <3>1. CASE j \in DOMAIN history
      <4>1. UsesInstrument(j, i) /\ Inside(k, Slot(j))
        BY <1>3, <2>4, <3>1 DEF UsesInstrument
      <4> QED BY <1>3, <2>1, <2>2, <3>1, <4>1
    <3>2. CASE j = n
      <4>1. i \in Affected(g) /\ Inside(k, Occupied(c, g))
        BY <1>3, <2>4, <3>2 DEF UsesInstrument
      <4> QED BY <1>3, <2>1, <3>2, <4>1
    <3> QED BY <1>3, <3>1, <3>2
  <2> QED BY <2>1, <2>3, <2>4
<1>6. InstrumentsKnown'
  <2>1. state'.prev["instrument"] = c /\ FunctionKeys' = FunctionKeys
    BY <1>1 DEF FunctionKeys
  <2> QED BY <1>4, <1>5, <2>1 DEF InstrumentsKnown
<1>7. ASSUME NEW j \in DOMAIN history, Affected(history[j].gate) \cap Affected(g) # {},
             \/ Concurrent(history[j], history'[n])
             \/ Concurrent(history'[n], history[j])
      PROVE  /\ ~state.config.exclusive
             /\ history[j].gate.function = g.function
             /\ state.config.overlap \/ (history[j].cycle = c /\ history[j].gate.duration = g.duration)
  <2>1. PICK k \in Busy(history[j]) : k \in Busy(history'[n])
    BY <1>7 DEF Concurrent
  <2>2. history[j].cycle \in Cycles /\ history[j].gate \in Gates
    BY <1>2, Reservations
  <2>3. k \in Int /\ Inside(k, Slot(j)) /\ Inside(k, Occupied(c, g))
    BY <1>3, <2>1, <2>2, BusyInside DEF Slot
  <2>4. PICK i \in Affected(g) : UsesInstrument(j, i)
    BY <1>7 DEF UsesInstrument
  <2>5. /\ ~state.config.exclusive /\ history[j].gate.function = g.function
        /\ state.config.overlap \/ Slot(j) = Occupied(c, g)
    BY <1>1, <1>2, <2>3, <2>4, NewUse
  <2>6. Slot(j) = Occupied(c, g) => history[j].cycle = c /\ history[j].gate.duration = g.duration
    <3>1. /\ Slot(j).first = history[j].cycle
          /\ Slot(j).second = history[j].cycle + history[j].gate.duration
          /\ Occupied(c, g).first = c /\ Occupied(c, g).second = c + g.duration
          /\ c \in Int /\ g.duration \in Nat /\ history[j].gate.duration \in Nat
          /\ history[j].cycle \in Int
      BY <2>2, OccupiedRange DEF Slot
    <3>2. ASSUME Slot(j) = Occupied(c, g)
          PROVE  history[j].cycle = c /\ history[j].cycle + history[j].gate.duration = c + g.duration
      BY ONLY <3>1, <3>2
    <3>3. \A a, b, d, e : a \in Int /\ b \in Nat /\ d \in Int /\ e \in Nat /\ a = d /\ a + b = d + e => b = e
      OBVIOUS
    <3> QED BY ONLY <3>1, <3>2, <3>3
  <2> QED BY <2>5, <2>6
<1>8. InstrumentOneFunction'
  <2> SUFFICES ASSUME NEW i \in DOMAIN history', NEW j \in DOMAIN history', i # j,
                      Concurrent(history'[i], history'[j]),
                      Affected(history'[i].gate) \cap Affected(history'[j].gate) # {}
               PROVE  /\ ~state.config.exclusive
                      /\ history'[i].gate.function = history'[j].gate.function
                      /\ \/ state.config.overlap
                         \/ /\ history'[i].cycle = history'[j].cycle
                            /\ history'[i].gate.duration = history'[j].gate.duration
    BY DEF InstrumentOneFunction
  <2>1. CASE i \in DOMAIN history /\ j \in DOMAIN history
    <3>1. history'[i] = history[i] /\ history'[j] = history[j]
      BY <2>1, <1>3
    <3>2. /\ Concurrent(history[i], history[j])
          /\ Affected(history[i].gate) \cap Affected(history[j].gate) # {}
      BY ONLY <3>1, Concurrent(history'[i], history'[j]),
              Affected(history'[i].gate) \cap Affected(history'[j].gate) # {}
    <3> QED BY <2>1, <3>1, <3>2, <1>2 DEF InstrumentOneFunction
  <2>2. CASE i \in DOMAIN history /\ j = n
    BY <2>2, <1>3, <1>7
  <2>3. CASE i = n /\ j \in DOMAIN history
    BY <2>3, <1>3, <1>7
  <2> QED BY <2>1, <2>2, <2>3, <1>3
<1> QED BY <1>6, <1>8

\* The invariant of the instruments holds whatever is reserved.
THEOREM InstrumentsInvariant == Spec => []InstrumentInv
<1>1. Init => InstrumentInv
  <2> SUFFICES ASSUME Init PROVE InstrumentInv
    OBVIOUS
  <2>1. InstrumentsKnown
    BY InitialShape DEF InstrumentsKnown, WellFormed, Ordered
  <2> QED BY <2>1, InitialShape DEF InstrumentInv, InstrumentOneFunction
<1>2. InstrumentInv /\ [Next]_vars => InstrumentInv'
  <2> SUFFICES ASSUME InstrumentInv, [Next]_vars PROVE InstrumentInv'
    OBVIOUS
  <2>1. ASSUME NEW c \in Cycles, NEW g \in Gates, ReserveGate(c, g)
        PROVE  InstrumentInv'
    <3>1. /\ ~is_broken /\ StateShape' /\ Direction' = Direction /\ state'.config = state.config
          /\ history' \in Seq([cycle : Cycles, gate : Gates])
          /\ \/ is_broken' /\ history' = history
             \/ Committed(c, g) /\ \E n : Added(n, c, g)
      BY <2>1, ReserveEffect DEF InstrumentInv
    <3>2. SoundSharing' <=> SoundSharing
      BY <3>1 DEF SoundSharing, Sharing
    <3>3. CASE is_broken' /\ history' = history
      <4>1. state'.config = state.config /\ history' = history
        BY <3>1, <3>3
      <4>2. InstrumentOneFunction => InstrumentOneFunction'
        BY ONLY <4>1 DEF InstrumentOneFunction
      <4> QED BY <3>1, <3>2, <3>3, <4>2 DEF InstrumentInv
    <3>4. ASSUME Committed(c, g), NEW n, Added(n, c, g)
          PROVE  InstrumentInv'
      BY <3>1, <3>2, <3>4, InstrumentStep DEF InstrumentInv
    <3> QED BY <3>1, <3>3, <3>4
  <2>2. CASE UNCHANGED vars
    <3>1. state' = state /\ is_broken' = is_broken /\ history' = history
      BY <2>2 DEF vars
    <3>2. StateShape' /\ (SoundSharing' <=> SoundSharing)
      BY <3>1 DEF InstrumentInv, StateShape, SoundSharing, Sharing, Direction
    <3>3. InstrumentOneFunction => InstrumentOneFunction'
      BY <3>1 DEF InstrumentOneFunction
    <3>4. InstrumentsKnown => InstrumentsKnown'
      <4>1. Direction' = Direction /\ FunctionKeys' = FunctionKeys
        BY <3>1 DEF Direction, FunctionKeys
      <4>2. \A j, i : Slot(j)' = Slot(j) /\ (UsesInstrument(j, i)' <=> UsesInstrument(j, i))
        BY <3>1 DEF Slot, UsesInstrument
      <4>3. \A m, gate, r, k : Known(m, gate, r, k)' <=> Known(m, gate, r, k)
        BY <3>1 DEF Known, FunctionOf, Sharing
      <4>4. \A m, last, k : Past(m, last, k)' <=> Past(m, last, k)
        BY <3>1 DEF Past, Direction
      <4> QED BY <3>1, <4>1, <4>2, <4>3, <4>4 DEF InstrumentsKnown
    <3> QED BY <3>1, <3>2, <3>3, <3>4 DEF InstrumentInv
  <2> QED BY <2>1, <2>2 DEF Next
<1> QED BY <1>1, <1>2, PTL DEF Spec

\* resource/instrument.cc: gates that share an instrument and run at the same time use the
\* same function, and the switches exclusive and overlap mean what they say, unless uses
\* may overlap and either the direction is backward or an instrumented gate takes no time.
THEOREM AlwaysOneFunction == Spec => [](SoundSharing => InstrumentOneFunction)
<1>1. InstrumentInv => (SoundSharing => InstrumentOneFunction)
  BY DEF InstrumentInv
<1> QED BY <1>1, InstrumentsInvariant, PTL


=============================================================================
