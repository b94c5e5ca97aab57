-------------------------------- MODULE Past --------------------------------
(***************************************************************************)
(* pass/map/qubits/map/detail: Past and FreeCycle, the output side of the  *)
(* mapper.  Past is copied to try an alternative out, so it is a value     *)
(* here, a record:                                                         *)
(*   map      v2r, the qubit mapping                                       *)
(*   fc       FreeCycle: fcv, the first free cycle of every qubit and bit, *)
(*            and rs, the state of the resources                           *)
(*   waiting, gates, output   waiting_gates, gates (with their cycles, in  *)
(*            cycle order) and output_gates                                *)
(*   failed   whether an assertion failed                                  *)
(* A gate in it is a gate of DepGraph with real operands and the program   *)
(* position it comes from (0 for the mapper's own gates).  Gates are       *)
(* created by name: the platform defines no _real, _prim or move_init      *)
(* variants, so new_gate() makes one gate of the plain name.               *)
(***************************************************************************)
EXTENDS DepGraph, Resources, Topology

CONSTANTS UNDEFINED_QUBIT,
          ResourceConfig    \* the switches of the instrument resource

ASSUME UndefinedAssumption == UNDEFINED_QUBIT \notin Qubits
ASSUME ConfigAssumption ==
  ResourceConfig \in [direction : Directions, exclusive : BOOLEAN, overlap : BOOLEAN]

Mapping == INSTANCE QubitMapping

\* The gates that the mapper makes itself.
OwnNames == {"prepz", "move", "swap", "tmove", "tswap"}

NewGate(name, operands) ==
  [id |-> 0, name |-> name, operands |-> operands, cregs |-> <<>>, bregs |-> <<>>, cond |-> <<>>]

-----------------------------------------------------------------------------
(* FreeCycle.                                                              *)

UsesResources(o) == o.heuristic \in {"base_rc", "min_extend_rc"}

InitialFreeCycle ==
  [fcv |-> [x \in {y \in Objects : y[1] # "c"} |-> 1],
   rs  |-> InitialResources([ResourceConfig EXCEPT !.direction = "FORWARD"])]

GetMax(fc) == Largest({fc.fcv[x] : x \in DOMAIN fc.fcv})

FirstOperandEarlier(fc, r0, r1) == fc.fcv[Qubit(r0)] < fc.fcv[Qubit(r1)]

SwapStart(fc, r0, r1, o) ==
  LET reversed == o.reverse /\ FirstOperandEarlier(fc, r0, r1)
      a == IF reversed THEN r1 ELSE r0
      b == IF reversed THEN r0 ELSE r1
  IN Largest({fc.fcv[Qubit(a)] - 1, fc.fcv[Qubit(b)]})

FirstSwapEarliest(fc, fr0, fr1, sr0, sr1, o) == SwapStart(fc, fr0, fr1, o) < SwapStart(fc, sr0, sr1, o)

Written(g) == ToSet(QubitsOf(g) \o BregsOf(g))

\* Mutant: the condition is not waited for.
StartUnconditionally(fc, g) == Largest({1} \cup {fc.fcv[x] : x \in Written(g)})

StartCycleNoRc(fc, g) == Largest({1} \cup {fc.fcv[x] : x \in Written(g) \cup ToSet(CondOf(g))})

ForResources(g) ==
  [qubits |-> g.operands, duration |-> Duration[g.name], function |-> g.name,
   instrumented |-> Len(g.operands) = 1, channelled |-> FALSE]

StartCycle(fc, g, o) ==
  LET from[c \in Nat] == IF Available(fc.rs, c, ForResources(g)) THEN c ELSE from[c + 1]
  IN IF UsesResources(o) THEN from[StartCycleNoRc(fc, g)] ELSE StartCycleNoRc(fc, g)

AddNoRc(fc, g, start) ==
  [fc EXCEPT !.fcv = [x \in DOMAIN @ |-> IF x \in Written(g) THEN start + Duration[g.name] ELSE @[x]]]

AddFc(fc, g, start, o) ==
  [AddNoRc(fc, g, start) EXCEPT !.rs = IF UsesResources(o) THEN Reserve(@, start, ForResources(g)) ELSE @]

-----------------------------------------------------------------------------
(* Past.                                                                   *)

InitialPast(map) ==
  [map |-> map, fc |-> InitialFreeCycle, waiting |-> <<>>, gates |-> <<>>, output |-> <<>>, failed |-> FALSE]

Add(past, gates) == [past EXCEPT !.waiting = @ \o gates]

\* schedule(), one round: all waiting gates are scheduled tentatively, in order, on a
\* copy of the free cycles; the first of those that start earliest is kept.
Tried(past, o) ==
  LET try[n \in 0 .. Len(past.waiting)] ==
        IF n = 0 THEN [fc |-> past.fc, start |-> 0]
        ELSE LET fc    == try[n - 1].fc
                 start == StartCycle(fc, past.waiting[n], o)
             IN [fc |-> AddFc(fc, past.waiting[n], start, o), start |-> start]
  IN [n \in DOMAIN past.waiting |-> try[n].start]

\* A gate goes as late as possible among the gates in order of their cycles.
InsertByCycle(gates, g, start) ==
  InsertAt(gates, Largest({0} \cup {i \in DOMAIN gates : gates[i].cycle <= start}) + 1,
           [gate |-> g, cycle |-> start])

Place(past, i, start, o) ==
  [past EXCEPT !.fc = AddFc(@, past.waiting[i], start, o),
               !.gates = InsertByCycle(@, past.waiting[i], start),
               !.waiting = RemoveAt(@, i)]

PlaceEarliest(past, starts, o) ==
  LET first == Smallest({i \in DOMAIN starts : \A j \in DOMAIN starts : starts[i] <= starts[j]})
  IN Place(past, first, starts[first], o)

ScheduleOne(past, o) == PlaceEarliest(past, Tried(past, o), o)

ScheduleWaiting(past, o) ==
  LET rounds[n \in 0 .. Len(past.waiting)] == IF n = 0 THEN past ELSE ScheduleOne(rounds[n - 1], o)
  IN rounds[Len(past.waiting)]

AddAndSchedule(past, g, o) == ScheduleWaiting(Add(past, <<g>>), o)

FlushAll(past) == [past EXCEPT !.output = @ \o past.gates, !.gates = <<>>]

\* bypass(), of all of some classical gates: the first flushes the quantum gates, and all go
\* straight to the output.
Bypass(past, gates) ==
  IF gates = <<>> THEN past
  ELSE [FlushAll(past) EXCEPT !.output = @ \o [i \in DOMAIN gates |-> [gate |-> gates[i], cycle |-> 0]]]

-----------------------------------------------------------------------------
(* Swaps and moves.                                                        *)

\* get_insertion_cost(): how much later the circuit ends with the initialisation.
DepthAfter(fc, gates) ==
  GetMax(FoldLeft(LAMBDA f, g : AddNoRc(f, g, StartCycleNoRc(f, g)), fc, gates))

InsertionCost(past, init, circuit) == DepthAfter(past.fc, init \o circuit) - DepthAfter(past.fc, circuit)

MoveName(t, r0, r1) == IF IsInterCoreHop(t, r0, r1) THEN "tmove" ELSE "move"
SwapName(t, r0, r1) == IF IsInterCoreHop(t, r0, r1) THEN "tswap" ELSE "swap"

\* generate_move() from the qubit with state to the one without, which must be in |0>:
\* it is initialised when that is cheap enough, otherwise no move is made.
MoveGates(past, t, from, to, o) ==
  LET move == <<NewGate(MoveName(t, from, to), <<from, to>>)>>
      init == <<NewGate("prepz", <<to>>)>>
  IN IF past.map.state[to] # "none" THEN move
     ELSE IF InsertionCost(past, init, move) <= o.penalty THEN init \o move
     ELSE <<>>

IsLive(past, r) == past.map.state[r] = "live"

SwapGates(past, t, r0, r1, o) ==
  LET earlier == o.reverse /\ FirstOperandEarlier(past.fc, r0, r1)
      a == IF earlier THEN r1 ELSE r0
      b == IF earlier THEN r0 ELSE r1
  IN <<NewGate(SwapName(t, a, b), <<a, b>>)>>

\* add_swap(): nothing between qubits without state, a move to a qubit without state when
\* that is possible, a swap otherwise.
AddSwap(past, t, r0, r1, o) ==
  LET swapped(gates, map) == [Add(past, gates) EXCEPT !.map = Mapping!Swap(map, r0, r1),
                                                      !.failed = @ \/ ~Mapping!SwapAsserts(map, r0, r1)]
      from  == IF o.moves /\ ~IsLive(past, r0) THEN r1 ELSE r0
      to    == IF from = r0 THEN r1 ELSE r0
      moves == IF o.moves /\ ~IsLive(past, to) THEN MoveGates(past, t, from, to, o) ELSE <<>>
  IN CASE ~IsLive(past, r0) /\ ~IsLive(past, r1) -> swapped(<<>>, past.map)
       [] (IsLive(past, r0) \/ IsLive(past, r1)) /\ moves # <<>> ->
            swapped(moves, IF past.map.state[to] = "none"
                           THEN Mapping!SetState(past.map, to, "initialized") ELSE past.map)
       [] OTHER -> swapped(SwapGates(past, t, from, to, o), past.map)

-----------------------------------------------------------------------------
(* The gates of the program.                                               *)

GetReal(past, v) == past.map.real[v]

\* make_real(): a gate leaves its qubits with state, except a mere initialisation.
StateAfter(g, o) == IF o.prep_only_initializes /\ g.name = "prepz" THEN "initialized" ELSE "live"

\* map_routed_gate(): make_real(), then add and schedule.
MapRoutedGate(past, g, o) ==
  LET reals == [i \in DOMAIN g.operands |-> GetReal(past, g.operands[i])]
      map   == [past.map EXCEPT !.state =
                  [r \in DOMAIN @ |-> IF r \in ToSet(reals) THEN StateAfter(g, o) ELSE @[r]]]
  IN AddAndSchedule([past EXCEPT !.map = map], [g EXCEPT !.operands = reals], o)

=============================================================================
