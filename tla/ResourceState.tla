---------------------------- MODULE ResourceState ---------------------------
(***************************************************************************)
(* rmgr::State under any sequence of reservations: the gates and cycles    *)
(* are the caller's choice, and a reservation that is refused throws and   *)
(* leaves the state broken.  history is a ghost: what has been committed.  *)
(***************************************************************************)
EXTENDS Resources

CONSTANTS Gates,              \* the gates that are scheduled
          Cycles,             \* the start cycles that are tried
          Configs,            \* direction and instrument switches
          MaxReservations     \* bound on the number of gates

ASSUME GatesAssumption ==
  /\ Cycles \subseteq Int /\ MaxReservations \in Nat
  /\ \A g \in Gates :
       /\ g.duration \in Nat /\ g.qubits \in Seq(Qubits) /\ Len(g.qubits) <= 2
       /\ g.instrumented \in BOOLEAN /\ g.channelled \in BOOLEAN
       /\ \A c \in Cycles : MIN + g.duration < c /\ c + g.duration < MAX
  /\ \A c \in Configs : c.direction \in Directions /\ c.exclusive \in BOOLEAN /\ c.overlap \in BOOLEAN

VARIABLES state,       \* what the resources hold
          is_broken,   \* a reservation has failed
          history      \* the sequence of committed reservations

vars == <<state, is_broken, history>>

Init ==
  /\ \E config \in Configs : state = InitialResources(config)
  /\ is_broken = FALSE
  /\ history = <<>>

ReserveGate(cycle, gate) ==
  /\ ~is_broken
  /\ state' = Reserve(state, cycle, gate)
  /\ is_broken' = ~Available(state, cycle, gate)
  /\ history' = IF is_broken' THEN history ELSE Append(history, [cycle |-> cycle, gate |-> gate])

Next ==
  /\ Len(history) < MaxReservations
  /\ \E cycle \in Cycles, gate \in Gates : ReserveGate(cycle, gate)

Spec == Init /\ [][Next]_vars

-----------------------------------------------------------------------------

Busy(h) == h.cycle .. (h.cycle + h.gate.duration - 1)

Concurrent(g, h) == Busy(g) \cap Busy(h) # {}

\* resource/qubit.cc: no qubit is used by two gates in one cycle, although only the
\* last reservation of a qubit is remembered when there is a direction.
QubitExclusive ==
  \A i, j \in DOMAIN history :
    i # j /\ Concurrent(history[i], history[j])
      => OperandsOf(history[i].gate) \cap OperandsOf(history[j].gate) = {}

\* resource/instrument.cc: gates that share an instrument and run at the same time use
\* the same function; never when all use is exclusive, and only with the same start
\* and duration when overlap is not allowed.
InstrumentOneFunction ==
  \A i, j \in DOMAIN history :
    LET g == history[i]
        h == history[j]
    IN i # j /\ Concurrent(g, h) /\ Affected(g.gate) \cap Affected(h.gate) # {}
         => /\ ~state.config.exclusive
            /\ g.gate.function = h.gate.function
            /\ state.config.overlap \/ (g.cycle = h.cycle /\ g.gate.duration = h.gate.duration)

\* resource/inter_core_channel.cc: in no cycle does a core communicate over more
\* channels than it has, or the system over more than it allows.
ChannelCapacity ==
  \A cycle \in Cycles :
    LET using(core) == {i \in DOMAIN history : /\ cycle \in Busy(history[i])
                                               /\ UsesChannels(history[i].gate)
                                               /\ core \in AffectedCores(history[i].gate)}
    IN /\ \A core \in Cores : Cardinality(using(core)) <= NumChannels
       /\ Cardinality({p \in Cores \X DOMAIN history : p[2] \in using(p[1])}) <= NumSystemWideChannels

\* Forgetting old reservations is only a saving: as long as cycles are asked for in the
\* order of the direction, the qubit resource answers what it would answer if it had
\* kept every reservation ever made.
ForgettingIsInvisible ==
  \A cycle \in Cycles, gate \in Gates :
    ~is_broken /\ ~OutOfOrder(state, "qubit", cycle)
      => (QubitAvailable(state, cycle, gate) <=>
            \A i \in DOMAIN history :
              LET h == history[i]
              IN OperandsOf(gate) \cap OperandsOf(h.gate) # {}
                   => Find({Entry(Occupied(h.cycle, h.gate), "")}, Occupied(cycle, gate)) = {})

\* No gate is refused for ever: far enough in the direction of scheduling every gate
\* is available, so a scheduler that waits for the resources makes progress.
EventuallyAvailable ==
  ~is_broken => \A gate \in Gates :
    Available(state, IF state.config.direction = "BACKWARD" THEN MIN ELSE MAX, gate)

=============================================================================
