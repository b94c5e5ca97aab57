-------------------------- MODULE CliffordOptimizer --------------------------
(***************************************************************************)
(* The Clifford optimizer pass, src/src/ql/pass/opt/clifford: a linear scan *)
(* over a kernel that holds back the unconditional single-qubit Clifford    *)
(* gates of every qubit as one of 24 states, and puts a short sequence for  *)
(* that state in front of the next gate that is not one of them.            *)
(*                                                                          *)
(* A circuit is what happens on each qubit, in order: a timeline alternates *)
(* between a rotation of the qubit and a gate that interrupts it.  A        *)
(* rotation is written as the images of the axes x, y, z (1, 2, 3), a minus *)
(* sign standing for the opposite direction.                                *)
(***************************************************************************)
EXTENDS Integers, Sequences, FiniteSetsExt, SequencesExt

CONSTANTS
  Qubits,     \* the qubits of the kernel
  Gates,      \* the gates a kernel is made of: records [name, operands,
              \* classical, conditional, duration]
  ct,         \* the platform's cycle time, in nanoseconds
  MaxGates,   \* bound: the gates in a kernel
  UIntSize    \* the number of values of an unsigned integer

ASSUME CliffordAssumption ==
  IsFiniteSet(Qubits) /\ ct \in Nat \ {0} /\ MaxGates \in Nat /\ UIntSize \in Nat \ {0}

\* The operands of a gate are qubits of the kernel.
ASSUME OperandsAssumption ==
  \A g \in Gates : g.duration \in Nat /\ g.operands \in Seq(Qubits)

VARIABLES
  input,        \* the timelines of the gates taken from the kernel so far
  output,       \* the timelines of the gates put back in it
  cliffstate,   \* the accumulated Clifford state of every qubit
  cliffcycles,  \* the cycles of the gates accumulated for every qubit
  total_saved,  \* the cycles saved, an unsigned integer
  taken,        \* the number of gates taken
  finished      \* whether the last states have been put out

vars == <<input, output, cliffstate, cliffcycles, total_saved, taken, finished>>

------------------------------------------------------------------------------
(* Rotations *)

Identity == <<1, 2, 3>>
X90 == <<1, 3, -2>>
Y90 == <<-3, 2, 1>>
Z90 == <<2, -1, 3>>

\* The rotation r followed by the rotation s.
Then(r, s) == [a \in 1 .. 3 |-> IF r[a] > 0 THEN s[r[a]] ELSE -s[-r[a]]]

Half(r) == Then(r, r)
Back(r) == Then(r, Half(r))

\* What the gates that gate2cs knows by name do to a qubit.
Meaning(name) ==
  CASE name \in {"identity", "i"}           -> Identity
    [] name \in {"pauli_x", "x", "rx180"}   -> Half(X90)
    [] name \in {"pauli_y", "y", "ry180"}   -> Half(Y90)
    [] name \in {"pauli_z", "z", "rz180"}   -> Half(Z90)
    [] name \in {"hadamard", "h"}           -> Then(Y90, Half(X90))
    [] name \in {"x90", "rx90"}             -> X90
    [] name \in {"xm90", "mrx90"}           -> Back(X90)
    [] name \in {"y90", "ry90"}             -> Y90
    [] name \in {"ym90", "mry90"}           -> Back(Y90)
    [] name \in {"s", "z90", "rz90"}        -> Z90
    [] name \in {"sdag", "zm90", "mrz90"}   -> Back(Z90)

------------------------------------------------------------------------------
(* The tables *)

\* The Clifford state of a gate, -1 when its name is not known.
gate2cs(name) ==
  CASE name \in {"identity", "i"}           -> 0
    [] name \in {"pauli_x", "x", "rx180"}   -> 3
    [] name \in {"pauli_y", "y", "ry180"}   -> 6
    [] name \in {"pauli_z", "z", "rz180"}   -> 9
    [] name \in {"hadamard", "h"}           -> 12
    [] name \in {"xm90", "mrx90"}           -> 13
    [] name \in {"s", "zm90", "mrz90"}      -> 14
    [] name \in {"ym90", "mry90"}           -> 15
    [] name \in {"x90", "rx90"}             -> 16
    [] name \in {"y90", "ry90"}             -> 21
    [] name \in {"sdag", "z90", "rz90"}     -> 23
    [] OTHER                                -> -1

\* The gates put out for the Clifford states 0 to 23.
clifford ==
  << <<>>, <<"ry90", "rx90">>, <<"mrx90", "mry90">>,
     <<"rx180">>, <<"mry90", "mrx90">>, <<"rx90", "mry90">>,
     <<"ry180">>, <<"mry90", "rx90">>, <<"rx90", "ry90">>,
     <<"rx180", "ry180">>, <<"ry90", "mrx90">>, <<"mrx90", "ry90">>,
     <<"ry90", "rx180">>, <<"mrx90">>, <<"rx90", "mry90", "mrx90">>,
     <<"mry90">>, <<"rx90">>, <<"rx90", "ry90", "rx90">>,
     <<"mry90", "rx180">>, <<"rx90", "ry180">>, <<"rx90", "mry90", "rx90">>,
     <<"ry90">>, <<"mrx90", "ry180">>, <<"rx90", "ry90", "mrx90">> >>

cs2cycles ==
  <<0, 2, 2, 1, 2, 2, 1, 2, 2, 2, 2, 2, 2, 1, 3, 1, 1, 3, 2, 2, 3, 1, 2, 3>>

TRANSITION_TABLE ==
  << <<0, 1, 2, 3, 4, 5, 6, 7, 8, 9, 10, 11, 12, 13, 14, 15, 16, 17, 18, 19, 20, 21, 22, 23>>,
     <<1, 2, 0, 10, 11, 9, 4, 5, 3, 7, 8, 6, 23, 21, 22, 14, 12, 13, 20, 18, 19, 17, 15, 16>>,
     <<2, 0, 1, 8, 6, 7, 11, 9, 10, 5, 3, 4, 16, 17, 15, 22, 23, 21, 19, 20, 18, 13, 14, 12>>,
     <<3, 4, 5, 0, 1, 2, 9, 10, 11, 6, 7, 8, 15, 16, 17, 12, 13, 14, 21, 22, 23, 18, 19, 20>>,
     <<4, 5, 3, 7, 8, 6, 1, 2, 0, 10, 11, 9, 20, 18, 19, 17, 15, 16, 23, 21, 22, 14, 12, 13>>,
     <<5, 3, 4, 11, 9, 10, 8, 6, 7, 2, 0, 1, 13, 14, 12, 19, 20, 18, 22, 23, 21, 16, 17, 15>>,
     <<6, 7, 8, 9, 10, 11, 0, 1, 2, 3, 4, 5, 18, 19, 20, 21, 22, 23, 12, 13, 14, 15, 16, 17>>,
     <<7, 8, 6, 4, 5, 3, 10, 11, 9, 1, 2, 0, 17, 15, 16, 20, 18, 19, 14, 12, 13, 23, 21, 22>>,
     <<8, 6, 7, 2, 0, 1, 5, 3, 4, 11, 9, 10, 22, 23, 21, 16, 17, 15, 13, 14, 12, 19, 20, 18>>,
     <<9, 10, 11, 6, 7, 8, 3, 4, 5, 0, 1, 2, 21, 22, 23, 18, 19, 20, 15, 16, 17, 12, 13, 14>>,
     <<10, 11, 9, 1, 2, 0, 7, 8, 6, 4, 5, 3, 14, 12, 13, 23, 21, 22, 17, 15, 16, 20, 18, 19>>,
     <<11, 9, 10, 5, 3, 4, 2, 0, 1, 8, 6, 7, 19, 20, 18, 13, 14, 12, 16, 17, 15, 22, 23, 21>>,
     <<12, 13, 14, 21, 22, 23, 18, 19, 20, 15, 16, 17, 0, 1, 2, 9, 10, 11, 6, 7, 8, 3, 4, 5>>,
     <<13, 14, 12, 16, 17, 15, 22, 23, 21, 19, 20, 18, 5, 3, 4, 2, 0, 1, 8, 6, 7, 11, 9, 10>>,
     <<14, 12, 13, 20, 18, 19, 17, 15, 16, 23, 21, 22, 10, 11, 9, 4, 5, 3, 7, 8, 6, 1, 2, 0>>,
     <<15, 16, 17, 18, 19, 20, 21, 22, 23, 12, 13, 14, 3, 4, 5, 6, 7, 8, 9, 10, 11, 0, 1, 2>>,
     <<16, 17, 15, 13, 14, 12, 19, 20, 18, 22, 23, 21, 2, 0, 1, 5, 3, 4, 11, 9, 10, 8, 6, 7>>,
     <<17, 15, 16, 23, 21, 22, 14, 12, 13, 20, 18, 19, 7, 8, 6, 1, 2, 0, 10, 11, 9, 4, 5, 3>>,
     <<18, 19, 20, 15, 16, 17, 12, 13, 14, 21, 22, 23, 6, 7, 8, 3, 4, 5, 0, 1, 2, 9, 10, 11>>,
     <<19, 20, 18, 22, 23, 21, 16, 17, 15, 13, 14, 12, 11, 9, 10, 8, 6, 7, 2, 0, 1, 5, 3, 4>>,
     <<20, 18, 19, 14, 12, 13, 23, 21, 22, 17, 15, 16, 4, 5, 3, 10, 11, 9, 1, 2, 0, 7, 8, 6>>,
     <<21, 22, 23, 12, 13, 14, 15, 16, 17, 18, 19, 20, 9, 10, 11, 0, 1, 2, 3, 4, 5, 6, 7, 8>>,
     <<22, 23, 21, 19, 20, 18, 13, 14, 12, 16, 17, 15, 8, 6, 7, 11, 9, 10, 5, 3, 4, 2, 0, 1>>,
     <<23, 21, 22, 17, 15, 16, 20, 18, 19, 14, 12, 13, 1, 2, 0, 7, 8, 6, 4, 5, 3, 10, 11, 9>> >>

States == 0 .. 23

\* The state reached from the state from by the state cs.
Transition(from, cs) == TRANSITION_TABLE[from + 1][cs + 1]

\* What the gates put out for a state do to a qubit.
Rotation ==
  [cs \in States |-> FoldLeft(LAMBDA r, name : Then(r, Meaning(name)), Identity, clifford[cs + 1])]

\* The 24 states are a group of rotations that the table multiplies: a closed
\* formula, which TLC evaluates.
ASSUME TableAssumption ==
  /\ Rotation[0] = Identity
  /\ \A a \in States : Then(Identity, Rotation[a]) = Rotation[a] /\ Then(Rotation[a], Identity) = Rotation[a]
  /\ \A a, b \in States :
       Transition(a, b) \in States /\ Rotation[Transition(a, b)] = Then(Rotation[a], Rotation[b])

\* The rotations that at most n half and quarter turns about x and y make.
Primitives == {"rx90", "mrx90", "rx180", "ry90", "mry90", "ry180"}
Within[n \in 0 .. 3] ==
  IF n = 0 THEN {Identity}
  ELSE Within[n - 1] \cup {Then(r, Meaning(p)) : r \in Within[n - 1], p \in Primitives}
Shortest == [r \in Within[3] |-> Min({n \in 0 .. 3 : r \in Within[n]})]

\* The gates of a state are as many as its cycles, and as few as can be.
ASSUME LengthAssumption ==
  \A cs \in States : /\ cs2cycles[cs + 1] = Len(clifford[cs + 1])
                    /\ cs2cycles[cs + 1] = Shortest[Rotation[cs]]

\* The known gates rotate the qubit as the state that gate2cs gives them does.
\* The quarter turns about z do not, when they are called z90, rz90, zm90 or
\* mrz90.
ASSUME GatesAssumption ==
  \A g \in Gates : gate2cs(g.name) # -1 =>
    gate2cs(g.name) \in States /\ Meaning(g.name) = Rotation[gate2cs(g.name)]

------------------------------------------------------------------------------
(* Timelines *)

Cycles(g) == (g.duration + ct - 1) \div ct

NoTime == [log |-> <<>>, rotation |-> Identity, cycles |-> 0]

\* A timeline that goes on with a rotation r that takes c cycles.
Turned(t, r, c) ==
  [log |-> t.log, rotation |-> Then(t.rotation, r), cycles |-> t.cycles + c]

\* A timeline that goes on with the n-th gate of the kernel, g.
Interrupted(t, g, n) ==
  [log |-> Append(t.log, [rotation |-> t.rotation, cycles |-> t.cycles, gate |-> g, number |-> n]),
   rotation |-> Identity, cycles |-> 0]

\* What the gate g, the n-th of the kernel, does to a qubit it affects.
After(t, g, n) ==
  IF ~g.classical /\ Len(g.operands) = 1 /\ ~g.conditional /\ gate2cs(g.name) # -1
  THEN Turned(t, Meaning(g.name), Cycles(g))
  ELSE Interrupted(t, g, n)

\* The qubits a gate may affect: all of them when it is classical or has no
\* operands.
Affected(g) == IF g.classical \/ g.operands = <<>> THEN Qubits ELSE ToSet(g.operands)

\* Mutant: a conditional gate is accumulated as if it always happened.
AccumulatesConditional(g) ==
  ~g.classical /\ Len(g.operands) = 1 /\ gate2cs(g.name) # -1

\* Whether the scan holds the gate back.
Accumulates(g) ==
  /\ ~g.classical
  /\ Len(g.operands) = 1
  /\ gate2cs(g.name) # -1
  /\ ~g.conditional

\* Mutant: a gate that is not held back puts out the states of all qubits.
SyncedAll(g) == Qubits

\* The qubits whose state is put out before a gate that is not held back.
Synced(g) == Affected(g)

------------------------------------------------------------------------------
(* The scan *)

\* What is put out for a qubit whose state is not the identity.
Flushed(q) ==
  IF cliffstate[q] = 0 THEN output[q]
  ELSE Turned(output[q], Rotation[cliffstate[q]], cs2cycles[cliffstate[q] + 1])

Saved(q) ==
  IF cliffstate[q] = 0 THEN 0 ELSE cliffcycles[q] - cs2cycles[cliffstate[q] + 1]

\* Mutant: the cycles accumulated before a sequence was put out still count.
KeptCycles(S) == cliffcycles

ClearedCycles(S) == [q \in Qubits |-> IF q \in S THEN 0 ELSE cliffcycles[q]]

\* sync for the qubits in S.
Sync(S) ==
  /\ cliffstate' = [q \in Qubits |-> IF q \in S THEN 0 ELSE cliffstate[q]]
  /\ cliffcycles' = ClearedCycles(S)
  /\ total_saved' = (total_saved + MapThenSumSet(Saved, S)) % UIntSize

Init ==
  /\ input = [q \in Qubits |-> NoTime]
  /\ output = [q \in Qubits |-> NoTime]
  /\ cliffstate = [q \in Qubits |-> 0]
  /\ cliffcycles = [q \in Qubits |-> 0]
  /\ total_saved = 0
  /\ taken = 0
  /\ finished = FALSE

\* A single-qubit Clifford gate is held back.
Accumulate(g) ==
  /\ Accumulates(g)
  /\ LET q == g.operands[1]
         cs == gate2cs(g.name)
     IN /\ cliffcycles' = [cliffcycles EXCEPT ![q] = @ + Cycles(g)]
        /\ cliffstate' = [cliffstate EXCEPT ![q] = Transition(@, cs)]
  /\ UNCHANGED <<output, total_saved>>

\* Any other gate is put out after the states of the qubits it may affect.
PassOn(g) ==
  /\ ~Accumulates(g)
  /\ Sync(Synced(g))
  /\ output' = [q \in Qubits |->
                  LET t == IF q \in Synced(g) THEN Flushed(q) ELSE output[q]
                  IN IF q \in Affected(g) THEN Interrupted(t, g, taken + 1) ELSE t]

\* The end of the kernel.
Finish ==
  /\ ~finished
  /\ finished' = TRUE
  /\ Sync(Qubits)
  /\ output' = [q \in Qubits |-> Flushed(q)]
  /\ UNCHANGED <<input, taken>>

Next ==
  \/ \E g \in Gates :
       /\ ~finished
       /\ taken < MaxGates
       /\ taken' = taken + 1
       /\ finished' = finished
       /\ input' = [q \in Qubits |-> IF q \in Affected(g) THEN After(input[q], g, taken + 1) ELSE input[q]]
       /\ Accumulate(g) \/ PassOn(g)
  \/ Finish

Spec == Init /\ [][Next]_vars

------------------------------------------------------------------------------
(* Properties *)

\* optimize_kernel preserves the kernel: on every qubit the same gates come
\* in the same order with the same rotation before each of them, and what has
\* not been put out yet is what the accumulated state stands for
\* (clifford.cc:178-202).
EffectKept ==
  \A q \in Qubits :
    /\ Len(output[q].log) = Len(input[q].log)
    /\ \A i \in DOMAIN input[q].log :
         /\ output[q].log[i].gate = input[q].log[i].gate
         /\ output[q].log[i].number = input[q].log[i].number
         /\ output[q].log[i].rotation = input[q].log[i].rotation
    /\ Then(output[q].rotation, Rotation[cliffstate[q]]) = input[q].rotation

\* Between two gates that interrupt a qubit the optimizer leaves no more gates
\* than any sequence of half and quarter turns about x and y needs for the
\* same rotation: accumulated gates are never put out in pieces
\* (clifford.cc:192-202).
ShortestSequences ==
  \A q \in Qubits :
    /\ \A i \in DOMAIN output[q].log :
         output[q].log[i].cycles = Shortest[output[q].log[i].rotation]
    /\ finished => output[q].cycles = Shortest[output[q].rotation]

\* The cycles of the runs of rotations that a timeline has closed.
ClosedCycles(t) == FoldLeft(LAMBDA n, e : n + e.cycles, 0, t.log) + (IF finished THEN t.cycles ELSE 0)

AsSigned(n) == IF n < UIntSize \div 2 THEN n ELSE n - UIntSize

\* The number of saved cycles that the pass reports, read as a signed number,
\* never exceeds the cycles by which it has shortened the kernel: cycles of
\* one sequence are not counted again for a later one (clifford.cc:40-48).
SavingsNotOverstated ==
  AsSigned(total_saved) <=
    MapThenSumSet(LAMBDA q : ClosedCycles(input[q]) - ClosedCycles(output[q]), Qubits)
==============================================================================
