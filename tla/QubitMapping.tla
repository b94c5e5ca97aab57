----------------------------- MODULE QubitMapping ---------------------------
(***************************************************************************)
(* com/map/qubit_mapping.cc: where each virtual qubit is and what is known *)
(* of the state of each real qubit.  A mapping is a record: real (virtual  *)
(* -> real qubit or UNDEFINED_QUBIT) and state (real -> "none",            *)
(* "initialized" (in |0>) or "live").                                      *)
(***************************************************************************)
EXTENDS Integers, FiniteSets

CONSTANTS Qubits, UNDEFINED_QUBIT

\* resize() of an empty mapping.
NewMapping(one_to_one, state) ==
  [real  |-> [v \in Qubits |-> IF one_to_one THEN v ELSE UNDEFINED_QUBIT],
   state |-> [r \in Qubits |-> state]]

\* get_virtual(): the first virtual qubit mapped to r.
VirtualsAt(m, r) == {v \in Qubits : m.real[v] = r}

GetVirtual(m, r) ==
  IF VirtualsAt(m, r) = {} THEN UNDEFINED_QUBIT
  ELSE CHOOSE v \in VirtualsAt(m, r) : \A w \in VirtualsAt(m, r) : v <= w

SetState(m, r, s) == [m EXCEPT !.state[r] = s]

\* The assertions of swap().
SwapAsserts(m, r0, r1) ==
  /\ r0 # r1
  /\ GetVirtual(m, r0) # GetVirtual(m, r1)
  /\ \A r \in {r0, r1} : GetVirtual(m, r) = UNDEFINED_QUBIT => m.state[r] # "live"

\* Mutant: the states of the qubits stay where they are.
SwapMapping(m, r0, r1) ==
  [m EXCEPT !.real = [v \in Qubits |-> IF v = GetVirtual(m, r0) THEN r1
                                       ELSE IF v = GetVirtual(m, r1) THEN r0 ELSE m.real[v]]]

Swap(m, r0, r1) ==
  [real  |-> [v \in Qubits |-> IF v = GetVirtual(m, r0) THEN r1
                               ELSE IF v = GetVirtual(m, r1) THEN r0 ELSE m.real[v]],
   state |-> [m.state EXCEPT ![r0] = m.state[r1], ![r1] = m.state[r0]]]

=============================================================================
