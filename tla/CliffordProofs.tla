--------------------------- MODULE CliffordProofs ---------------------------
(***************************************************************************)
(* The Clifford optimizer preserves every kernel, makes it as short as it   *)
(* can and does not overstate what it saves: for any number of qubits, any  *)
(* gates whose state gate2cs gets right and a kernel of any length.         *)
(***************************************************************************)
EXTENDS CliffordOptimizer, FiniteSetTheorems, WellFoundedInduction, TLAPS

Rotations == {Rotation[cs] : cs \in States}
Entry == [rotation : Rotations, cycles : Nat, gate : Gates, number : Nat]
Timeline == [log : Seq(Entry), rotation : Rotations, cycles : Nat]

\* Two timelines are interrupted by the same gates, after the same rotations.
SameLog(s, t) ==
  /\ Len(s.log) = Len(t.log)
  /\ \A i \in DOMAIN t.log :
       /\ s.log[i].gate = t.log[i].gate
       /\ s.log[i].number = t.log[i].number
       /\ s.log[i].rotation = t.log[i].rotation

Types ==
  /\ input \in [Qubits -> Timeline]
  /\ output \in [Qubits -> Timeline]
  /\ cliffstate \in [Qubits -> States]
  /\ finished \in BOOLEAN
  /\ taken \in Nat

\* Before the end, what a qubit has gone through since the last gate that was
\* passed on is what its state stands for, and none of it has been put out.
KeptOn(q) ==
  /\ SameLog(output[q], input[q])
  /\ ~finished => output[q].rotation = Identity /\ input[q].rotation = Rotation[cliffstate[q]]
  /\ finished => output[q].rotation = input[q].rotation /\ cliffstate[q] = 0

KeptInv == Types /\ \A q \in Qubits : KeptOn(q)

\* What has been put out for a qubit is as short as can be; before the end,
\* nothing has been put out since the last gate that was passed on.
ShortOn(q) ==
  /\ \A i \in DOMAIN output[q].log : output[q].log[i].cycles = Shortest[output[q].log[i].rotation]
  /\ ~finished => output[q].cycles = 0
  /\ finished => output[q].cycles = Shortest[output[q].rotation]

ShortInv == \A q \in Qubits : ShortOn(q)

-----------------------------------------------------------------------------
(* Timelines *)

\* The duration of what is put out for a state is a number of cycles.
LEMMA CyclesOfState == \A cs \in States : cs2cycles[cs + 1] \in Nat
<1>1. \A i \in 1 .. 24 : cs2cycles[i] \in Nat
  BY DEF cs2cycles
<1> QED BY <1>1 DEF States

\* The identity is the rotation of state 0, and rotations compose.
LEMMA RotationsCompose ==
  /\ Identity \in Rotations
  /\ \A r \in Rotations : Then(Identity, r) = r /\ Then(r, Identity) = r
  /\ \A r, s \in Rotations : Then(r, s) \in Rotations
<1>1. Identity \in Rotations
  <2>1. 0 \in States
    BY DEF States
  <2> QED BY <2>1, TableAssumption DEF Rotations
<1>2. ASSUME NEW r \in Rotations PROVE Then(Identity, r) = r /\ Then(r, Identity) = r
  <2>1. PICK a \in States : r = Rotation[a]
    BY DEF Rotations
  <2> QED BY <2>1, TableAssumption
<1>3. ASSUME NEW r \in Rotations, NEW s \in Rotations PROVE Then(r, s) \in Rotations
  <2>1. PICK a \in States, b \in States : r = Rotation[a] /\ s = Rotation[b]
    BY DEF Rotations
  <2>2. Transition(a, b) \in States /\ Rotation[Transition(a, b)] = Then(r, s)
    BY <2>1, TableAssumption
  <2> QED BY <2>2 DEF Rotations
<1> QED BY <1>1, <1>2, <1>3

\* A timeline that goes on with a rotation keeps its gates.
LEMMA TurnedTimeline ==
  ASSUME NEW t \in Timeline, NEW r \in Rotations, NEW c \in Nat
  PROVE  /\ Turned(t, r, c) \in Timeline
         /\ Turned(t, r, c).log = t.log
         /\ Turned(t, r, c).rotation = Then(t.rotation, r)
<1>1. Then(t.rotation, r) \in Rotations
  BY RotationsCompose DEF Timeline
<1>2. t.cycles + c \in Nat
  BY DEF Timeline
<1>3. t.log \in Seq(Entry)
  BY DEF Timeline
<1> QED BY <1>1, <1>2, <1>3 DEF Turned, Timeline

\* A timeline that is interrupted starts over with the identity.
LEMMA InterruptedTimeline ==
  ASSUME NEW t \in Timeline, NEW g \in Gates, NEW n \in Nat
  PROVE  /\ Interrupted(t, g, n) \in Timeline
         /\ Interrupted(t, g, n).rotation = Identity
         /\ Interrupted(t, g, n).log =
              Append(t.log, [rotation |-> t.rotation, cycles |-> t.cycles, gate |-> g, number |-> n])
<1> DEFINE e == [rotation |-> t.rotation, cycles |-> t.cycles, gate |-> g, number |-> n]
<1>1. e \in Entry
  BY DEF Timeline, Entry
<1>2. t.log \in Seq(Entry)
  BY DEF Timeline
<1>3. Append(t.log, e) \in Seq(Entry)
  BY <1>1, <1>2
<1> QED BY <1>3, RotationsCompose DEF Interrupted, Timeline

\* The same gate after the same rotation keeps two timelines the same.
LEMMA InterruptedAlike ==
  ASSUME NEW s \in Timeline, NEW t \in Timeline, NEW g \in Gates, NEW n \in Nat,
         SameLog(s, t), s.rotation = t.rotation
  PROVE  SameLog(Interrupted(s, g, n), Interrupted(t, g, n))
<1> DEFINE d == [rotation |-> s.rotation, cycles |-> s.cycles, gate |-> g, number |-> n]
           e == [rotation |-> t.rotation, cycles |-> t.cycles, gate |-> g, number |-> n]
<1>1. s.log \in Seq(Entry) /\ t.log \in Seq(Entry) /\ d \in Entry /\ e \in Entry
  BY DEF Timeline, Entry
<1>2. d.gate = e.gate /\ d.number = e.number /\ d.rotation = e.rotation
  OBVIOUS
<1>3. Interrupted(s, g, n).log = Append(s.log, d) /\ Interrupted(t, g, n).log = Append(t.log, e)
  BY InterruptedTimeline
<1> HIDE DEF d, e
<1>4. Len(Append(s.log, d)) = Len(Append(t.log, e))
  BY <1>1 DEF SameLog
<1>5. ASSUME NEW i \in DOMAIN Append(t.log, e)
      PROVE  /\ Append(s.log, d)[i].gate = Append(t.log, e)[i].gate
             /\ Append(s.log, d)[i].number = Append(t.log, e)[i].number
             /\ Append(s.log, d)[i].rotation = Append(t.log, e)[i].rotation
  <2>1. i \in 1 .. Len(t.log) + 1 /\ Len(s.log) = Len(t.log)
    BY <1>1 DEF SameLog
  <2>2. CASE i = Len(t.log) + 1
    <3>1. Append(s.log, d)[i] = d /\ Append(t.log, e)[i] = e
      BY <1>1, <2>1, <2>2
    <3> QED BY <3>1, <1>2
  <2>3. CASE i \in 1 .. Len(t.log)
    <3>1. Append(s.log, d)[i] = s.log[i] /\ Append(t.log, e)[i] = t.log[i] /\ i \in DOMAIN t.log
      BY <1>1, <2>1, <2>3
    <3> QED BY <3>1 DEF SameLog
  <2> QED BY <2>1, <2>2, <2>3
<1> QED BY <1>3, <1>4, <1>5 DEF SameLog

-----------------------------------------------------------------------------
(* The scan *)

\* A gate that is held back affects one qubit, and is known by its name.
LEMMA HeldBack ==
  ASSUME NEW g \in Gates, Accumulates(g)
  PROVE  /\ g.operands[1] \in Qubits
         /\ Affected(g) = {g.operands[1]}
         /\ gate2cs(g.name) \in States
         /\ Meaning(g.name) = Rotation[gate2cs(g.name)]
         /\ Cycles(g) \in Nat
         /\ \A t, n : After(t, g, n) = Turned(t, Meaning(g.name), Cycles(g))
<1>1. g.operands \in Seq(Qubits) /\ Len(g.operands) = 1 /\ g.duration \in Nat
  BY OperandsAssumption DEF Accumulates
<1>2. g.operands[1] \in Qubits /\ g.operands # <<>>
  <2>1. \A s \in Seq(Qubits) : Len(s) = 1 => s[1] \in Qubits /\ s # <<>>
    OBVIOUS
  <2> QED BY <1>1, <2>1
<1>3. ToSet(g.operands) = {g.operands[1]}
  BY <1>1 DEF ToSet
<1>4. Affected(g) = {g.operands[1]}
  BY <1>2, <1>3 DEF Affected, Accumulates
<1>5. Cycles(g) \in Nat
  BY <1>1, CliffordAssumption DEF Cycles
<1>6. \A t, n : After(t, g, n) = Turned(t, Meaning(g.name), Cycles(g))
  BY DEF After, Accumulates
<1> QED BY <1>2, <1>4, <1>5, <1>6, GatesAssumption DEF Accumulates

\* What has been put out for a qubit, with what its state stands for.
LEMMA FlushedTimeline ==
  ASSUME KeptInv, ~finished, NEW q \in Qubits
  PROVE  /\ Flushed(q) \in Timeline
         /\ Flushed(q).rotation = input[q].rotation
         /\ SameLog(Flushed(q), input[q])
<1>1. /\ output[q] \in Timeline /\ cliffstate[q] \in States /\ SameLog(output[q], input[q])
      /\ output[q].rotation = Identity /\ input[q].rotation = Rotation[cliffstate[q]]
  BY DEF KeptInv, Types, KeptOn
<1>2. Rotation[cliffstate[q]] \in Rotations
  BY <1>1 DEF Rotations
<1>3. CASE cliffstate[q] = 0
  BY <1>1, <1>3, TableAssumption DEF Flushed
<1>4. CASE cliffstate[q] # 0
  <2>1. Flushed(q) = Turned(output[q], Rotation[cliffstate[q]], cs2cycles[cliffstate[q] + 1])
    BY <1>4 DEF Flushed
  <2>2. cs2cycles[cliffstate[q] + 1] \in Nat
    BY <1>1, CyclesOfState
  <2>3. /\ Flushed(q) \in Timeline /\ Flushed(q).log = output[q].log
        /\ Flushed(q).rotation = Then(Identity, Rotation[cliffstate[q]])
    BY <1>1, <1>2, <2>1, <2>2, TurnedTimeline
  <2> QED BY <1>1, <1>2, <2>3, RotationsCompose DEF SameLog
<1> QED BY <1>3, <1>4

\* A gate that is held back changes what the qubit has gone through and what
\* its state stands for alike.
LEMMA AccumulateKeeps ==
  ASSUME KeptInv, ~finished, NEW g \in Gates, finished' = finished, taken' = taken + 1,
         input' = [q \in Qubits |-> IF q \in Affected(g) THEN After(input[q], g, taken + 1) ELSE input[q]],
         Accumulate(g)
  PROVE  KeptInv'
<1> DEFINE o == g.operands[1]
           cs == gate2cs(g.name)
<1>1. /\ o \in Qubits /\ Affected(g) = {o} /\ cs \in States /\ Meaning(g.name) = Rotation[cs]
      /\ Cycles(g) \in Nat /\ After(input[o], g, taken + 1) = Turned(input[o], Meaning(g.name), Cycles(g))
  BY HeldBack DEF Accumulate
<1>2. /\ cliffstate' = [cliffstate EXCEPT ![o] = Transition(@, cs)]
      /\ output' = output
  BY DEF Accumulate
<1> HIDE DEF o, cs
<1>3. Types
  BY DEF KeptInv
<1>4. Rotation[cs] \in Rotations
  BY <1>1 DEF Rotations
<1>5. /\ Turned(input[o], Rotation[cs], Cycles(g)) \in Timeline
      /\ Turned(input[o], Rotation[cs], Cycles(g)).log = input[o].log
      /\ Turned(input[o], Rotation[cs], Cycles(g)).rotation = Then(input[o].rotation, Rotation[cs])
  BY <1>1, <1>3, <1>4, TurnedTimeline DEF Types
<1>6. Transition(cliffstate[o], cs) \in States
  BY <1>1, <1>3, TableAssumption DEF Types
<1>7. input' = [input EXCEPT ![o] = Turned(input[o], Rotation[cs], Cycles(g))]
  BY <1>1, <1>3 DEF Types
<1>8. Types'
  BY <1>1, <1>2, <1>3, <1>5, <1>6, <1>7 DEF Types
<1>9. ASSUME NEW q \in Qubits PROVE KeptOn(q)'
  <2>1. KeptOn(q)
    BY DEF KeptInv
  <2>2. CASE q = o
    <3>1. input'[q].rotation = Then(Rotation[cliffstate[o]], Rotation[cs])
      BY <1>3, <1>5, <1>7, <2>1, <2>2 DEF KeptOn, Types
    <3>2. input'[q].rotation = Rotation[cliffstate'[q]]
      BY <1>1, <1>2, <1>3, <2>2, <3>1, TableAssumption DEF Types
    <3>3. SameLog(output[q], input'[q])
      BY <1>3, <1>5, <1>7, <2>1, <2>2 DEF KeptOn, SameLog, Types
    <3> QED BY <1>2, <2>1, <3>2, <3>3 DEF KeptOn
  <2>3. CASE q # o
    BY <1>2, <1>3, <1>7, <2>1, <2>3 DEF KeptOn, Types
  <2> QED BY <2>2, <2>3
<1> QED BY <1>8, <1>9 DEF KeptInv

\* Any other gate interrupts a qubit after everything held back for it.
LEMMA PassOnKeeps ==
  ASSUME KeptInv, ~finished, NEW g \in Gates, finished' = finished, taken' = taken + 1,
         input' = [q \in Qubits |-> IF q \in Affected(g) THEN After(input[q], g, taken + 1) ELSE input[q]],
         PassOn(g)
  PROVE  KeptInv'
<1>1. /\ ~Accumulates(g)
      /\ cliffstate' = [q \in Qubits |-> IF q \in Affected(g) THEN 0 ELSE cliffstate[q]]
      /\ output' = [q \in Qubits |-> IF q \in Affected(g) THEN Interrupted(Flushed(q), g, taken + 1) ELSE output[q]]
  BY DEF PassOn, Sync, Synced
<1>2. \A q : After(input[q], g, taken + 1) = Interrupted(input[q], g, taken + 1)
  BY <1>1 DEF After, Accumulates
<1>3. input' = [q \in Qubits |-> IF q \in Affected(g) THEN Interrupted(input[q], g, taken + 1) ELSE input[q]]
  BY <1>2
<1>4. Types /\ taken + 1 \in Nat
  BY DEF KeptInv, Types
<1>5. ASSUME NEW q \in Qubits
      PROVE  /\ Interrupted(input[q], g, taken + 1) \in Timeline
             /\ Interrupted(Flushed(q), g, taken + 1) \in Timeline
             /\ Interrupted(input[q], g, taken + 1).rotation = Identity
             /\ Interrupted(Flushed(q), g, taken + 1).rotation = Identity
             /\ SameLog(Interrupted(Flushed(q), g, taken + 1), Interrupted(input[q], g, taken + 1))
  BY <1>4, FlushedTimeline, InterruptedTimeline, InterruptedAlike DEF Types
<1>6. Types'
  BY <1>1, <1>3, <1>4, <1>5 DEF Types, States
<1>7. ASSUME NEW q \in Qubits PROVE KeptOn(q)'
  <2>1. KeptOn(q)
    BY DEF KeptInv
  <2>2. CASE q \in Affected(g)
    BY <1>1, <1>3, <1>5, <2>2, TableAssumption DEF KeptOn
  <2>3. CASE q \notin Affected(g)
    BY <1>1, <1>3, <2>1, <2>3 DEF KeptOn
  <2> QED BY <2>2, <2>3
<1> QED BY <1>6, <1>7 DEF KeptInv

\* At the end everything held back is put out.
LEMMA FinishKeeps == KeptInv /\ Finish => KeptInv'
<1> SUFFICES ASSUME KeptInv, Finish PROVE KeptInv'
  OBVIOUS
<1>1. /\ ~finished /\ finished' = TRUE /\ input' = input /\ taken' = taken
      /\ cliffstate' = [q \in Qubits |-> 0]
      /\ output' = [q \in Qubits |-> Flushed(q)]
  BY DEF Finish, Sync
<1>2. Types'
  BY <1>1, FlushedTimeline DEF KeptInv, Types, States
<1>3. ASSUME NEW q \in Qubits PROVE KeptOn(q)'
  BY <1>1, FlushedTimeline DEF KeptOn
<1> QED BY <1>2, <1>3 DEF KeptInv

\* Nothing has been taken, held back or put out at the start.
LEMMA InitKept == Init => KeptInv
<1> SUFFICES ASSUME Init PROVE KeptInv
  OBVIOUS
<1>1. NoTime \in Timeline /\ NoTime.rotation = Identity /\ NoTime.log = <<>>
  BY RotationsCompose DEF NoTime, Timeline
<1>2. Types
  <2>1. 0 \in States /\ 0 \in Nat
    BY DEF States
  <2> QED BY <1>1, <2>1 DEF Init, Types
<1>3. SameLog(NoTime, NoTime)
  BY DEF SameLog
<1>4. ASSUME NEW q \in Qubits PROVE KeptOn(q)
  BY <1>1, <1>3, TableAssumption DEF Init, KeptOn
<1> QED BY <1>2, <1>4 DEF KeptInv

\* Every step keeps the circuit and its optimized form alike.
LEMMA KeptInductive == KeptInv /\ [Next]_vars => KeptInv'
<1> SUFFICES ASSUME KeptInv, [Next]_vars PROVE KeptInv'
  OBVIOUS
<1>1. ASSUME NEW g \in Gates, ~finished, taken' = taken + 1, finished' = finished,
             input' = [q \in Qubits |-> IF q \in Affected(g) THEN After(input[q], g, taken + 1) ELSE input[q]],
             Accumulate(g) \/ PassOn(g)
      PROVE  KeptInv'
  BY <1>1, AccumulateKeeps, PassOnKeeps
<1>2. CASE Finish
  BY <1>2, FinishKeeps
<1>3. CASE UNCHANGED vars
  BY <1>3 DEF KeptInv, Types, KeptOn, vars
<1> QED BY <1>1, <1>2, <1>3 DEF Next

\* The optimized kernel does to every qubit what the kernel does: the same gates
\* in the same order, after the same rotations (clifford.cc:178-202).
THEOREM OptimizerKeepsEffect == Spec => []EffectKept
<1>1. KeptInv => EffectKept
  <2> SUFFICES ASSUME KeptInv, NEW q \in Qubits
               PROVE  Then(output[q].rotation, Rotation[cliffstate[q]]) = input[q].rotation
    BY DEF KeptInv, KeptOn, SameLog, EffectKept
  <2>1. /\ KeptOn(q) /\ input[q].rotation \in Rotations /\ finished \in BOOLEAN
        /\ Rotation[cliffstate[q]] \in Rotations
    BY DEF KeptInv, Types, Timeline, Rotations
  <2> QED BY <2>1, RotationsCompose, TableAssumption DEF KeptOn
<1> QED BY <1>1, InitKept, KeptInductive, PTL DEF Spec

-----------------------------------------------------------------------------
(* The length of what is put out *)

\* The sequence put out for a state is as short as can be.
LEMMA FlushedShort ==
  ASSUME KeptInv, ShortInv, ~finished, NEW q \in Qubits
  PROVE  /\ Flushed(q).log = output[q].log
         /\ Flushed(q).cycles = Shortest[Flushed(q).rotation]
<1>1. /\ output[q] \in Timeline /\ cliffstate[q] \in States
      /\ output[q].rotation = Identity /\ output[q].cycles = 0
  BY DEF KeptInv, Types, KeptOn, ShortInv, ShortOn
<1>2. cs2cycles[cliffstate[q] + 1] = Shortest[Rotation[cliffstate[q]]]
  BY <1>1, LengthAssumption
<1>3. CASE cliffstate[q] = 0
  <2>1. Shortest[Identity] = 0
    BY <1>2, <1>3, TableAssumption DEF cs2cycles
  <2> QED BY <1>1, <1>3, <2>1 DEF Flushed
<1>4. CASE cliffstate[q] # 0
  <2>1. Flushed(q) = Turned(output[q], Rotation[cliffstate[q]], cs2cycles[cliffstate[q] + 1])
    BY <1>4 DEF Flushed
  <2>2. Then(Identity, Rotation[cliffstate[q]]) = Rotation[cliffstate[q]]
    BY <1>1, TableAssumption
  <2>3. cs2cycles[cliffstate[q] + 1] \in Nat
    BY <1>1, CyclesOfState
  <2> QED BY <1>1, <1>2, <2>1, <2>2, <2>3 DEF Turned
<1> QED BY <1>3, <1>4

\* A gate that is passed on closes a sequence that is as short as can be.
LEMMA PassOnShort ==
  ASSUME KeptInv, ShortInv, ~finished, NEW g \in Gates, finished' = finished, PassOn(g)
  PROVE  ShortInv'
<1>1. output' = [q \in Qubits |-> IF q \in Affected(g) THEN Interrupted(Flushed(q), g, taken + 1) ELSE output[q]]
  BY DEF PassOn, Synced
<1> SUFFICES ASSUME NEW q \in Qubits PROVE ShortOn(q)'
  BY DEF ShortInv
<1>2. ShortOn(q)
  BY DEF ShortInv
<1>3. CASE q \notin Affected(g)
  BY <1>1, <1>2, <1>3 DEF ShortOn
<1>4. CASE q \in Affected(g)
  <2> DEFINE t == Flushed(q)
             e == [rotation |-> t.rotation, cycles |-> t.cycles, gate |-> g, number |-> taken + 1]
  <2>1. t \in Timeline /\ t.log = output[q].log /\ t.cycles = Shortest[t.rotation]
    BY FlushedTimeline, FlushedShort
  <2>2. taken + 1 \in Nat
    BY DEF KeptInv, Types
  <2>3. t.log \in Seq(Entry) /\ e \in Entry /\ e.cycles = Shortest[e.rotation]
    BY <2>1, <2>2 DEF Timeline, Entry
  <2>4. output'[q] = Interrupted(t, g, taken + 1)
    BY <1>1, <1>4
  <2>5. output'[q].log = Append(t.log, e) /\ output'[q].cycles = 0
    BY <2>4 DEF Interrupted
  <2>6. \A i \in DOMAIN t.log : t.log[i].cycles = Shortest[t.log[i].rotation]
    BY <1>2, <2>1 DEF ShortOn
  <2> HIDE DEF t, e
  <2>7. ASSUME NEW i \in DOMAIN Append(t.log, e)
        PROVE  Append(t.log, e)[i].cycles = Shortest[Append(t.log, e)[i].rotation]
    <3>1. i \in 1 .. Len(t.log) + 1
      BY <2>3
    <3>2. CASE i = Len(t.log) + 1
      <4>1. Append(t.log, e)[i] = e
        BY <2>3, <3>1, <3>2
      <4> QED BY <4>1, <2>3
    <3>3. CASE i \in 1 .. Len(t.log)
      <4>1. Append(t.log, e)[i] = t.log[i] /\ i \in DOMAIN t.log
        BY <2>3, <3>1, <3>3
      <4> QED BY <4>1, <2>6
    <3> QED BY <3>1, <3>2, <3>3
  <2> QED BY <2>5, <2>7 DEF ShortOn
<1> QED BY <1>3, <1>4

\* Every step keeps what has been put out as short as can be.
LEMMA ShortInductive == KeptInv /\ ShortInv /\ [Next]_vars => ShortInv'
<1> SUFFICES ASSUME KeptInv, ShortInv, [Next]_vars PROVE ShortInv'
  OBVIOUS
<1>1. ASSUME NEW g \in Gates, finished' = finished, Accumulate(g) PROVE ShortInv'
  BY <1>1 DEF Accumulate, ShortInv, ShortOn
<1>2. ASSUME NEW g \in Gates, ~finished, finished' = finished, PassOn(g) PROVE ShortInv'
  BY <1>2, PassOnShort
<1>3. CASE Finish
  <2> SUFFICES ASSUME NEW q \in Qubits PROVE ShortOn(q)'
    BY DEF ShortInv
  <2>1. ~finished /\ finished' = TRUE /\ output'[q] = Flushed(q)
    BY <1>3 DEF Finish
  <2>2. ShortOn(q) /\ Flushed(q).log = output[q].log /\ Flushed(q).cycles = Shortest[Flushed(q).rotation]
    BY <2>1, FlushedShort DEF ShortInv
  <2> QED BY <2>1, <2>2 DEF ShortOn
<1>4. CASE UNCHANGED vars
  BY <1>4 DEF ShortInv, ShortOn, vars
<1> QED BY <1>1, <1>2, <1>3, <1>4 DEF Next

\* Nothing has been put out at the start.
LEMMA InitShort == Init => ShortInv
<1> SUFFICES ASSUME Init, NEW q \in Qubits PROVE ShortOn(q)
  BY DEF ShortInv
<1>1. output[q].log = <<>> /\ output[q].cycles = 0 /\ ~finished
  BY DEF Init, NoTime
<1> QED BY <1>1 DEF ShortOn

\* No sequence that the optimizer leaves between two gates that interrupt a
\* qubit can be made shorter (clifford.cc:192-202).
THEOREM OptimizedShortest == Spec => []ShortestSequences
<1>1. KeptInv /\ ShortInv => ShortestSequences
  BY DEF ShortInv, ShortOn, ShortestSequences
<1> QED BY <1>1, InitShort, InitKept, KeptInductive, ShortInductive, PTL DEF Spec

-----------------------------------------------------------------------------
(* Sums over finite sets *)

\* The sums of f over the subsets of S: taking an element out, whichever it is,
\* takes its value off.
Sums(it, f, S) ==
  /\ it[{}] = 0
  /\ \A s \in SUBSET S : it[s] \in Int /\ \A x \in s : it[s] = f[x] + it[s \ {x}]

Total(f, S) == (CHOOSE it : Sums(it, f, S))[S]

\* What the recursive function of a fold computes that takes the element c[s] out of s.
Folding(it, f, c, S) ==
  it = [s \in SUBSET S |-> IF s = {} THEN 0 ELSE f[c[s]] + it[s \ {c[s]}]]

\* A set of subsets of a finite set has one that contains no other.
LEMMA SmallestSubset ==
  ASSUME NEW S, IsFiniteSet(S), NEW B, B \subseteq SUBSET S, B # {}
  PROVE  \E s \in B : \A t \in SUBSET s : t # s => t \notin B
<1>1. IsWellFoundedOn(StrictSubsetOrdering(S), SUBSET S)
  BY FS_StrictSubsetOrderingWellFounded, FS_FiniteSubsetsOfFinite, Zenon
<1>2. PICK s \in B : \A t \in B : <<t, s>> \notin StrictSubsetOrdering(S)
  BY <1>1, WFMin, Zenon
<1>3. ASSUME NEW t \in SUBSET s, t # s, t \in B PROVE FALSE
  BY <1>2, <1>3 DEF StrictSubsetOrdering
<1> QED BY <1>3

\* The order in which a fold takes the elements out does not matter.
LEMMA FoldSums ==
  ASSUME NEW S, IsFiniteSet(S), NEW f, \A x \in S : f[x] \in Int,
         NEW c, \A s \in SUBSET S : s # {} => c[s] \in s,
         NEW it, it[{}] = 0,
         \A s \in SUBSET S : s # {} => \/ it[s] = f[c[s]] + it[s \ {c[s]}]
                                      \/ it[s] = it[s \ {c[s]}] + f[c[s]]
  PROVE  Sums(it, f, S)
<1> DEFINE Good(s) == it[s] \in Int /\ \A x \in s : it[s] = f[x] + it[s \ {x}]
           B == {s \in SUBSET S : ~Good(s)}
<1>1. it[{}] = 0
  OBVIOUS
<1>2. ASSUME NEW s \in B, \A t \in SUBSET s : t # s => t \notin B PROVE FALSE
  <2>1. s \in SUBSET S /\ ~Good(s)
    OBVIOUS
  <2>2. \A t \in SUBSET s : t # s => Good(t)
    BY <1>2
  <2>3. s # {}
    <3>1. Good({})
      BY <1>1
    <3> HIDE DEF Good
    <3> QED BY <2>1, <3>1
  <2> DEFINE y == c[s]
  <2>4. /\ y \in s /\ y \in S /\ f[y] \in Int
        /\ it[s] = f[y] + it[s \ {y}] \/ it[s] = it[s \ {y}] + f[y]
    BY <2>1, <2>3
  <2> HIDE DEF y
  <2>5. Good(s \ {y}) /\ it[s] = f[y] + it[s \ {y}]
    <3>1. s \ {y} \in SUBSET s /\ s \ {y} # s
      BY <2>4
    <3>2. Good(s \ {y})
      <4> HIDE DEF Good
      <4> QED BY <2>2, <3>1
    <3>3. it[s \ {y}] \in Int
      BY <3>2
    <3>4. it[s] = f[y] + it[s \ {y}]
      BY <2>4, <3>3
    <3> HIDE DEF Good
    <3> QED BY <3>2, <3>4
  <2>6. ASSUME NEW x \in s PROVE it[s] = f[x] + it[s \ {x}]
    <3>1. CASE x = y
      BY <2>5, <3>1
    <3>2. CASE x # y
      <4>1. /\ Good(s \ {x}) /\ x \in s \ {y} /\ y \in s \ {x} /\ f[x] \in Int
            /\ (s \ {x}) \ {y} = (s \ {y}) \ {x}
        BY <2>1, <2>2, <2>4, <3>2
      <4>2. Good((s \ {x}) \ {y})
        BY <2>2, <2>4, <3>2
      <4>3. /\ it[s \ {y}] = f[x] + it[(s \ {y}) \ {x}]
            /\ it[s \ {x}] = f[y] + it[(s \ {x}) \ {y}]
        BY <2>5, <4>1
      <4> DEFINE d == it[(s \ {y}) \ {x}]
      <4>4. d \in Int /\ it[(s \ {x}) \ {y}] = d
        BY <4>1, <4>2
      <4> HIDE DEF d
      <4>5. it[s \ {y}] = f[x] + d /\ it[s \ {x}] = f[y] + d
        BY <4>3, <4>4
      <4> HIDE DEF Good
      <4> QED BY <2>4, <2>5, <4>1, <4>4, <4>5
    <3> QED BY <3>1, <3>2
  <2>7. it[s] \in Int
    BY <2>4, <2>5
  <2> QED BY <2>1, <2>6, <2>7
<1> HIDE DEF Good
<1>3. B = {}
  <2>1. B \subseteq SUBSET S
    OBVIOUS
  <2> HIDE DEF B
  <2>2. B # {} => \E s \in B : \A t \in SUBSET s : t # s => t \notin B
    BY <2>1, SmallestSubset
  <2> QED BY <2>2, <1>2
<1> QED BY <1>1, <1>3 DEF Sums, Good

\* Such a fold exists.
LEMMA FoldExists ==
  ASSUME NEW S, IsFiniteSet(S), NEW f, NEW c, \A s \in SUBSET S : s # {} => c[s] \in s
  PROVE  \E it : Folding(it, f, c, S)
<1> DEFINE P(n) == {s \in SUBSET S : Cardinality(s) <= n}
           Rule(it, n) == it = [s \in P(n) |-> IF s = {} THEN 0 ELSE f[c[s]] + it[s \ {c[s]}]]
           B == {n \in Nat : ~\E it : Rule(it, n)}
<1>1. ASSUME NEW s \in SUBSET S, s # {}
      PROVE  /\ s \ {c[s]} \in SUBSET S /\ Cardinality(s) \in Nat
             /\ Cardinality(s \ {c[s]}) = Cardinality(s) - 1
  BY <1>1, FS_Subset, FS_RemoveElement, FS_CardinalityType
<1>2. ASSUME NEW n \in B, \A m \in B : <<m, n>> \notin OpToRel(<, Nat) PROVE FALSE
  <2>1. CASE n = 0
    <3> DEFINE it == [s \in P(0) |-> 0]
    <3>1. \A s \in P(0) : s = {}
      BY FS_Subset, FS_EmptySet, FS_CardinalityType
    <3>2. Rule(it, 0)
      BY <3>1
    <3> HIDE DEF Rule
    <3> QED BY <2>1, <3>2
  <2>2. CASE n # 0
    <3>1. n - 1 \in Nat /\ n - 1 < n
      BY <2>2
    <3>2. PICK old : Rule(old, n - 1)
      <4> HIDE DEF Rule
      <4> QED BY <1>2, <3>1 DEF OpToRel
    <3> DEFINE it == [s \in P(n) |-> IF s = {} THEN 0 ELSE f[c[s]] + old[s \ {c[s]}]]
    <3>3. \A s \in P(n) : s # {} => s \ {c[s]} \in P(n - 1) /\ s \ {c[s]} \in P(n)
      BY <1>1, <3>1
    <3>4. \A s \in P(n - 1) : s \in P(n)
      BY <3>1, FS_Subset, FS_CardinalityType
    <3> HIDE DEF P
    <3>5. \A s \in P(n - 1) : it[s] = old[s]
      BY <3>2, <3>4
    <3>6. Rule(it, n)
      BY <3>3, <3>5
    <3> HIDE DEF Rule, it
    <3> QED BY <3>6
  <2> QED BY <2>1, <2>2
<1>3. B = {}
  <2> HIDE DEF Rule
  <2> SUFFICES ASSUME B # {} PROVE FALSE
    OBVIOUS
  <2>1. B \subseteq Nat
    OBVIOUS
  <2> HIDE DEF B
  <2>2. \E n \in B : \A m \in B : <<m, n>> \notin OpToRel(<, Nat)
    BY <2>1, NatLessThanWellFounded, WFMin, Zenon
  <2> QED BY <2>2, <1>2
<1>4. Cardinality(S) \in Nat /\ P(Cardinality(S)) = SUBSET S
  BY FS_CardinalityType, FS_Subset
<1>5. PICK it : Rule(it, Cardinality(S))
  <2> HIDE DEF Rule, P
  <2> QED BY <1>3, <1>4
<1> QED BY <1>4, <1>5 DEF Folding

\* Over the sets that both know, sums are the same.
LEMMA SumsAgree ==
  ASSUME NEW S, IsFiniteSet(S), NEW f, NEW T, T \subseteq S,
         NEW it, Sums(it, f, S), NEW jt, Sums(jt, f, T)
  PROVE  it[T] = jt[T]
<1> DEFINE B == {s \in SUBSET T : it[s] # jt[s]}
<1>1. IsFiniteSet(T)
  BY FS_Subset
<1>2. ASSUME NEW s \in B, \A t \in SUBSET s : t # s => t \notin B PROVE FALSE
  <2>1. s # {} /\ s \in SUBSET S /\ s \in SUBSET T
    BY DEF Sums
  <2>2. PICK x \in s : TRUE
    BY <2>1
  <2>3. it[s \ {x}] = jt[s \ {x}]
    BY <1>2, <2>1
  <2> QED BY <2>1, <2>3 DEF Sums
<1>3. B = {}
  <2>1. B \subseteq SUBSET T
    OBVIOUS
  <2> HIDE DEF B
  <2>2. B # {} => \E s \in B : \A t \in SUBSET s : t # s => t \notin B
    BY <1>1, <2>1, SmallestSubset
  <2> QED BY <2>2, <1>2
<1> QED BY <1>3

\* A set has one sum, which is that of any element and of the others.
LEMMA TotalSums ==
  ASSUME NEW S, IsFiniteSet(S), NEW f, \A x \in S : f[x] \in Int
  PROVE  /\ \A it : Sums(it, f, S) => it[S] = Total(f, S)
         /\ Total(f, S) \in Int
         /\ Total(f, {}) = 0
         /\ \A x \in S : Total(f, S) = f[x] + Total(f, S \ {x})
<1>1. ASSUME NEW T \in SUBSET S PROVE \E it : Sums(it, f, T)
  <2> DEFINE c == [s \in SUBSET T |-> CHOOSE x \in s : TRUE]
  <2>1. \A s \in SUBSET T : s # {} => c[s] \in s
    OBVIOUS
  <2> HIDE DEF c
  <2>2. IsFiniteSet(T)
    BY FS_Subset
  <2>3. PICK it : Folding(it, f, c, T)
    BY <2>1, <2>2, FoldExists
  <2>4. /\ it[{}] = 0 /\ \A x \in T : f[x] \in Int
        /\ \A s \in SUBSET T : s # {} => it[s] = f[c[s]] + it[s \ {c[s]}]
    BY <2>3 DEF Folding
  <2> QED BY <2>1, <2>2, <2>4, FoldSums
<1>2. ASSUME NEW T \in SUBSET S PROVE \E it : Sums(it, f, T) /\ Total(f, T) = it[T]
  BY <1>1 DEF Total
<1>3. ASSUME NEW T \in SUBSET S, NEW it, Sums(it, f, S) PROVE it[T] = Total(f, T)
  <2>1. PICK jt : Sums(jt, f, T) /\ Total(f, T) = jt[T]
    BY <1>2
  <2> QED BY <1>3, <2>1, SumsAgree
<1>4. PICK it : Sums(it, f, S)
  BY <1>1
<1>5. \A T \in SUBSET S : it[T] = Total(f, T)
  BY <1>3, <1>4
<1>6. S \in SUBSET S /\ {} \in SUBSET S /\ \A x \in S : S \ {x} \in SUBSET S
  OBVIOUS
<1> QED BY <1>3, <1>4, <1>5, <1>6 DEF Sums

\* Sums add up, and larger elements make larger sums.
LEMMA TotalsCompare ==
  ASSUME NEW S, IsFiniteSet(S), NEW f, NEW g, NEW h, NEW k,
         \A x \in S : f[x] \in Int /\ g[x] \in Int /\ h[x] \in Int /\ k[x] \in Int
                      /\ f[x] + g[x] <= h[x] + k[x]
  PROVE  Total(f, S) + Total(g, S) <= Total(h, S) + Total(k, S)
<1> DEFINE Good(s) == Total(f, s) + Total(g, s) <= Total(h, s) + Total(k, s)
           B == {s \in SUBSET S : ~Good(s)}
<1>1. ASSUME NEW s \in B, \A t \in SUBSET s : t # s => t \notin B PROVE FALSE
  <2>1. s \in SUBSET S /\ IsFiniteSet(s)
    BY FS_Subset
  <2>2. Total(f, {}) = 0 /\ Total(g, {}) = 0 /\ Total(h, {}) = 0 /\ Total(k, {}) = 0
    BY TotalSums
  <2>3. s # {}
    <3>1. Good({})
      BY <2>2
    <3> HIDE DEF Good
    <3> QED BY <2>1, <3>1
  <2>4. PICK x \in s : TRUE
    BY <2>3
  <2>5. /\ Total(f, s) = f[x] + Total(f, s \ {x})
        /\ Total(g, s) = g[x] + Total(g, s \ {x})
        /\ Total(h, s) = h[x] + Total(h, s \ {x})
        /\ Total(k, s) = k[x] + Total(k, s \ {x})
    BY <2>1, TotalSums
  <2>6. IsFiniteSet(s \ {x}) /\ s \ {x} \in SUBSET S
    BY <2>1, FS_RemoveElement
  <2>7. /\ Total(f, s \ {x}) \in Int /\ Total(g, s \ {x}) \in Int
        /\ Total(h, s \ {x}) \in Int /\ Total(k, s \ {x}) \in Int
    BY <2>6, TotalSums
  <2>8. Good(s \ {x})
    BY <1>1, <2>4, <2>6
  <2>9. /\ f[x] \in Int /\ g[x] \in Int /\ h[x] \in Int /\ k[x] \in Int
        /\ f[x] + g[x] <= h[x] + k[x] /\ ~Good(s)
    BY <2>1
  <2> HIDE DEF B
  <2> QED BY <2>5, <2>7, <2>8, <2>9
<1>2. B = {}
  <2>1. B \subseteq SUBSET S
    OBVIOUS
  <2> HIDE DEF B
  <2>2. B # {} => \E s \in B : \A t \in SUBSET s : t # s => t \notin B
    BY <2>1, SmallestSubset
  <2> QED BY <2>2, <1>1
<1> QED BY <1>2

\* The sum over a part of a set is that over the set of what the others count for nothing.
LEMMA TotalOfPart ==
  ASSUME NEW Q, IsFiniteSet(Q), NEW S \in SUBSET Q, NEW f, \A x \in S : f[x] \in Int,
         NEW h, \A x \in Q : h[x] = IF x \in S THEN f[x] ELSE 0
  PROVE  Total(h, Q) = Total(f, S)
<1> DEFINE B == {s \in SUBSET Q : Total(h, s) # Total(f, s \cap S)}
<1>1. ASSUME NEW s \in B, \A t \in SUBSET s : t # s => t \notin B PROVE FALSE
  <2>1. s \in SUBSET Q /\ IsFiniteSet(s) /\ IsFiniteSet(s \cap S) /\ \A x \in s : h[x] \in Int
    BY FS_Subset
  <2>2. Total(h, {}) = 0 /\ Total(f, {}) = 0
    BY <2>1, FS_Subset, TotalSums
  <2>3. s # {}
    BY <2>2
  <2>4. PICK x \in s : TRUE
    BY <2>3
  <2>5. Total(h, s) = h[x] + Total(h, s \ {x})
    BY <2>1, TotalSums
  <2>6. Total(h, s \ {x}) = Total(f, (s \ {x}) \cap S)
    BY <1>1, <2>1
  <2>7. CASE x \in S
    <3>1. Total(f, s \cap S) = f[x] + Total(f, (s \cap S) \ {x})
      BY <2>1, <2>4, <2>7, TotalSums
    <3>2. (s \cap S) \ {x} = (s \ {x}) \cap S
      OBVIOUS
    <3> QED BY <2>1, <2>4, <2>5, <2>6, <2>7, <3>1, <3>2
  <2>8. CASE x \notin S
    <3>1. (s \ {x}) \cap S = s \cap S /\ h[x] = 0
      BY <2>1, <2>4, <2>8
    <3>2. Total(f, s \cap S) \in Int
      BY <2>1, TotalSums
    <3> QED BY <2>5, <2>6, <3>1, <3>2
  <2> QED BY <2>7, <2>8
<1>2. B = {}
  <2>1. B \subseteq SUBSET Q
    OBVIOUS
  <2> HIDE DEF B
  <2>2. B # {} => \E s \in B : \A t \in SUBSET s : t # s => t \notin B
    BY <2>1, SmallestSubset
  <2> QED BY <2>2, <1>1
<1>3. Q \cap S = S
  OBVIOUS
<1> QED BY <1>2, <1>3

\* Zeros add up to zero.
LEMMA TotalOfNothing ==
  ASSUME NEW Q, IsFiniteSet(Q), NEW h, \A x \in Q : h[x] = 0
  PROVE  Total(h, Q) = 0
<1>1. Total(h, Q) = Total(h, {})
  BY TotalOfPart
<1>2. \A x \in Q : h[x] \in Int
  OBVIOUS
<1> QED BY <1>1, <1>2, TotalSums

-----------------------------------------------------------------------------
(* The saved cycles *)

\* The cycles of the rotations before the gates of a timeline.
LogCycles(log) == Total([i \in DOMAIN log |-> log[i].cycles], DOMAIN log)

\* The cycles by which a qubit's timeline has become shorter.
Gained(q) ==
  LogCycles(input[q].log) - LogCycles(output[q].log)
    + (IF finished THEN input[q].cycles - output[q].cycles ELSE 0)

\* The most cycles that putting out the state of a qubit may take.
Owed(q) == IF cliffstate[q] # 0 THEN 3 ELSE 0

Gains == [q \in Qubits |-> Gained(q)]
Owes == [q \in Qubits |-> Owed(q)]

\* The saved cycles, were they not counted modulo the size of an integer.
SavedInv ==
  /\ cliffcycles \in [Qubits -> Nat]
  /\ taken <= MaxGates
  /\ ~finished => \A q \in Qubits : input[q].cycles = cliffcycles[q]
  /\ \E n \in Int : /\ total_saved = n % UIntSize
                    /\ n <= Total(Gains, Qubits)
                    /\ Total(Owes, Qubits) - 3 * taken <= n

\* A remainder may be taken before or after an addition.
LEMMA RemainderAdds ==
  ASSUME NEW n \in Int, NEW d \in Int, NEW u \in Int, u > 0
  PROVE  ((n % u) + d) % u = (n + d) % u
OBVIOUS

\* Read as a signed number, a count is not more than what it stands for, as long
\* as that is not below the smallest signed number.
LEMMA SignedBelow ==
  ASSUME NEW n \in Int, -(UIntSize - UIntSize \div 2) <= n
  PROVE  AsSigned(n % UIntSize) <= n
<1> DEFINE u == UIntSize
           m == n % u
           k == n \div u
           w == u \div 2
<1>1. u \in Nat \ {0}
  BY CliffordAssumption
<1>2. m \in 0 .. u - 1 /\ k \in Int /\ n = u * k + m
  BY <1>1
<1>3. w \in Nat /\ w <= u /\ -(u - w) <= n
  BY <1>1
<1> HIDE DEF u, m, k, w
<1>4. CASE k >= 0
  <2>1. u * k >= 0
    BY <1>1, <1>2, <1>4
  <2>2. m <= n /\ m - u <= n
    BY <1>1, <1>2, <2>1
  <2> QED BY <1>1, <1>2, <1>3, <2>2 DEF AsSigned, u, m, w
<1>5. CASE k < 0
  <2>1. k = -1
    <3> SUFFICES ASSUME k <= -2 PROVE FALSE
      BY <1>2, <1>5
    <3>1. u * k <= -2 * u
      BY <1>1, <1>2
    <3> QED BY <1>1, <1>2, <1>3, <3>1
  <2>2. n = m - u
    BY <1>1, <1>2, <2>1
  <2>3. ~(m < w)
    BY <1>1, <1>2, <1>3, <2>2
  <2> QED BY <2>2, <2>3 DEF AsSigned, u, m, w
<1> QED BY <1>2, <1>4, <1>5

\* A finite set of numbers has a largest one.
LEMMA LargestElement ==
  ASSUME NEW S \in SUBSET Int, IsFiniteSet(S), S # {}
  PROVE  \E x \in S : \A y \in S : x >= y
<1> DEFINE above(x) == {y \in S : x <= y}
           T == {above(x) : x \in S}
<1>1. T \subseteq SUBSET S /\ T # {}
  <2>1. \A x \in S : above(x) \subseteq S
    OBVIOUS
  <2> HIDE DEF above
  <2> QED BY <2>1
<1>2. PICK A \in T : \A t \in SUBSET A : t # A => t \notin T
  <2> HIDE DEF T
  <2> QED BY <1>1, SmallestSubset
<1>3. PICK x \in S : A = above(x)
  OBVIOUS
<1>4. ASSUME NEW y \in S PROVE x >= y
  <2> SUFFICES ASSUME y > x PROVE FALSE
    OBVIOUS
  <2>1. \A z \in above(y) : x <= z
    OBVIOUS
  <2>2. x \in above(x) /\ x \notin above(y)
    OBVIOUS
  <2>3. above(y) \in SUBSET A /\ above(y) # A
    BY <1>3, <2>1, <2>2
  <2> HIDE DEF above
  <2> QED BY <1>2, <2>3
<1> QED BY <1>4

\* What sync adds up is the sum of what is saved on the qubits.
LEMMA SavedTotal ==
  ASSUME NEW S \in SUBSET Qubits, \A q \in S : Saved(q) \in Int
  PROVE  MapThenSumSet(Saved, S) = Total([q \in Qubits |-> Saved(q)], S)
<1> DEFINE c == [s \in SUBSET S |-> CHOOSE x \in s : TRUE]
           f == [q \in Qubits |-> Saved(q)]
           Rule(it) == it = [s \in SUBSET S |->
                               IF s = {} THEN 0
                               ELSE Saved(CHOOSE x \in s : TRUE) + it[s \ {CHOOSE x \in s : TRUE}]]
           it == CHOOSE it : Rule(it)
<1>1. MapThenSumSet(Saved, S) = it[S]
  BY DEF MapThenSumSet, MapThenFoldSet
<1>2. IsFiniteSet(S) /\ \A x \in S : f[x] \in Int /\ f[x] = Saved(x)
  BY CliffordAssumption, FS_Subset
<1>3. \A s \in SUBSET S : s # {} => c[s] \in s /\ c[s] \in S /\ c[s] = (CHOOSE x \in s : TRUE)
  OBVIOUS
<1>4. Rule(it)
  <2> HIDE DEF f, c
  <2>1. PICK jt : Folding(jt, f, c, S)
    BY <1>2, <1>3, FoldExists
  <2>2. Rule(jt)
    BY <2>1, <1>2, <1>3 DEF Folding
  <2> HIDE DEF Rule
  <2> QED BY <2>2
<1> HIDE DEF it
<1>5. it[{}] = 0 /\ \A s \in SUBSET S : s # {} => it[s] = f[c[s]] + it[s \ {c[s]}]
  <2>1. it[{}] = 0
    BY <1>4
  <2>2. ASSUME NEW s \in SUBSET S, s # {}
        PROVE  it[s] = Saved(c[s]) + it[s \ {c[s]}]
    <3>1. it[s] = Saved(CHOOSE x \in s : TRUE) + it[s \ {CHOOSE x \in s : TRUE}]
      BY <2>2, <1>4
    <3>2. c[s] = (CHOOSE x \in s : TRUE)
      BY <2>2
    <3> QED BY <3>1, <3>2
  <2> HIDE DEF f, c
  <2> QED BY <2>1, <2>2, <1>2, <1>3
<1> HIDE DEF f, c, Rule
<1>6. Sums(it, f, S)
  BY <1>2, <1>3, <1>5, FoldSums
<1> QED BY <1>1, <1>2, <1>6, TotalSums DEF f

\* The fold over the gates of a timeline is the sum of their cycles.
LEMMA LogTotal ==
  ASSUME NEW log \in Seq(Entry)
  PROVE  FoldLeft(LAMBDA n, e : n + e.cycles, 0, log) = LogCycles(log)
<1> DEFINE S == DOMAIN log
           m(s) == CHOOSE x \in s : \A y \in s : x >= y
           c == [s \in SUBSET S |-> m(s)]
           f == [i \in S |-> log[i].cycles]
           Rule(it) == it = [s \in SUBSET S |->
                               IF s = {} THEN 0
                               ELSE it[s \ {m(s)}] + log[m(s)].cycles]
           it == CHOOSE it : Rule(it)
<1>1. FoldLeft(LAMBDA n, e : n + e.cycles, 0, log) = it[S]
  BY DEF FoldLeft, MapThenFoldSet, Max
<1>2. S = 1 .. Len(log) /\ IsFiniteSet(S) /\ S \subseteq Nat
  BY FS_Interval
<1>3. \A x \in S : f[x] \in Int /\ f[x] = log[x].cycles
  <2> SUFFICES ASSUME NEW x \in S PROVE log[x].cycles \in Int
    OBVIOUS
  <2>1. log[x] \in Entry
    OBVIOUS
  <2> QED BY <2>1 DEF Entry
<1>4. ASSUME NEW s \in SUBSET S, s # {}
      PROVE  c[s] \in s /\ c[s] \in S /\ c[s] = m(s)
  <2>1. IsFiniteSet(s)
    BY <1>2, FS_Subset
  <2>2. \E x \in s : \A y \in s : x >= y
    BY <1>2, <1>4, <2>1, LargestElement
  <2> QED BY <2>2
<1>5. Rule(it)
  <2> HIDE DEF f, c, m
  <2>1. PICK jt : Folding(jt, f, c, S)
    BY <1>2, <1>4, FoldExists
  <2>2. Sums(jt, f, S)
    BY <1>2, <1>3, <1>4, <2>1, FoldSums DEF Folding
  <2>3. \A s \in SUBSET S : jt[s] \in Int
    BY <2>2 DEF Sums
  <2>4. \A s \in SUBSET S : s # {} => jt[s] = jt[s \ {c[s]}] + log[c[s]].cycles
    <3> SUFFICES ASSUME NEW s \in SUBSET S, s # {}
                 PROVE  jt[s] = jt[s \ {c[s]}] + log[c[s]].cycles
      OBVIOUS
    <3>1. c[s] \in S /\ f[c[s]] \in Int /\ f[c[s]] = log[c[s]].cycles /\ jt[s \ {c[s]}] \in Int
      BY <1>3, <1>4, <2>3
    <3>2. jt[s] = f[c[s]] + jt[s \ {c[s]}]
      BY <2>1 DEF Folding
    <3> HIDE DEF S
    <3> QED BY <3>1, <3>2
  <2>5. Rule(jt)
    BY <1>4, <2>1, <2>4 DEF Folding
  <2> HIDE DEF Rule
  <2> QED BY <2>5
<1> HIDE DEF it
<1>6. it[{}] = 0 /\ \A s \in SUBSET S : s # {} => it[s] = it[s \ {c[s]}] + f[c[s]]
  <2> HIDE DEF f, c, m
  <2>1. it[{}] = 0
    BY <1>5
  <2>2. ASSUME NEW s \in SUBSET S, s # {} PROVE it[s] = it[s \ {c[s]}] + f[c[s]]
    <3>1. it[s] = it[s \ {m(s)}] + log[m(s)].cycles
      BY <1>5, <2>2
    <3>2. c[s] = m(s) /\ f[c[s]] = log[c[s]].cycles
      BY <1>3, <1>4, <2>2
    <3> QED BY <3>1, <3>2
  <2> QED BY <2>1, <2>2
<1> HIDE DEF f, c, m, Rule
<1>7. Sums(it, f, S)
  BY <1>2, <1>3, <1>4, <1>6, FoldSums
<1>8. it[S] = Total(f, S)
  BY <1>2, <1>3, <1>7, TotalSums
<1> QED BY <1>1, <1>8 DEF f, S, LogCycles

\* The cycles of the rotations before the gates are a number.
LEMMA LogCyclesInt == ASSUME NEW log \in Seq(Entry) PROVE LogCycles(log) \in Int
<1> DEFINE f == [i \in DOMAIN log |-> log[i].cycles]
<1>1. DOMAIN log = 1 .. Len(log) /\ IsFiniteSet(DOMAIN log)
  BY FS_Interval
<1>2. \A i \in DOMAIN log : f[i] \in Int
  <2>1. \A i \in DOMAIN log : log[i] \in Entry
    BY <1>1
  <2> QED BY <2>1 DEF Entry
<1> HIDE DEF f
<1>3. Total(f, DOMAIN log) \in Int
  BY <1>1, <1>2, TotalSums
<1> QED BY <1>3 DEF f, LogCycles

\* A gate adds the cycles before it.
LEMMA LogCyclesAppend ==
  ASSUME NEW log \in Seq(Entry), NEW e \in Entry
  PROVE  LogCycles(Append(log, e)) = LogCycles(log) + e.cycles
<1> DEFINE n == Len(log)
           f == [i \in DOMAIN log |-> log[i].cycles]
           g == [i \in DOMAIN Append(log, e) |-> Append(log, e)[i].cycles]
<1>1. /\ n \in Nat /\ DOMAIN log = 1 .. n /\ DOMAIN Append(log, e) = 1 .. n + 1
      /\ \A i \in 1 .. n : Append(log, e)[i] = log[i]
      /\ Append(log, e)[n + 1] = e
  OBVIOUS
<1>2. /\ \A i \in 1 .. n : f[i] \in Int /\ g[i] = f[i]
      /\ g[n + 1] = e.cycles /\ e.cycles \in Int
  <2>1. \A i \in 1 .. n : log[i] \in Entry
    BY <1>1
  <2> QED BY <1>1, <2>1 DEF Entry
<1>3. LogCycles(log) = Total(f, 1 .. n) /\ LogCycles(Append(log, e)) = Total(g, 1 .. n + 1)
  BY <1>1 DEF LogCycles
<1> HIDE DEF n, f, g
<1>4. IsFiniteSet(1 .. n) /\ IsFiniteSet(1 .. n + 1)
  BY <1>1, FS_Interval
<1>5. Total(f, 1 .. n) \in Int
  BY <1>2, <1>4, TotalSums
<1>6. \A i \in 1 .. n + 1 : g[i] \in Int
  BY <1>1, <1>2
<1>7. n + 1 \in 1 .. n + 1
  BY <1>1
<1>8. Total(g, 1 .. n + 1) = g[n + 1] + Total(g, (1 .. n + 1) \ {n + 1})
  BY <1>4, <1>6, <1>7, TotalSums
<1>9. (1 .. n + 1) \ {n + 1} = 1 .. n
  BY <1>1
<1>10. Total(g, 1 .. n) = Total(f, 1 .. n)
  BY <1>2, <1>4, TotalOfPart
<1>11. Total(g, 1 .. n + 1) = Total(f, 1 .. n) + e.cycles
  <2> DEFINE a == Total(f, 1 .. n)
             d == e.cycles
  <2>1. Total(g, (1 .. n + 1) \ {n + 1}) = a
    BY <1>9, <1>10
  <2>2. Total(g, 1 .. n + 1) = d + a /\ a \in Int /\ d \in Int
    BY <1>2, <1>5, <1>8, <2>1
  <2> HIDE DEF a, d
  <2>3. d + a = a + d
    BY <2>2
  <2> QED BY <2>2, <2>3 DEF a, d
<1> QED BY <1>3, <1>5, <1>11

\* What is put out for a state takes at most three cycles.
LEMMA StateCycles == \A cs \in States : cs2cycles[cs + 1] \in 0 .. 3
<1>1. \A i \in 1 .. 24 : cs2cycles[i] \in 0 .. 3
  BY DEF cs2cycles
<1> QED BY <1>1 DEF States

\* The number of saved cycles of a qubit and what is known of its timelines.
LEMMA QubitFacts ==
  ASSUME KeptInv, ShortInv, SavedInv, NEW q \in Qubits
  PROVE  /\ input[q] \in Timeline /\ output[q] \in Timeline
         /\ LogCycles(input[q].log) \in Int /\ LogCycles(output[q].log) \in Int
         /\ Gained(q) \in Int /\ Gains[q] = Gained(q)
         /\ Owed(q) \in Int /\ Owed(q) >= 0 /\ Owes[q] = Owed(q)
         /\ Saved(q) \in Int /\ Saved(q) >= -Owed(q)
         /\ ~finished =>
              /\ input[q].cycles = cliffcycles[q] /\ output[q].cycles = 0
              /\ Flushed(q) \in Timeline /\ Flushed(q).log = output[q].log
              /\ cliffcycles[q] - Flushed(q).cycles >= Saved(q)
<1>1. /\ input[q] \in Timeline /\ output[q] \in Timeline /\ finished \in BOOLEAN
      /\ cliffstate[q] \in States /\ cliffcycles[q] \in Nat
  BY DEF KeptInv, Types, SavedInv
<1>2. /\ input[q].log \in Seq(Entry) /\ output[q].log \in Seq(Entry)
      /\ input[q].cycles \in Nat /\ output[q].cycles \in Nat
  BY <1>1 DEF Timeline
<1>3. LogCycles(input[q].log) \in Int /\ LogCycles(output[q].log) \in Int
  BY <1>2, LogCyclesInt
<1>4. Gained(q) \in Int /\ Gains[q] = Gained(q)
  BY <1>1, <1>2, <1>3 DEF Gained, Gains
<1>5. cs2cycles[cliffstate[q] + 1] \in 0 .. 3
  BY <1>1, StateCycles
<1>6. Saved(q) \in Int /\ Saved(q) >= -Owed(q) /\ Owed(q) \in Int /\ Owed(q) >= 0 /\ Owes[q] = Owed(q)
  BY <1>1, <1>5 DEF Saved, Owed, Owes
<1>7. ASSUME ~finished
      PROVE  /\ input[q].cycles = cliffcycles[q] /\ output[q].cycles = 0
             /\ Flushed(q) \in Timeline /\ Flushed(q).log = output[q].log
             /\ cliffcycles[q] - Flushed(q).cycles >= Saved(q)
  <2>1. input[q].cycles = cliffcycles[q] /\ output[q].cycles = 0
    BY <1>7 DEF SavedInv, ShortInv, ShortOn
  <2>2. Flushed(q) \in Timeline /\ Flushed(q).log = output[q].log
    BY <1>7, FlushedTimeline, FlushedShort
  <2>3. Flushed(q).cycles = IF cliffstate[q] = 0 THEN 0 ELSE cs2cycles[cliffstate[q] + 1]
    BY <1>5, <2>1 DEF Flushed, Turned
  <2>4. cliffcycles[q] - Flushed(q).cycles >= Saved(q)
    BY <1>1, <1>5, <2>3 DEF Saved
  <2> QED BY <2>1, <2>2, <2>4
<1> QED BY <1>1, <1>3, <1>4, <1>6, <1>7

\* Putting out the states of the qubits in S counts no more cycles than it saves.
LEMMA SyncSaves ==
  ASSUME KeptInv, ShortInv, SavedInv, ~finished, NEW S \in SUBSET Qubits, Sync(S),
         taken' \in Nat, taken <= taken',
         \A q \in Qubits : /\ Gained(q)' \in Int
                           /\ Gained(q) + (IF q \in S THEN Saved(q) ELSE 0) <= Gained(q)'
  PROVE  \E n \in Int : /\ total_saved' = n % UIntSize
                        /\ n <= Total(Gains, Qubits)'
                        /\ Total(Owes, Qubits)' - 3 * taken' <= n
<1> DEFINE f == [q \in Qubits |-> Saved(q)]
           h == [q \in Qubits |-> IF q \in S THEN Saved(q) ELSE 0]
           z == [q \in Qubits |-> 0]
           G == [q \in Qubits |-> Gained(q)']
           O == [q \in Qubits |-> Owed(q)']
<1>1. IsFiniteSet(Qubits) /\ IsFiniteSet(S) /\ UIntSize \in Int /\ UIntSize > 0 /\ taken \in Nat
  BY CliffordAssumption, FS_Subset DEF KeptInv, Types
<1>2. \A q \in Qubits : Saved(q) \in Int /\ Saved(q) >= -Owed(q)
  BY QubitFacts
<1>3. Total(Gains, Qubits)' = Total(G, Qubits) /\ Total(Owes, Qubits)' = Total(O, Qubits)
  BY DEF Gains, Owes
<1>4. /\ \A q \in Qubits : /\ f[q] \in Int /\ h[q] \in Int /\ z[q] = 0
                           /\ h[q] = IF q \in S THEN f[q] ELSE 0
      /\ \A q \in S : f[q] \in Int
  BY <1>2
<1>5. \A q \in Qubits : Gains[q] \in Int /\ G[q] \in Int /\ Gains[q] + h[q] <= G[q] + z[q]
  BY QubitFacts
<1>6. \A q \in Qubits : Owes[q] \in Int /\ O[q] \in Int /\ O[q] + z[q] <= Owes[q] + h[q]
  <2> SUFFICES ASSUME NEW q \in Qubits
               PROVE  Owes[q] \in Int /\ O[q] \in Int /\ O[q] + z[q] <= Owes[q] + h[q]
    OBVIOUS
  <2>1. Owes[q] = Owed(q) /\ Owed(q) \in Int /\ Owed(q) >= 0 /\ Saved(q) \in Int /\ Saved(q) >= -Owed(q)
    BY QubitFacts
  <2>2. cliffstate'[q] = IF q \in S THEN 0 ELSE cliffstate[q]
    BY DEF Sync
  <2> QED BY <2>1, <2>2 DEF Owed
<1>7. total_saved' = (total_saved + Total(f, S)) % UIntSize
  BY <1>2, SavedTotal DEF Sync
<1> HIDE DEF f, h, z, G, O
<1>8. PICK n \in Int : /\ total_saved = n % UIntSize
                       /\ n <= Total(Gains, Qubits)
                       /\ Total(Owes, Qubits) - 3 * taken <= n
  BY DEF SavedInv
<1>9. Total(h, Qubits) = Total(f, S) /\ Total(f, S) \in Int
  BY <1>1, <1>4, TotalOfPart, TotalSums
<1>10. Total(z, Qubits) = 0
  BY <1>1, <1>4, TotalOfNothing
<1>11. Total(Gains, Qubits) + Total(f, S) <= Total(G, Qubits)
  <2>1. Total(G, Qubits) \in Int /\ Total(Gains, Qubits) \in Int
    BY <1>1, <1>5, TotalSums
  <2>2. Total(Gains, Qubits) + Total(h, Qubits) <= Total(G, Qubits) + Total(z, Qubits)
    BY <1>1, <1>4, <1>5, TotalsCompare
  <2> QED BY <1>9, <1>10, <2>1, <2>2
<1>12. Total(O, Qubits) <= Total(Owes, Qubits) + Total(f, S)
  <2>1. Total(O, Qubits) \in Int /\ Total(Owes, Qubits) \in Int
    BY <1>1, <1>6, TotalSums
  <2>2. Total(O, Qubits) + Total(z, Qubits) <= Total(Owes, Qubits) + Total(h, Qubits)
    BY <1>1, <1>4, <1>6, TotalsCompare
  <2> QED BY <1>9, <1>10, <2>1, <2>2
<1>13. total_saved' = (n + Total(f, S)) % UIntSize
  BY <1>1, <1>7, <1>8, <1>9, RemainderAdds
<1>14. /\ Total(G, Qubits) \in Int /\ Total(Gains, Qubits) \in Int
       /\ Total(O, Qubits) \in Int /\ Total(Owes, Qubits) \in Int
  BY <1>1, <1>5, <1>6, TotalSums
<1>15. n + Total(f, S) <= Total(G, Qubits) /\ Total(O, Qubits) - 3 * taken' <= n + Total(f, S)
  BY <1>1, <1>8, <1>9, <1>11, <1>12, <1>14
<1>16. n + Total(f, S) \in Int
  BY <1>9
<1> QED BY <1>3, <1>13, <1>15, <1>16

\* A gate that is held back may cost three more cycles, and saves none yet.
LEMMA AccumulateSaves ==
  ASSUME KeptInv, ShortInv, SavedInv, ~finished, NEW g \in Gates, taken < MaxGates,
         finished' = finished, taken' = taken + 1,
         input' = [q \in Qubits |-> IF q \in Affected(g) THEN After(input[q], g, taken + 1) ELSE input[q]],
         Accumulate(g)
  PROVE  SavedInv'
<1> DEFINE o == g.operands[1]
           c == Cycles(g)
           z == [q \in Qubits |-> 0]
           one == [q \in {o} |-> 3]
           h == [q \in Qubits |-> IF q \in {o} THEN 3 ELSE 0]
           O == [q \in Qubits |-> Owed(q)']
<1>1. /\ o \in Qubits /\ Affected(g) = {o} /\ c \in Nat
      /\ After(input[o], g, taken + 1) = Turned(input[o], Meaning(g.name), c)
  BY HeldBack DEF Accumulate
<1>2. /\ cliffcycles' = [cliffcycles EXCEPT ![o] = @ + c]
      /\ \A q \in Qubits : q # o => cliffstate'[q] = cliffstate[q]
      /\ output' = output /\ total_saved' = total_saved
  BY DEF Accumulate, KeptInv, Types
<1> HIDE DEF o, c
<1>3. /\ taken \in Nat /\ MaxGates \in Nat /\ cliffcycles \in [Qubits -> Nat] /\ IsFiniteSet(Qubits)
      /\ \A q \in Qubits : input[q].cycles = cliffcycles[q]
  BY CliffordAssumption DEF KeptInv, Types, SavedInv
<1>4. /\ cliffcycles' \in [Qubits -> Nat] /\ taken' <= MaxGates
      /\ \A q \in Qubits : input'[q].cycles = cliffcycles'[q] /\ input'[q].log = input[q].log
  BY <1>1, <1>2, <1>3 DEF Turned
<1>5. Gains' = Gains
  BY <1>2, <1>4 DEF Gains, Gained
<1>6. Owes' = O
  BY DEF Owes
<1>7. \A q \in Qubits : Owes[q] \in Int /\ O[q] \in Int /\ O[q] + z[q] <= Owes[q] + h[q]
  <2> SUFFICES ASSUME NEW q \in Qubits
               PROVE  Owes[q] \in Int /\ O[q] \in Int /\ O[q] + z[q] <= Owes[q] + h[q]
    OBVIOUS
  <2>1. Owes[q] = Owed(q) /\ Owed(q) \in Int /\ Owed(q) >= 0
    BY QubitFacts
  <2>2. q # o => cliffstate'[q] = cliffstate[q]
    BY <1>2
  <2> QED BY <2>1, <2>2 DEF Owed
<1>8. /\ \A q \in Qubits : z[q] = 0 /\ h[q] \in Int /\ h[q] = IF q \in {o} THEN one[q] ELSE 0
      /\ one[o] = 3 /\ \A q \in {o} : one[q] \in Int
  OBVIOUS
<1> HIDE DEF z, one, h, O
<1>9. Total(one, {o}) = 3
  <2>1. IsFiniteSet({o}) /\ {o} \ {o} = {}
    BY FS_Singleton
  <2>2. Total(one, {o}) = one[o] + Total(one, {o} \ {o}) /\ Total(one, {}) = 0
    BY <1>8, <2>1, TotalSums
  <2> QED BY <1>8, <2>1, <2>2
<1>10. Total(h, Qubits) = 3 /\ Total(z, Qubits) = 0
  BY <1>1, <1>3, <1>8, <1>9, TotalOfPart, TotalOfNothing
<1>11. Total(O, Qubits) \in Int /\ Total(Owes, Qubits) \in Int /\ Total(O, Qubits) <= Total(Owes, Qubits) + 3
  <2>1. Total(O, Qubits) \in Int /\ Total(Owes, Qubits) \in Int
    BY <1>3, <1>7, TotalSums
  <2>2. Total(O, Qubits) + Total(z, Qubits) <= Total(Owes, Qubits) + Total(h, Qubits)
    BY <1>3, <1>7, <1>8, TotalsCompare
  <2> QED BY <1>10, <2>1, <2>2
<1>12. PICK n \in Int : /\ total_saved = n % UIntSize
                        /\ n <= Total(Gains, Qubits)
                        /\ Total(Owes, Qubits) - 3 * taken <= n
  BY DEF SavedInv
<1>13. /\ total_saved' = n % UIntSize
       /\ n <= Total(Gains', Qubits)
       /\ Total(Owes', Qubits) - 3 * taken' <= n
  BY <1>2, <1>3, <1>5, <1>6, <1>11, <1>12
<1> QED BY <1>4, <1>13 DEF SavedInv

\* Any other gate closes the sequences before it, on both timelines.
LEMMA PassOnSaves ==
  ASSUME KeptInv, ShortInv, SavedInv, ~finished, NEW g \in Gates, taken < MaxGates,
         finished' = finished, taken' = taken + 1,
         input' = [q \in Qubits |-> IF q \in Affected(g) THEN After(input[q], g, taken + 1) ELSE input[q]],
         PassOn(g)
  PROVE  SavedInv'
<1> DEFINE S == Affected(g)
<1>1. /\ ~Accumulates(g) /\ Sync(S)
      /\ output' = [q \in Qubits |-> IF q \in S THEN Interrupted(Flushed(q), g, taken + 1) ELSE output[q]]
  BY DEF PassOn, Synced
<1>2. input' = [q \in Qubits |-> IF q \in S THEN Interrupted(input[q], g, taken + 1) ELSE input[q]]
  BY <1>1 DEF After, Accumulates
<1>3. S \in SUBSET Qubits
  <2>1. g.operands \in Seq(Qubits)
    BY OperandsAssumption
  <2>2. ToSet(g.operands) \in SUBSET Qubits
    BY <2>1 DEF ToSet
  <2> QED BY <2>2 DEF Affected
<1>4. cliffcycles' = [q \in Qubits |-> IF q \in S THEN 0 ELSE cliffcycles[q]]
  BY <1>1 DEF Sync, ClearedCycles
<1> HIDE DEF S
<1>5. /\ taken \in Nat /\ taken + 1 \in Nat /\ MaxGates \in Nat /\ cliffcycles \in [Qubits -> Nat]
      /\ \A q \in Qubits : input[q].cycles = cliffcycles[q]
  BY CliffordAssumption DEF KeptInv, Types, SavedInv
<1>6. cliffcycles' \in [Qubits -> Nat] /\ taken' <= MaxGates
  BY <1>4, <1>5
<1>7. ASSUME NEW q \in Qubits PROVE input'[q].cycles = cliffcycles'[q]
  <2>1. Interrupted(input[q], g, taken + 1).cycles = 0
    BY DEF Interrupted
  <2> QED BY <1>2, <1>4, <1>5, <2>1
<1>8. ASSUME NEW q \in Qubits
      PROVE  /\ Gained(q)' \in Int
             /\ Gained(q) + (IF q \in S THEN Saved(q) ELSE 0) <= Gained(q)'
  <2>1. /\ input[q] \in Timeline /\ output[q] \in Timeline /\ Flushed(q) \in Timeline
        /\ LogCycles(input[q].log) \in Int /\ LogCycles(output[q].log) \in Int
        /\ Saved(q) \in Int /\ input[q].cycles = cliffcycles[q]
        /\ Flushed(q).log = output[q].log /\ cliffcycles[q] - Flushed(q).cycles >= Saved(q)
        /\ Gained(q) \in Int
    BY QubitFacts
  <2>2. CASE q \notin S
    BY <1>1, <1>2, <2>1, <2>2 DEF Gained
  <2>3. CASE q \in S
    <3> DEFINE d == [rotation |-> input[q].rotation, cycles |-> input[q].cycles, gate |-> g, number |-> taken + 1]
               e == [rotation |-> Flushed(q).rotation, cycles |-> Flushed(q).cycles, gate |-> g,
                     number |-> taken + 1]
    <3>1. d \in Entry /\ e \in Entry /\ d.cycles = cliffcycles[q] /\ e.cycles = Flushed(q).cycles
      BY <1>5, <2>1 DEF Timeline, Entry
    <3>2. input'[q].log = Append(input[q].log, d) /\ output'[q].log = Append(output[q].log, e)
      <4>1. input'[q] = Interrupted(input[q], g, taken + 1) /\ output'[q] = Interrupted(Flushed(q), g, taken + 1)
        BY <1>1, <1>2, <2>3
      <4>2. /\ Interrupted(input[q], g, taken + 1).log = Append(input[q].log, d)
            /\ Interrupted(Flushed(q), g, taken + 1).log = Append(Flushed(q).log, e)
        BY DEF Interrupted
      <4> HIDE DEF d, e
      <4> QED BY <2>1, <4>1, <4>2
    <3>3. input[q].log \in Seq(Entry) /\ output[q].log \in Seq(Entry)
      BY <2>1 DEF Timeline
    <3> HIDE DEF d, e
    <3>4. /\ LogCycles(input'[q].log) = LogCycles(input[q].log) + cliffcycles[q]
          /\ LogCycles(output'[q].log) = LogCycles(output[q].log) + Flushed(q).cycles
      BY <3>1, <3>2, <3>3, LogCyclesAppend
    <3>5. cliffcycles[q] \in Int /\ Flushed(q).cycles \in Int
      BY <1>5, <2>1 DEF Timeline
    <3>6. /\ Gained(q)' = LogCycles(input'[q].log) - LogCycles(output'[q].log)
          /\ Gained(q) = LogCycles(input[q].log) - LogCycles(output[q].log)
      BY <2>1, <3>4, <3>5 DEF Gained
    <3> QED BY <2>1, <2>3, <3>4, <3>5, <3>6
  <2> QED BY <2>2, <2>3
<1>9. \E n \in Int : /\ total_saved' = n % UIntSize
                     /\ n <= Total(Gains, Qubits)'
                     /\ Total(Owes, Qubits)' - 3 * taken' <= n
  BY <1>1, <1>3, <1>5, <1>8, SyncSaves
<1> QED BY <1>6, <1>7, <1>9 DEF SavedInv

\* At the end the last sequences are closed.
LEMMA FinishSaves == KeptInv /\ ShortInv /\ SavedInv /\ Finish => SavedInv'
<1> SUFFICES ASSUME KeptInv, ShortInv, SavedInv, Finish PROVE SavedInv'
  OBVIOUS
<1>1. /\ ~finished /\ finished' = TRUE /\ input' = input /\ taken' = taken /\ Sync(Qubits)
      /\ output' = [q \in Qubits |-> Flushed(q)]
      /\ cliffcycles' = [q \in Qubits |-> 0]
  BY DEF Finish, Sync, ClearedCycles
<1>2. taken \in Nat
  BY DEF KeptInv, Types
<1>3. ASSUME NEW q \in Qubits
      PROVE  Gained(q)' \in Int /\ Gained(q) + Saved(q) <= Gained(q)'
  <2>1. /\ Flushed(q) \in Timeline /\ input[q] \in Timeline
        /\ LogCycles(input[q].log) \in Int /\ LogCycles(output[q].log) \in Int
        /\ Saved(q) \in Int /\ input[q].cycles = cliffcycles[q]
        /\ Flushed(q).log = output[q].log /\ cliffcycles[q] - Flushed(q).cycles >= Saved(q)
    BY <1>1, QubitFacts
  <2>2. cliffcycles[q] \in Int /\ Flushed(q).cycles \in Int
    BY <2>1 DEF Timeline
  <2>3. /\ Gained(q)' = LogCycles(input[q].log) - LogCycles(output[q].log) + (cliffcycles[q] - Flushed(q).cycles)
        /\ Gained(q) = LogCycles(input[q].log) - LogCycles(output[q].log)
    BY <1>1, <2>1, <2>2 DEF Gained
  <2> QED BY <2>1, <2>2, <2>3
<1>4. \E n \in Int : /\ total_saved' = n % UIntSize
                     /\ n <= Total(Gains, Qubits)'
                     /\ Total(Owes, Qubits)' - 3 * taken' <= n
  <2>1. \A q \in Qubits : /\ Gained(q)' \in Int
                          /\ Gained(q) + (IF q \in Qubits THEN Saved(q) ELSE 0) <= Gained(q)'
    BY <1>3
  <2> QED BY <1>1, <1>2, <2>1, SyncSaves
<1> QED BY <1>1, <1>4 DEF SavedInv

\* Nothing is saved at the start.
LEMMA InitSaves == Init => SavedInv
<1> SUFFICES ASSUME Init PROVE SavedInv
  OBVIOUS
<1>1. KeptInv /\ IsFiniteSet(Qubits) /\ MaxGates \in Nat /\ UIntSize \in Int /\ UIntSize > 0
  BY InitKept, CliffordAssumption
<1>2. /\ cliffcycles \in [Qubits -> Nat] /\ taken = 0 /\ total_saved = 0
      /\ \A q \in Qubits : input[q].cycles = cliffcycles[q]
  BY DEF Init, NoTime
<1>3. \A q \in Qubits : Gains[q] = 0 /\ Owes[q] = 0
  <2> SUFFICES ASSUME NEW q \in Qubits PROVE Gained(q) = 0 /\ Owed(q) = 0
    BY DEF Gains, Owes
  <2>1. input[q] = output[q] /\ cliffstate[q] = 0 /\ ~finished /\ input[q] \in Timeline
    BY <1>1 DEF Init, KeptInv, Types
  <2>2. LogCycles(input[q].log) \in Int
    BY <2>1, LogCyclesInt DEF Timeline
  <2> QED BY <2>1, <2>2 DEF Gained, Owed
<1>4. Total(Gains, Qubits) = 0 /\ Total(Owes, Qubits) = 0
  BY <1>1, <1>3, TotalOfNothing
<1>5. 0 % UIntSize = 0
  BY <1>1
<1> QED BY <1>1, <1>2, <1>4, <1>5 DEF SavedInv

\* Every step keeps the count of what has been saved.
LEMMA SavedInductive == KeptInv /\ ShortInv /\ SavedInv /\ [Next]_vars => SavedInv'
<1> SUFFICES ASSUME KeptInv, ShortInv, SavedInv, [Next]_vars PROVE SavedInv'
  OBVIOUS
<1>1. ASSUME NEW g \in Gates, ~finished, taken < MaxGates, taken' = taken + 1, finished' = finished,
             input' = [q \in Qubits |-> IF q \in Affected(g) THEN After(input[q], g, taken + 1) ELSE input[q]],
             Accumulate(g) \/ PassOn(g)
      PROVE  SavedInv'
  BY <1>1, AccumulateSaves, PassOnSaves
<1>2. CASE Finish
  BY <1>2, FinishSaves
<1>3. CASE UNCHANGED vars
  BY <1>3 DEF SavedInv, Gains, Owes, Gained, Owed, vars
<1> QED BY <1>1, <1>2, <1>3 DEF Next

\* What has been saved is the sum of what has been saved on the qubits.
LEMMA GainsSum ==
  ASSUME KeptInv, ShortInv, SavedInv
  PROVE  SavingsNotOverstated <=> AsSigned(total_saved) <= Total(Gains, Qubits)
<1> DEFINE v(q) == ClosedCycles(input[q]) - ClosedCycles(output[q])
           c == [s \in SUBSET Qubits |-> CHOOSE x \in s : TRUE]
           Rule(it) == it = [s \in SUBSET Qubits |->
                               IF s = {} THEN 0
                               ELSE v(CHOOSE x \in s : TRUE) + it[s \ {CHOOSE x \in s : TRUE}]]
           it == CHOOSE it : Rule(it)
<1>1. SavingsNotOverstated <=> AsSigned(total_saved) <= it[Qubits]
  BY DEF SavingsNotOverstated, MapThenSumSet, MapThenFoldSet
<1>2. ASSUME NEW q \in Qubits PROVE Gains[q] \in Int /\ Gains[q] = v(q)
  <2>1. /\ input[q].log \in Seq(Entry) /\ output[q].log \in Seq(Entry)
        /\ input[q].cycles \in Nat /\ output[q].cycles \in Nat
        /\ LogCycles(input[q].log) \in Int /\ LogCycles(output[q].log) \in Int
        /\ Gained(q) \in Int /\ Gains[q] = Gained(q)
    BY QubitFacts DEF Timeline
  <2>2. /\ ClosedCycles(input[q]) = LogCycles(input[q].log) + (IF finished THEN input[q].cycles ELSE 0)
        /\ ClosedCycles(output[q]) = LogCycles(output[q].log) + (IF finished THEN output[q].cycles ELSE 0)
    BY <2>1, LogTotal DEF ClosedCycles
  <2> QED BY <2>1, <2>2 DEF Gained
<1> HIDE DEF v
<1>3. IsFiniteSet(Qubits)
  BY CliffordAssumption
<1>4. \A s \in SUBSET Qubits : s # {} => c[s] \in s /\ c[s] \in Qubits /\ c[s] = (CHOOSE x \in s : TRUE)
  OBVIOUS
<1>5. Rule(it)
  <2> HIDE DEF c
  <2>1. PICK jt : Folding(jt, Gains, c, Qubits)
    BY <1>3, <1>4, FoldExists
  <2>2. Rule(jt)
    BY <2>1, <1>2, <1>4 DEF Folding
  <2> HIDE DEF Rule
  <2> QED BY <2>2
<1> HIDE DEF it
<1>6. it[{}] = 0 /\ \A s \in SUBSET Qubits : s # {} => it[s] = Gains[c[s]] + it[s \ {c[s]}]
  <2>1. it[{}] = 0
    BY <1>5
  <2>2. ASSUME NEW s \in SUBSET Qubits, s # {}
        PROVE  it[s] = v(c[s]) + it[s \ {c[s]}]
    <3>1. it[s] = v(CHOOSE x \in s : TRUE) + it[s \ {CHOOSE x \in s : TRUE}]
      BY <2>2, <1>5
    <3>2. c[s] = (CHOOSE x \in s : TRUE)
      BY <2>2
    <3> QED BY <3>1, <3>2
  <2> HIDE DEF c
  <2> QED BY <2>1, <2>2, <1>2, <1>4
<1> HIDE DEF c, Rule
<1>7. Sums(it, Gains, Qubits)
  BY <1>2, <1>3, <1>4, <1>6, FoldSums
<1> QED BY <1>1, <1>2, <1>3, <1>7, TotalSums

\* The pass never reports more saved cycles than it has taken out of the kernel, as long as the
\* three cycles that the sequence of a state may take, for each gate, are far from the size of
\* an integer (clifford.cc:40-48).
THEOREM SavingsAreReal ==
  ASSUME 6 * MaxGates <= UIntSize
  PROVE  Spec => []SavingsNotOverstated
<1>1. KeptInv /\ ShortInv /\ SavedInv => SavingsNotOverstated
  <2> SUFFICES ASSUME KeptInv, ShortInv, SavedInv PROVE SavingsNotOverstated
    OBVIOUS
  <2>1. PICK n \in Int : /\ total_saved = n % UIntSize
                         /\ n <= Total(Gains, Qubits)
                         /\ Total(Owes, Qubits) - 3 * taken <= n
    BY DEF SavedInv
  <2>2. IsFiniteSet(Qubits) /\ MaxGates \in Nat /\ UIntSize \in Nat \ {0} /\ taken \in Nat /\ taken <= MaxGates
    BY CliffordAssumption DEF SavedInv, KeptInv, Types
  <2>3. \A q \in Qubits : Owes[q] \in Int /\ Owes[q] >= 0 /\ Gains[q] \in Int
    BY QubitFacts
  <2>4. Total(Owes, Qubits) \in Int /\ Total(Gains, Qubits) \in Int
    BY <2>2, <2>3, TotalSums
  <2>5. Total(Owes, Qubits) >= 0
    <3> DEFINE z == [q \in Qubits |-> 0]
    <3>1. \A q \in Qubits : z[q] = 0
      OBVIOUS
    <3> HIDE DEF z
    <3>2. Total(z, Qubits) + Total(z, Qubits) <= Total(Owes, Qubits) + Total(z, Qubits)
      BY <2>2, <2>3, <3>1, TotalsCompare
    <3>3. Total(z, Qubits) = 0
      BY <2>2, <3>1, TotalOfNothing
    <3> QED BY <2>4, <3>2, <3>3
  <2>6. -(UIntSize - UIntSize \div 2) <= n
    BY <2>1, <2>2, <2>4, <2>5
  <2>7. AsSigned(total_saved) <= n
    BY <2>1, <2>6, SignedBelow
  <2>8. AsSigned(total_saved) \in Int
    BY <2>1, <2>2 DEF AsSigned
  <2> QED BY <2>1, <2>4, <2>7, <2>8, GainsSum
<1> QED BY <1>1, InitShort, InitKept, InitSaves, KeptInductive, ShortInductive, SavedInductive, PTL DEF Spec
=============================================================================
