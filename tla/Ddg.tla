--------------------------------- MODULE Ddg --------------------------------
(***************************************************************************)
(* com/ddg: what a statement touches (references, access modes, events).   *)
(*                                                                         *)
(* A reference is a target object, a data type and the literal indices; a  *)
(* null target stands for everything there is ("global state").  The only  *)
(* type an object is referred to with besides its own is the implicit      *)
(* measurement bit of a qubit.                                             *)
(***************************************************************************)
EXTENDS DdgGraph, Sequences, FiniteSets

CONSTANTS Objects,      \* target objects: registers and scalars
          Null,         \* the null target
          References    \* the references the statements of the block may use

DataTypes == {"qubit", "implicit_bit", "classical"}

GlobalState == [target |-> Null, type |-> "classical", indices |-> <<>>]

ImplicitBit(r) == [r EXCEPT !.type = "implicit_bit"]

\* Operands name single elements with literal indices (ir/consistency.cc checks
\* the number of indices against the shape, the readers refuse dynamic indices),
\* so two references to one object have equally many indices.
ASSUME ReferencesAssumption ==
  /\ Null \notin Objects
  /\ \A r \in References : /\ r.target \in Objects /\ r.type \in DataTypes
                           /\ r.indices \in Seq(Nat)
                           /\ r = [target |-> r.target, type |-> r.type, indices |-> r.indices]
                           /\ r.type = "qubit" => ImplicitBit(r) \in References
  /\ \A r, s \in References : r.target = s.target => Len(r.indices) = Len(s.indices)

IsGlobalState(r) == r.target = Null

IsProvablyDistinctFrom(r, s) ==
  /\ ~IsGlobalState(r) /\ ~IsGlobalState(s)
  /\ \/ r.target # s.target
     \/ r.type # s.type
     \/ \E dim \in 1 .. Len(r.indices) : r.indices[dim] # s.indices[dim]

ReferenceIsShadowedBy(r, s) ==
  \/ IsGlobalState(s)
  \/ /\ ~IsGlobalState(r)
     /\ r.target = s.target
     /\ r.type = s.type
     /\ Len(s.indices) <= Len(r.indices)
     /\ \A dim \in 1 .. Len(s.indices) : r.indices[dim] = s.indices[dim]

-----------------------------------------------------------------------------
(* Access modes and events.                                                *)

AccessModes == {"write", "read", "commute_x", "commute_y", "commute_z"}

ModeCommutesWith(a, b) == a = b /\ a # "write"

\* combine_with() folded over all accesses of one reference, in any order.
CombinedMode(modes) ==
  IF \E m \in modes : modes = {m} THEN CHOOSE m \in modes : TRUE ELSE "write"

EventCommutesWith(e, f) ==
  \/ ModeCommutesWith(e.mode, f.mode)
  \/ IsProvablyDistinctFrom(e.reference, f.reference)

EventIsShadowedBy(e, f) ==
  /\ ~ModeCommutesWith(e.mode, f.mode)
  /\ ReferenceIsShadowedBy(e.reference, f.reference)

Event(r, m) == [reference |-> r, mode |-> m]

-----------------------------------------------------------------------------
(* EventGatherer.  A statement is a record                                 *)
(*   kind      what it is (StatementKinds)                                 *)
(*   reads     references in its condition(s)                              *)
(*   operands  a sequence of [mode, reference]: the operands of a custom   *)
(*             instruction, the two sides of a set instruction, the        *)
(*             objects of a wait instruction, the variable of a static     *)
(*             loop; a function call among them stands for its references  *)
(*   barrier   the barrier flag of a custom instruction type               *)
(*   duration  in cycles                                                   *)
(*   body      the statements of the sub-blocks of a structure, with the   *)
(*             initialize and update of a for loop; one level of nesting   *)

StatementKinds == {"custom", "set", "goto", "wait", "structure", "control", "sentinel"}


AddReference(mode, r) ==
  CASE mode \in {"barrier", "write", "update"} -> {Event(r, "write")}
    [] mode \in {"read", "literal"}            -> {Event(r, "read")}
    [] mode \in {"commute_x", "commute_y", "commute_z"} -> {Event(r, mode)}
    [] mode = "measure" -> {Event(r, "write"), Event(ImplicitBit(r), "write")}
    [] mode = "ignored" -> {}

NumQubits(operands) == Cardinality({i \in DOMAIN operands : operands[i].reference.type = "qubit"})

\* options.multi and options.single are commute_multi_qubit and commute_single_qubit.
CommutationDisabled(operands, options) ==
  \/ NumQubits(operands) = 1 /\ ~options.single
  \/ NumQubits(operands) > 1 /\ ~options.multi

AddOperands(operands, options) ==
  UNION {AddReference(IF /\ CommutationDisabled(operands, options)
                         /\ operands[i].mode \in {"commute_x", "commute_y", "commute_z"}
                      THEN "update" ELSE operands[i].mode,
                      operands[i].reference) : i \in DOMAIN operands}

IsBarrier(s) ==
  \/ s.kind \in {"goto", "control", "sentinel"}
  \/ s.kind = "custom" /\ s.barrier
  \/ s.kind = "wait" /\ s.operands = <<>>

AddSimpleStatement(s, options) ==
  {Event(r, "read") : r \in s.reads}
    \cup AddOperands(s.operands, options)
    \cup (IF IsBarrier(s) THEN {Event(GlobalState, "write")} ELSE {})

AddStatement(s, options) ==
  AddSimpleStatement(s, options) \cup UNION {AddSimpleStatement(b, options) : b \in s.body}

\* The events map: one event per reference, and a statement without any becomes a barrier.
EventsOf(s, options) ==
  LET accesses == AddStatement(s, options)
      modes(r) == {a.mode : a \in {b \in accesses : b.reference = r}}
  IN IF accesses = {} THEN {Event(GlobalState, "write")}
     ELSE {Event(a.reference, CombinedMode(modes(a.reference))) : a \in accesses}

Sentinel == [kind |-> "sentinel", reads |-> {}, operands |-> <<>>, barrier |-> FALSE,
             duration |-> 0, body |-> {}]

=============================================================================
