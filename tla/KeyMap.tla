------------------------------- MODULE KeyMap -------------------------------
(***************************************************************************)
(* What a RangeMap promises to its users: a partial function from keys to  *)
(* values that is written a range at a time.  How the keys are grouped     *)
(* into ranges, split and merged is invisible here.                        *)
(***************************************************************************)
EXTENDS Integers

CONSTANTS Keys, Bounds, Values, NoValue   \* Bounds: where a range may begin or end

VARIABLE contents

InRange(k, first, second) == first <= k /\ k < second

Init == contents = [k \in Keys |-> NoValue]

\* Keys outside [first, second) keep what they had; a null range writes nothing.
Write(first, second, v) ==
  contents' = [k \in Keys |-> IF InRange(k, first, second) THEN v ELSE contents[k]]

Set(first, second, v) == v \in Values /\ Write(first, second, v)
Erase(first, second)  == Write(first, second, NoValue)
Clear == contents' = [k \in Keys |-> NoValue]

Next ==
  \/ \E first, second \in Bounds :
       first <= second /\ (Erase(first, second) \/ \E v \in Values : Set(first, second, v))
  \/ Clear

Spec == Init /\ [][Next]_contents
=============================================================================
