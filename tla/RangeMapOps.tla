----------------------------- MODULE RangeMapOps ----------------------------
(***************************************************************************)
(* A RangeMap under arbitrary sequences of set(), erase() and clear(), the *)
(* way the resources drive it: a null range is only set when find() said   *)
(* that it is free. NullAnywhere lifts that discipline, which the          *)
(* instrument resource does not keep when it allows overlap.               *)
(***************************************************************************)
EXTENDS RangeMap

CONSTANTS MinKey,        \* the keys in use are MinKey..MaxKey
          MaxKey,
          Values,        \* the values set() stores
          NoValue,       \* "no entry", for the abstract map only
          NullAnywhere   \* whether callers use null ranges on top of an entry

ASSUME RangeMapAssumption ==
  /\ MinKey \in Int /\ MaxKey \in Int /\ MinKey <= MaxKey
  /\ NoValue \notin Values
  /\ NullAnywhere \in BOOLEAN

VARIABLES map,     \* the entries
          merge    \* value_compare: whether equal neighbours are merged, fixed by the constructor

vars == <<map, merge>>

Keys == MinKey .. MaxKey
Bounds == MinKey .. (MaxKey + 1)
Ranges == {r \in [first : Bounds, second : Bounds] : RangeValid(r)}

Init == map = {} /\ merge \in BOOLEAN

Usable(r) == NullAnywhere \/ ~RangeEmpty(r) \/ Find(map, r) = {}

Set(r, v) ==
  /\ Usable(r)
  /\ map' = SetRange(map, r, v, merge)
  /\ UNCHANGED merge

Erase(r) ==
  /\ Usable(r)
  /\ map' = EraseRange(map, r)
  /\ UNCHANGED merge

Clear == map' = {} /\ UNCHANGED merge

Next ==
  \/ \E r \in Ranges, v \in Values : Set(r, v)
  \/ \E r \in Ranges : Erase(r)
  \/ Clear

Spec == Init /\ [][Next]_vars

-----------------------------------------------------------------------------
\* check_consistency() never throws "found overlapping range": no sequence of
\* set() and erase() leaves entries out of order or overlapping.
ConsistentOrder == Consistent(map)

\* find() stops walking at the first entry that lies to one side; it still
\* returns every entry that shares a key with the range, and for a range that is
\* not null nothing else but the null entries strictly inside it or at its start.
FindComplete ==
  \A r \in Ranges :
    LET shares(e) == \E k \in Keys : /\ r.first <= k /\ k < r.second
                                     /\ e.range.first <= k /\ k < e.range.second
        nullIn(e) == RangeEmpty(e.range) /\ r.first <= e.range.first /\ e.range.first < r.second
    IN ~RangeEmpty(r) => Find(map, r) = {e \in map : shares(e) \/ nullIn(e)}

\* A map built with an equality comparator never holds two entries that touch and
\* have the same value: set() merges with both neighbours.
MaximallyMerged ==
  merge => \A a, b \in map : a # b /\ a.value = b.value => a.range.second # b.range.first

\* The value a lookup of one key finds.
Lookup(k) ==
  IF FindKey(map, k) = {} THEN NoValue ELSE (CHOOSE e \in FindKey(map, k) : TRUE).value

Abstract == INSTANCE KeyMap WITH contents <- [k \in Keys |-> Lookup(k)]

\* A set() stores its value for exactly the keys of its own range, an erase() leaves exactly the
\* keys of its own range without one and a clear() all keys: splitting, trimming and re-adding the
\* neighbours loses and invents nothing.
ImplementsKeyMap ==
  /\ Abstract!Spec
  /\ [][/\ \A r \in Ranges, v \in Values : Set(r, v) => Abstract!Set(r.first, r.second, v)
        /\ \A r \in Ranges : Erase(r) => Abstract!Erase(r.first, r.second)
        /\ Clear => Abstract!Clear]_vars

=============================================================================
