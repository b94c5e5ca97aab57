---------------------------- MODULE RangeMapProofs ---------------------------
(***************************************************************************)
(* RangeMapOps for every set of keys and values, when null ranges are only *)
(* set where nothing is (NullAnywhere = FALSE).  The invariant says more   *)
(* than ConsistentOrder: the first keys of the entries differ, null        *)
(* entries included.                                                       *)
(***************************************************************************)
EXTENDS RangeMapOps, RangeMapTheory

IInv ==
  /\ WellFormed(map, Values)
  /\ merge => Merged(map)

\* What a null range may not do to an entry is what Usable forbids.
LEMMA UsableOnMap ==
  ASSUME NullAnywhere = FALSE, IInv, NEW r \in Ranges, Usable(r)
  PROVE  r \in KeyRanges /\ RangeValid(r) /\ UsableOn(map, r)
<1>1. r \in KeyRanges /\ RangeValid(r)
  BY RangeMapAssumption DEF Ranges, Bounds, KeyRanges, RangeValid
<1>2. Find(map, r) = Touching(map, r)
  BY <1>1, FindTouching DEF IInv
<1> QED BY <1>1, <1>2 DEF Usable, UsableOn

\* Every constructor establishes the invariant and every operation keeps it.
LEMMA Inductive ==
  ASSUME NullAnywhere = FALSE
  PROVE  /\ Init => IInv
         /\ IInv /\ [Next]_vars => IInv'
<1>1. WellFormed({}, Values) /\ Merged({})
  BY DEF WellFormed, Ordered, Merged
<1>2. Init => IInv
  BY <1>1 DEF Init, IInv
<1>3. ASSUME IInv, [Next]_vars
      PROVE  IInv'
  <2>1. ASSUME NEW r \in Ranges, NEW v \in Values, Set(r, v)
        PROVE  IInv'
    <3>1. r \in KeyRanges /\ RangeValid(r) /\ UsableOn(map, r)
      BY <1>3, <2>1, UsableOnMap DEF Set
    <3>2. WellFormed(SetRange(map, r, v, merge), Values)
      BY <1>3, <3>1, SetWellFormed DEF IInv
    <3>3. Merged(map) => (merge => Merged(SetRange(map, r, v, merge)))
      BY <1>3, <3>1, SetMerged DEF IInv
    <3> QED BY <1>3, <2>1, <3>2, <3>3 DEF IInv, Set
  <2>2. ASSUME NEW r \in Ranges, Erase(r)
        PROVE  IInv'
    <3>1. r \in KeyRanges /\ RangeValid(r) /\ UsableOn(map, r)
      BY <1>3, <2>2, UsableOnMap DEF Erase
    <3>2. WellFormed(EraseRange(map, r), Values)
      BY <1>3, <3>1, EraseWellFormed DEF IInv
    <3>3. Merged(map) => Merged(EraseRange(map, r))
      BY <1>3, <3>1, EraseMerged DEF IInv
    <3> QED BY <1>3, <2>2, <3>2, <3>3 DEF IInv, Erase
  <2>3. CASE Clear
    BY <2>3, <1>1 DEF Clear, IInv
  <2>4. CASE UNCHANGED vars
    BY <1>3, <2>4 DEF vars, IInv
  <2> QED BY <1>3, <2>1, <2>2, <2>3, <2>4 DEF Next
<1> QED BY <1>2, <1>3

\* Under any sequence of operations the entries stay in order, first keys distinct.
THEOREM AlwaysWellFormed ==
  ASSUME NullAnywhere = FALSE
  PROVE  Spec => []IInv
<1>1. Init => IInv
  BY Inductive
<1>2. IInv /\ [Next]_vars => IInv'
  BY Inductive
<1> QED BY <1>1, <1>2, PTL DEF Spec

-----------------------------------------------------------------------------

\* No sequence of set(), erase() and clear() makes check_consistency() throw.
THEOREM AlwaysConsistent ==
  ASSUME NullAnywhere = FALSE
  PROVE  Spec => []ConsistentOrder
<1>1. IInv => ConsistentOrder
  BY OrderedConsistent DEF IInv, ConsistentOrder
<1> QED BY <1>1, AlwaysWellFormed, PTL

\* find() misses no entry that shares a key with the range, wherever its walks stop.
THEOREM FindNeverMisses ==
  ASSUME NullAnywhere = FALSE
  PROVE  Spec => []FindComplete
<1>1. IInv => FindComplete
  <2> SUFFICES ASSUME IInv, NEW r \in Ranges, ~RangeEmpty(r), NEW e \in map
               PROVE  Touches(e.range, r) <=>
                        \/ \E k \in Keys : /\ r.first <= k /\ k < r.second
                                           /\ e.range.first <= k /\ k < e.range.second
                        \/ /\ RangeEmpty(e.range)
                           /\ r.first <= e.range.first /\ e.range.first < r.second
    <3>1. ASSUME IInv, NEW r \in Ranges
          PROVE  Find(map, r) = Touching(map, r)
      <4>1. r \in KeyRanges /\ RangeValid(r)
        BY RangeMapAssumption DEF Ranges, Bounds, KeyRanges, RangeValid
      <4> QED BY <4>1, <3>1, FindTouching DEF IInv
    <3> QED BY <3>1 DEF FindComplete, Touching
  <2>1. /\ MinKey \in Int /\ MaxKey \in Int
        /\ r.first \in Int /\ r.second \in Int /\ MinKey <= r.first /\ r.second <= MaxKey + 1
        /\ r.first < r.second
    BY RangeMapAssumption DEF Ranges, Bounds, RangeValid, RangeEmpty
  <2>2. e.range.first \in Int /\ e.range.second \in Int /\ e.range.first <= e.range.second
    BY EntryShape DEF IInv
  <2>3. ASSUME Touches(e.range, r), ~RangeEmpty(e.range)
        PROVE  \E k \in Keys : /\ r.first <= k /\ k < r.second
                               /\ e.range.first <= k /\ k < e.range.second
    <3>1. CASE e.range.first <= r.first
      <4>1. r.first \in Keys /\ r.first < r.second /\ r.first < e.range.second
        BY <2>1, <2>2, <2>3, <3>1 DEF Keys, Touches, RangeEmpty
      <4> QED BY <4>1, <2>1, <3>1
    <3>2. CASE r.first <= e.range.first
      <4>1. e.range.first \in Keys /\ e.range.first < r.second /\ e.range.first < e.range.second
        BY <2>1, <2>2, <2>3, <3>2 DEF Keys, Touches, RangeEmpty
      <4> QED BY <4>1, <2>2, <3>2
    <3> QED BY <3>1, <3>2, <2>1, <2>2
  <2>4. ASSUME Touches(e.range, r), RangeEmpty(e.range)
        PROVE  r.first <= e.range.first /\ e.range.first < r.second
    BY <2>1, <2>2, <2>4 DEF Touches, RangeEmpty
  <2>5. ASSUME NEW k \in Keys, r.first <= k, k < r.second, e.range.first <= k, k < e.range.second
        PROVE  Touches(e.range, r)
    BY <2>1, <2>2, <2>5 DEF Touches, Keys
  <2>6. ASSUME r.first <= e.range.first, e.range.first < r.second
        PROVE  Touches(e.range, r)
    BY <2>6 DEF Touches
  <2> QED BY <2>3, <2>4, <2>5, <2>6
<1> QED BY <1>1, AlwaysWellFormed, PTL

\* A map with an equality comparator never holds two equal entries that meet.
THEOREM AlwaysMaximallyMerged ==
  ASSUME NullAnywhere = FALSE
  PROVE  Spec => []MaximallyMerged
<1>1. IInv => MaximallyMerged
  BY DEF IInv, MaximallyMerged, Merged
<1> QED BY <1>1, AlwaysWellFormed, PTL

-----------------------------------------------------------------------------

\* The value of a key is the value of the only entry that holds it.
LEMMA LookupValues ==
  ASSUME NEW m, WellFormed(m, Values), NEW k \in Int
  PROVE  /\ FindKey(m, k) = {} <=> ValuesAt(m, k) = {}
         /\ FindKey(m, k) # {} =>
              ValuesAt(m, k) = {(CHOOSE e \in FindKey(m, k) : TRUE).value}
<1>1. FindKey(m, k) = Holding(m, k) /\ \A a, b \in Holding(m, k) : a = b
  BY FindKeyHolding
<1>2. ASSUME FindKey(m, k) # {}
      PROVE  ValuesAt(m, k) = {(CHOOSE e \in FindKey(m, k) : TRUE).value}
  <2> DEFINE c == CHOOSE e \in FindKey(m, k) : TRUE
  <2>1. c \in FindKey(m, k)
    BY <1>2
  <2> HIDE DEF c
  <2>2. Holding(m, k) = {c}
    BY <2>1, <1>1
  <2>3. ValuesAt(m, k) = {c.value}
    BY <2>2 DEF ValuesAt
  <2> QED BY <2>3 DEF c
<1>3. FindKey(m, k) = {} <=> ValuesAt(m, k) = {}
  BY <1>1 DEF ValuesAt
<1> QED BY <1>2, <1>3

LookupIn(m, k) ==
  IF FindKey(m, k) = {} THEN NoValue ELSE (CHOOSE e \in FindKey(m, k) : TRUE).value

\* A key is looked up to the value stored for it, or to none.
LEMMA LookupDetermined ==
  ASSUME NEW m, WellFormed(m, Values), NEW k \in Int, NEW W, ValuesAt(m, k) = W
  PROVE  /\ W = {} => LookupIn(m, k) = NoValue
         /\ \A v : W = {v} => LookupIn(m, k) = v
<1>1. W = {} => LookupIn(m, k) = NoValue
  BY LookupValues DEF LookupIn
<1>2. ASSUME NEW v, W = {v}
      PROVE  LookupIn(m, k) = v
  <2>1. FindKey(m, k) # {}
    BY <1>2, LookupValues
  <2>2. {(CHOOSE e \in FindKey(m, k) : TRUE).value} = {v}
    BY <1>2, <2>1, LookupValues
  <2> HIDE DEF FindKey
  <2>3. LookupIn(m, k) = (CHOOSE e \in FindKey(m, k) : TRUE).value
    BY <2>1 DEF LookupIn
  <2> QED BY <2>2, <2>3
<1> QED BY <1>1, <1>2

\* Maps that store the same for a key answer the same, however they group keys.
LEMMA LookupSame ==
  ASSUME NEW m, NEW n, WellFormed(m, Values), WellFormed(n, Values), NEW k \in Int,
         ValuesAt(m, k) = ValuesAt(n, k)
  PROVE  LookupIn(m, k) = LookupIn(n, k)
<1>1. CASE FindKey(m, k) = {}
  BY <1>1, LookupValues DEF LookupIn
<1>2. CASE FindKey(m, k) # {}
  <2>1. ValuesAt(m, k) = {LookupIn(m, k)}
    BY <1>2, LookupValues DEF LookupIn
  <2> QED BY <2>1, LookupDetermined
<1> QED BY <1>1, <1>2

\* The range map is a key map: it splits, trims and joins ranges, and whoever looks up keys
\* sees that each operation has changed the keys of its own range, to its own value, and no other.
THEOREM RangeMapImplementsKeyMap ==
  ASSUME NullAnywhere = FALSE
  PROVE  Spec => ImplementsKeyMap
<1> DEFINE look == [k \in Keys |-> Lookup(k)]
           EachAsAbstract ==
             /\ \A r \in Ranges, v \in Values : Set(r, v) => Abstract!Set(r.first, r.second, v)
             /\ \A r \in Ranges : Erase(r) => Abstract!Erase(r.first, r.second)
             /\ Clear => Abstract!Clear
<1>0. /\ \A k : Lookup(k) = LookupIn(map, k)
      /\ look = [k \in Keys |-> LookupIn(map, k)]
      /\ look' = [k \in Keys |-> LookupIn(map', k)]
  BY DEF Lookup, LookupIn
<1>1. Keys \subseteq Int
  BY RangeMapAssumption DEF Keys
<1>2. Init => look = [k \in Keys |-> NoValue]
  <2>1. ASSUME Init, NEW k \in Keys PROVE Lookup(k) = NoValue
    <3>1. WellFormed({}, Values) /\ ValuesAt({}, k) = {}
      BY DEF WellFormed, Ordered, ValuesAt, Holding
    <3> QED BY <2>1, <3>1, <1>0, <1>1, LookupDetermined DEF Init
  <2> QED BY <2>1
<1>3. ASSUME IInv, IInv', NEW r \in Ranges, NEW v \in Values, Set(r, v)
      PROVE  Abstract!Set(r.first, r.second, v)
  <2>1. r \in KeyRanges /\ RangeValid(r) /\ UsableOn(map, r)
    BY <1>3, UsableOnMap DEF Set
  <2>2. ASSUME NEW k \in Keys
        PROVE  LookupIn(map', k) = IF Abstract!InRange(k, r.first, r.second) THEN v ELSE LookupIn(map, k)
    <3>1. ValuesAt(map', k) = IF Inside(k, r) THEN {v} ELSE ValuesAt(map, k)
      BY <1>1, <1>3, <2>1, SetValues DEF IInv, Set
    <3>2. CASE Inside(k, r)
      BY <3>1, <3>2, <1>1, <1>3, LookupDetermined DEF IInv, Inside, Abstract!InRange
    <3>3. CASE ~Inside(k, r)
      BY <3>1, <3>3, <1>1, <1>3, LookupSame DEF IInv, Inside, Abstract!InRange
    <3> QED BY <3>2, <3>3
  <2>3. look' = [k \in Keys |-> IF Abstract!InRange(k, r.first, r.second) THEN v ELSE look[k]]
    BY <2>2, <1>0
  <2> QED BY <1>3, <2>3 DEF Abstract!Set, Abstract!Write
<1>4. ASSUME IInv, IInv', NEW r \in Ranges, Erase(r)
      PROVE  Abstract!Erase(r.first, r.second)
  <2>1. r \in KeyRanges /\ RangeValid(r) /\ UsableOn(map, r)
    BY <1>4, UsableOnMap DEF Erase
  <2>2. ASSUME NEW k \in Keys
        PROVE  LookupIn(map', k) = IF Abstract!InRange(k, r.first, r.second) THEN NoValue ELSE LookupIn(map, k)
    <3>1. ValuesAt(map', k) = IF Inside(k, r) THEN {} ELSE ValuesAt(map, k)
      BY <1>1, <1>4, <2>1, EraseValues DEF IInv, Erase
    <3>2. CASE Inside(k, r)
      BY <3>1, <3>2, <1>1, <1>4, LookupDetermined DEF IInv, Inside, Abstract!InRange
    <3>3. CASE ~Inside(k, r)
      BY <3>1, <3>3, <1>1, <1>4, LookupSame DEF IInv, Inside, Abstract!InRange
    <3> QED BY <3>2, <3>3
  <2>3. look' = [k \in Keys |-> IF Abstract!InRange(k, r.first, r.second) THEN NoValue ELSE look[k]]
    BY <2>2, <1>0
  <2> QED BY <2>3 DEF Abstract!Erase, Abstract!Write
<1>5. ASSUME IInv', Clear
      PROVE  Abstract!Clear
  <2>1. ASSUME NEW k \in Keys PROVE LookupIn(map', k) = NoValue
    <3>1. ValuesAt(map', k) = {}
      BY <1>5 DEF Clear, ValuesAt, Holding
    <3> QED BY <3>1, <1>1, <1>5, LookupDetermined DEF IInv
  <2> QED BY <2>1, <1>0 DEF Abstract!Clear
<1>6. \A r \in Ranges : r.first \in Bounds /\ r.second \in Bounds /\ r.first <= r.second
  BY DEF Ranges, RangeValid
<1>7. UNCHANGED vars => UNCHANGED look
  BY DEF vars, Lookup
<1>8. IInv /\ IInv' => EachAsAbstract
  BY <1>3, <1>4, <1>5
<1>9. ASSUME IInv, IInv', Next
      PROVE  Abstract!Next
  <2> HIDE DEF look
  <2>1. CASE \E r \in Ranges, v \in Values : Set(r, v)
    BY <1>3, <1>6, <1>9, <2>1 DEF Abstract!Next
  <2>2. CASE \E r \in Ranges : Erase(r)
    BY <1>4, <1>6, <1>9, <2>2 DEF Abstract!Next
  <2>3. CASE Clear
    BY <1>5, <1>9, <2>3 DEF Abstract!Next
  <2> QED BY <1>9, <2>1, <2>2, <2>3 DEF Next
<1>10. IInv /\ IInv' /\ [Next]_vars => [Abstract!Next]_look /\ [EachAsAbstract]_vars
  BY <1>7, <1>8, <1>9
<1>11. Init => Abstract!Init
  BY <1>2 DEF Abstract!Init
<1> QED BY <1>10, <1>11, AlwaysWellFormed, PTL DEF Spec, ImplementsKeyMap, Abstract!Spec
=============================================================================
