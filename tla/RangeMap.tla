------------------------------ MODULE RangeMap ------------------------------
(***************************************************************************)
(* include/ql/utils/rangemap.h: a map from non-overlapping half-open       *)
(* ranges [first, second) of integer keys to values.  The resources of     *)
(* the schedulers keep their reservations in such maps, so a wrong answer  *)
(* of find() is a double booking.                                          *)
(*                                                                         *)
(* The std::map underneath is the set of its entries; the iteration order  *)
(* is RangeBefore.  A null range (first = second) is a legal argument and  *)
(* a legal entry: a gate of duration zero reserves one.                    *)
(***************************************************************************)
EXTENDS Integers

RangePair(f, s) == [first |-> f, second |-> s]
Entry(r, v) == [range |-> r, value |-> v]

RangeValid(r) == r.first <= r.second
RangeEmpty(r) == r.first = r.second

\* RangeCompare: by first key, and the LONGER of two ranges that start together
\* sorts first, so that a null range follows the range that starts where it does.
RangeBefore(a, b) ==
  \/ a.first < b.first
  \/ a.first = b.first /\ a.second > b.second

RangeEntirelyBefore(a, b) == a.second <= b.first

-----------------------------------------------------------------------------
(* find_internal() starts at lower_bound(r) and walks in both directions   *)
(* until the first entry that lies entirely to that side of r.             *)

FindBefore(m, r) ==
  {e \in m : /\ RangeBefore(e.range, r)
             /\ \A x \in m : RangeBefore(x.range, r) /\ ~RangeBefore(x.range, e.range)
                             => ~RangeEntirelyBefore(x.range, r)}

\* Mutant: the walk to the right ends after the entry at lower_bound().
FindAfterOne(m, r) ==
  {e \in m : /\ ~RangeBefore(e.range, r) /\ ~RangeEntirelyBefore(r, e.range)
             /\ \A x \in m : x # e /\ ~RangeBefore(x.range, r) => RangeBefore(e.range, x.range)}

FindAfter(m, r) ==
  {e \in m : /\ ~RangeBefore(e.range, r)
             /\ \A x \in m : ~RangeBefore(x.range, r) /\ ~RangeBefore(e.range, x.range)
                             => ~RangeEntirelyBefore(r, x.range)}

Find(m, r) == FindBefore(m, r) \cup FindAfter(m, r)

\* find() of a single key is find() of the null range at that key.
FindKey(m, k) == Find(m, RangePair(k, k))

MatchType(m, r) ==
  LET found == Find(m, r) IN
  CASE found = {} -> "none"
    [] \E a, b \in found : a # b -> "multiple"
    [] \E a \in found : found = {a} /\ a.range = r -> "exact"
    [] OTHER -> "overlap"          \* PARTIAL, SUPER and SUB: no caller tells them apart

-----------------------------------------------------------------------------
(* set() and erase(): what sticks out of the replaced range on either side *)
(* is put back, with its own value or, when merge says the values are      *)
(* equal, as part of the new range.                                        *)

\* std::map::insert does not replace an entry whose key is there already.
Insert(m, e) == IF \E x \in m : x.range = e.range THEN m ELSE m \cup {e}

IsFirst(m, e) == \A x \in m : x = e \/ RangeBefore(e.range, x.range)
IsLast(m, e)  == \A x \in m : x = e \/ RangeBefore(x.range, e.range)

\* The entry the walk stopped at on either side, if there is one.
PrevOf(m, found, r) ==
  LET left == {x \in m \ found : RangeBefore(x.range, r)} IN {x \in left : IsLast(left, x)}
\* Mutant: the neighbour on the right is not looked at.
NoNext(m, found, r) == {}

NextOf(m, found, r) ==
  LET right == {x \in m \ found : ~RangeBefore(x.range, r)} IN {x \in right : IsFirst(right, x)}

\* Mutant: forget a tail that sticks out.
NoTail(found, r) == {}

SticksOutBefore(found, r) == {e \in found : IsFirst(found, e) /\ e.range.first < r.first}
SticksOutAfter(found, r)  == {e \in found : IsLast(found, e) /\ e.range.second > r.second}

EraseRange(m, r) ==
  LET found  == Find(m, r)
      before == {Entry(RangePair(e.range.first, r.first), e.value) : e \in SticksOutBefore(found, r)}
      after  == {Entry(RangePair(r.second, e.range.second), e.value) : e \in SticksOutAfter(found, r)}
  IN (m \ found) \cup before \cup after

\* merge = TRUE is a map built with an equality comparator, FALSE the default one.
SetRange(m, r, v, merge) ==
  LET found   == Find(m, r)
      equal(e) == merge /\ e.value = v
      headOut == SticksOutBefore(found, r)
      \* The neighbour is only looked at when no found range sticks out.
      headNb  == IF headOut = {} THEN {x \in PrevOf(m, found, r) :
                                         x.range.second = r.first /\ equal(x)} ELSE {}
      start   == {e.range.first : e \in {x \in headOut : equal(x)} \cup headNb}
      first   == IF start = {} THEN r.first ELSE CHOOSE k \in start : TRUE
      tailOut == SticksOutAfter(found, r)
      tailNb  == IF tailOut = {} THEN {x \in NextOf(m, found, r) :
                                         x.range.first = r.second /\ equal(x)} ELSE {}
      stop    == {e.range.second : e \in {x \in tailOut : equal(x)} \cup tailNb}
      second  == IF stop = {} THEN r.second ELSE CHOOSE k \in stop : TRUE
      before  == {Entry(RangePair(e.range.first, r.first), e.value) : e \in {x \in headOut : ~equal(x)}}
      after   == {Entry(RangePair(r.second, e.range.second), e.value) : e \in {x \in tailOut : ~equal(x)}}
      rest    == (m \ (found \cup headNb \cup tailNb)) \cup before \cup after
  IN Insert(rest, Entry(RangePair(first, second), v))

\* check_consistency(): the entries, in order, do not overlap.
Consistent(m) ==
  \A a, b \in m : a # b /\ RangeBefore(a.range, b.range) => RangeEntirelyBefore(a.range, b.range)

=============================================================================
