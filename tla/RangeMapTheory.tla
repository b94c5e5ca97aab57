---------------------------- MODULE RangeMapTheory ---------------------------
(***************************************************************************)
(* Lemmas about the operators of RangeMap, for maps of any size over any   *)
(* integers: when the entries of a map precede one another, the walks of   *)
(* find_internal() miss nothing, and set() and erase() keep the order,     *)
(* change the values of the keys they are given and of no other key, and   *)
(* leave no equal neighbours unmerged.                                     *)
(***************************************************************************)
EXTENDS RangeMap, TLAPS

KeyRanges == [first : Int, second : Int]
Entries(V) == [range : KeyRanges, value : V]

\* The entry a lies before the entry b, also when one of them is null.
Precedes(a, b) == a.range.first < b.range.first /\ a.range.second <= b.range.first

Ordered(m) == \A a, b \in m : a = b \/ Precedes(a, b) \/ Precedes(b, a)

\* What find_internal() and check_consistency() rely on.
WellFormed(m, V) ==
  /\ m \subseteq Entries(V)
  /\ \A e \in m : RangeValid(e.range)
  /\ Ordered(m)

\* What find() is for: ranges that share a key, or one of which is null and starts inside
\* the other.
Touches(a, b) ==
  \/ a.first <= b.first /\ b.first < a.second
  \/ b.first <= a.first /\ a.first < b.second

Touching(m, r) == {e \in m : Touches(e.range, r)}

-----------------------------------------------------------------------------

\* The order of RangeCompare is the order in which entries precede one another.
LEMMA OrderedBefore ==
  ASSUME NEW V, NEW m, WellFormed(m, V), NEW a \in m, NEW b \in m
  PROVE  /\ a # b => (RangeBefore(a.range, b.range) <=> Precedes(a, b))
         /\ a.range = b.range => a = b
<1>1. a \in Entries(V) /\ b \in Entries(V) /\ RangeValid(a.range) /\ RangeValid(b.range)
  BY DEF WellFormed
<1>2. a = b \/ Precedes(a, b) \/ Precedes(b, a)
  BY DEF WellFormed, Ordered
<1> QED BY <1>1, <1>2 DEF Entries, KeyRanges, RangeValid, RangeBefore, Precedes

\* check_consistency() accepts a map whose entries precede one another.
LEMMA OrderedConsistent ==
  ASSUME NEW V, NEW m, WellFormed(m, V)
  PROVE  Consistent(m)
<1> SUFFICES ASSUME NEW a \in m, NEW b \in m, a # b, RangeBefore(a.range, b.range)
             PROVE  RangeEntirelyBefore(a.range, b.range)
  BY DEF Consistent
<1>1. Precedes(a, b)
  BY OrderedBefore
<1> QED BY <1>1 DEF Precedes, RangeEntirelyBefore

\* The walks to the left and to the right stop early, but not too early.
LEMMA FindTouching ==
  ASSUME NEW V, NEW m, WellFormed(m, V), NEW r \in KeyRanges, RangeValid(r)
  PROVE  Find(m, r) = Touching(m, r)
<1>1. ASSUME NEW e \in m
      PROVE  /\ e \in Entries(V) /\ RangeValid(e.range)
             /\ e.range.first \in Int /\ e.range.second \in Int
             /\ e.range.first <= e.range.second
  BY DEF WellFormed, Entries, KeyRanges, RangeValid
<1>2. r.first \in Int /\ r.second \in Int /\ r.first <= r.second
  BY DEF KeyRanges, RangeValid
<1>3. ASSUME NEW e \in FindBefore(m, r)
      PROVE  e \in m /\ RangeBefore(e.range, r) /\ e.range.second > r.first
  <2>1. e \in m /\ RangeBefore(e.range, r)
    BY DEF FindBefore
  <2>2. ~RangeBefore(e.range, e.range)
    BY <2>1, <1>1 DEF RangeBefore
  <2>3. ~RangeEntirelyBefore(e.range, r)
    BY <2>1, <2>2 DEF FindBefore
  <2> QED BY <2>1, <2>3, <1>1, <1>2 DEF RangeEntirelyBefore
<1>4. ASSUME NEW e \in m, RangeBefore(e.range, r), e.range.second > r.first
      PROVE  e \in FindBefore(m, r)
  <2> SUFFICES ASSUME NEW x \in m, RangeBefore(x.range, r), ~RangeBefore(x.range, e.range)
               PROVE  ~RangeEntirelyBefore(x.range, r)
    BY <1>4 DEF FindBefore
  <2>1. CASE x = e
    BY <2>1, <1>4, <1>1, <1>2 DEF RangeEntirelyBefore
  <2>2. CASE x # e
    <3>1. ~Precedes(x, e)
      BY <2>2, OrderedBefore
    <3>2. Precedes(e, x)
      BY <3>1, <2>2 DEF WellFormed, Ordered
    <3> QED BY <3>2, <1>4, <1>1, <1>2 DEF Precedes, RangeBefore
  <2> QED BY <2>1, <2>2
<1>5. ASSUME NEW e \in FindAfter(m, r)
      PROVE  e \in m /\ ~RangeBefore(e.range, r) /\ e.range.first < r.second
  <2>1. e \in m /\ ~RangeBefore(e.range, r)
    BY DEF FindAfter
  <2>2. ~RangeBefore(e.range, e.range)
    BY <2>1, <1>1 DEF RangeBefore
  <2>3. ~RangeEntirelyBefore(r, e.range)
    BY <2>1, <2>2 DEF FindAfter
  <2> QED BY <2>1, <2>3, <1>1, <1>2 DEF RangeEntirelyBefore
<1>6. ASSUME NEW e \in m, ~RangeBefore(e.range, r), e.range.first < r.second
      PROVE  e \in FindAfter(m, r)
  <2> SUFFICES ASSUME NEW x \in m, ~RangeBefore(x.range, r), ~RangeBefore(e.range, x.range)
               PROVE  ~RangeEntirelyBefore(r, x.range)
    BY <1>6 DEF FindAfter
  <2>1. CASE x = e
    BY <2>1, <1>6, <1>1, <1>2 DEF RangeEntirelyBefore
  <2>2. CASE x # e
    <3>1. ~Precedes(e, x)
      BY <2>2, OrderedBefore
    <3>2. Precedes(x, e)
      BY <3>1, <2>2 DEF WellFormed, Ordered
    <3> QED BY <3>2, <1>6, <1>1, <1>2 DEF Precedes, RangeEntirelyBefore
  <2> QED BY <2>1, <2>2
<1>7. ASSUME NEW e \in m
      PROVE  e \in Find(m, r) <=> Touches(e.range, r)
  <2>1. e \in FindBefore(m, r) <=> RangeBefore(e.range, r) /\ e.range.second > r.first
    BY <1>3, <1>4
  <2>2. e \in FindAfter(m, r) <=> ~RangeBefore(e.range, r) /\ e.range.first < r.second
    BY <1>5, <1>6
  <2>3. e.range.first \in Int /\ e.range.second \in Int /\ e.range.first <= e.range.second
    BY <1>1
  <2>4. (RangeBefore(e.range, r) /\ e.range.second > r.first)
          \/ (~RangeBefore(e.range, r) /\ e.range.first < r.second)
        <=> Touches(e.range, r)
    BY <2>3, <1>2 DEF RangeBefore, Touches
  <2> QED BY <2>1, <2>2, <2>4 DEF Find
<1>8. Find(m, r) \subseteq m
  BY DEF Find, FindBefore, FindAfter
<1> QED BY <1>7, <1>8 DEF Touching

-----------------------------------------------------------------------------
(* What sticks out of the replaced range, without the walks.               *)

\* A null range is only used where nothing is.
UsableOn(m, r) == ~RangeEmpty(r) \/ Touching(m, r) = {}

HeadOut(m, r) == {e \in m : e.range.first < r.first /\ r.first < e.range.second}
TailOut(m, r) == {e \in Touching(m, r) : e.range.second > r.second}

\* An entry is determined by its two keys and its value.
LEMMA EntryShape ==
  ASSUME NEW V, NEW m, WellFormed(m, V), NEW e \in m
  PROVE  /\ e = Entry(RangePair(e.range.first, e.range.second), e.value)
         /\ e.value \in V
         /\ e.range.first \in Int /\ e.range.second \in Int
         /\ e.range.first <= e.range.second
BY DEF WellFormed, Entries, KeyRanges, RangeValid, Entry, RangePair

\* The first range found is the only one that can stick out at the left, the last one
\* the only one that can at the right.
LEMMA SticksOut ==
  ASSUME NEW V, NEW m, WellFormed(m, V), NEW r \in KeyRanges, RangeValid(r)
  PROVE  /\ SticksOutBefore(Find(m, r), r) = HeadOut(m, r)
         /\ SticksOutAfter(Find(m, r), r) = TailOut(m, r)
         /\ \A a, b \in HeadOut(m, r) : a = b
         /\ \A a, b \in TailOut(m, r) : a = b
<1>1. Find(m, r) = Touching(m, r)
  BY FindTouching
<1>2. r.first \in Int /\ r.second \in Int /\ r.first <= r.second
  BY DEF KeyRanges, RangeValid
<1>3. HeadOut(m, r) = {e \in Touching(m, r) : e.range.first < r.first}
  <2> SUFFICES ASSUME NEW e \in m, e.range.first < r.first
               PROVE  r.first < e.range.second <=> Touches(e.range, r)
    BY DEF HeadOut, Touching
  <2> QED BY EntryShape, <1>2 DEF Touches
<1>4. ASSUME NEW e \in Touching(m, r), e.range.first < r.first, NEW x \in Touching(m, r), x # e
      PROVE  RangeBefore(e.range, x.range)
  <2>1. e \in m /\ x \in m /\ Touches(e.range, r) /\ Touches(x.range, r)
    BY DEF Touching
  <2>2. Precedes(e, x) \/ Precedes(x, e)
    BY <1>4, <2>1 DEF WellFormed, Ordered
  <2> QED BY <2>1, <2>2, <1>2, <1>4, EntryShape DEF Touches, Precedes, RangeBefore
<1>5. ASSUME NEW e \in Touching(m, r), e.range.second > r.second, NEW x \in Touching(m, r), x # e
      PROVE  RangeBefore(x.range, e.range)
  <2>1. e \in m /\ x \in m /\ Touches(e.range, r) /\ Touches(x.range, r)
    BY DEF Touching
  <2>2. Precedes(e, x) \/ Precedes(x, e)
    BY <1>5, <2>1 DEF WellFormed, Ordered
  <2> QED BY <2>1, <2>2, <1>2, <1>5, EntryShape DEF Touches, Precedes, RangeBefore
<1>6. ASSUME NEW a \in m, NEW b \in m, RangeBefore(a.range, b.range), RangeBefore(b.range, a.range)
      PROVE  FALSE
  BY <1>6, EntryShape DEF RangeBefore
<1>7. SticksOutBefore(Find(m, r), r) = HeadOut(m, r)
  BY <1>1, <1>3, <1>4 DEF SticksOutBefore, IsFirst
<1>8. SticksOutAfter(Find(m, r), r) = TailOut(m, r)
  BY <1>1, <1>5 DEF SticksOutAfter, IsLast, TailOut
<1>9. \A a, b \in HeadOut(m, r) : a = b
  BY <1>3, <1>4, <1>6 DEF Touching
<1>10. \A a, b \in TailOut(m, r) : a = b
  BY <1>5, <1>6 DEF Touching, TailOut
<1> QED BY <1>7, <1>8, <1>9, <1>10

LeftPiece(e, r) == Entry(RangePair(e.range.first, r.first), e.value)
RightPiece(e, r) == Entry(RangePair(r.second, e.range.second), e.value)

\* erase() keeps what r does not touch and both ends of what it does.
LEMMA EraseShape ==
  ASSUME NEW V, NEW m, WellFormed(m, V), NEW r \in KeyRanges, RangeValid(r)
  PROVE  EraseRange(m, r) = (m \ Touching(m, r)) \cup {LeftPiece(e, r) : e \in HeadOut(m, r)}
                              \cup {RightPiece(e, r) : e \in TailOut(m, r)}
BY FindTouching, SticksOut DEF EraseRange, LeftPiece, RightPiece

\* Where an entry of the erased map comes from, and on which side of r it lies.
PieceOf(m, r, x, e) ==
  /\ e \in m /\ x.value = e.value
  /\ \/ x = e /\ x \notin Touching(m, r)
     \/ x = LeftPiece(e, r) /\ e.range.first < r.first /\ r.first < e.range.second
     \/ /\ x = RightPiece(e, r) /\ ~RangeEmpty(r)
        /\ e.range.first < r.second /\ r.second < e.range.second

\* Nothing is in the erased map that is not an entry or a piece of one.
LEMMA ErasedFrom ==
  ASSUME NEW V, NEW m, WellFormed(m, V), NEW r \in KeyRanges, RangeValid(r), UsableOn(m, r),
         NEW x \in EraseRange(m, r)
  PROVE  \E e \in m : PieceOf(m, r, x, e)
<1>1. r.first \in Int /\ r.second \in Int /\ r.first <= r.second
  BY DEF KeyRanges, RangeValid
<1>2. CASE x \in m \ Touching(m, r)
  BY <1>2 DEF PieceOf
<1>3. CASE x \in {LeftPiece(e, r) : e \in HeadOut(m, r)}
  <2>1. PICK e \in HeadOut(m, r) : x = LeftPiece(e, r)
    BY <1>3
  <2> QED BY <2>1 DEF PieceOf, HeadOut, LeftPiece, Entry
<1>4. CASE x \in {RightPiece(e, r) : e \in TailOut(m, r)}
  <2>1. PICK e \in TailOut(m, r) : x = RightPiece(e, r)
    BY <1>4
  <2>2. e \in m /\ Touches(e.range, r) /\ e.range.second > r.second /\ ~RangeEmpty(r)
    BY DEF TailOut, Touching, UsableOn
  <2>3. e.range.first < r.second /\ r.second < e.range.second
    BY <2>2, <1>1, EntryShape DEF Touches, RangeEmpty
  <2>4. x.value = e.value
    BY <2>1 DEF RightPiece, Entry
  <2> QED BY <2>1, <2>2, <2>3, <2>4 DEF PieceOf
<1> QED BY <1>2, <1>3, <1>4, EraseShape

\* erase() keeps the entries in order and leaves nothing that r touches.
LEMMA EraseWellFormed ==
  ASSUME NEW V, NEW m, WellFormed(m, V), NEW r \in KeyRanges, RangeValid(r), UsableOn(m, r)
  PROVE  WellFormed(EraseRange(m, r), V) /\ Touching(EraseRange(m, r), r) = {}
<1>1. r.first \in Int /\ r.second \in Int /\ r.first <= r.second
  BY DEF KeyRanges, RangeValid
<1>2. ASSUME NEW x \in EraseRange(m, r)
      PROVE  x \in Entries(V) /\ RangeValid(x.range) /\ ~Touches(x.range, r)
  <2>1. PICK e \in m : PieceOf(m, r, x, e)
    BY ErasedFrom
  <2>2. e \in Entries(V) /\ e.range.first \in Int /\ e.range.second \in Int
        /\ e.range.first <= e.range.second /\ e.value \in V
    BY EntryShape DEF WellFormed
  <2>3. CASE x = e /\ x \notin Touching(m, r)
    BY <2>3, <2>2 DEF Touching, RangeValid
  <2>4. CASE x = LeftPiece(e, r) /\ e.range.first < r.first /\ r.first < e.range.second
    BY <2>4, <2>2, <1>1 DEF LeftPiece, Entry, RangePair, Entries, KeyRanges, RangeValid, Touches
  <2>5. CASE /\ x = RightPiece(e, r) /\ ~RangeEmpty(r)
             /\ e.range.first < r.second /\ r.second < e.range.second
    BY <2>5, <2>2, <1>1 DEF RangeEmpty, RightPiece, Entry, RangePair, Entries, KeyRanges, RangeValid, Touches
  <2> QED BY <2>1, <2>3, <2>4, <2>5 DEF PieceOf
<1>3. ASSUME NEW x \in EraseRange(m, r), NEW y \in EraseRange(m, r), x # y
      PROVE  Precedes(x, y) \/ Precedes(y, x)
  <2>1. PICK d \in m : PieceOf(m, r, x, d)
    BY ErasedFrom
  <2>2. PICK e \in m : PieceOf(m, r, y, e)
    BY ErasedFrom
  <2>3. /\ d.range.first \in Int /\ d.range.second \in Int /\ d.range.first <= d.range.second
        /\ e.range.first \in Int /\ e.range.second \in Int /\ e.range.first <= e.range.second
    BY EntryShape
  <2>4. /\ d.range.first <= x.range.first /\ x.range.second <= d.range.second
        /\ x.range.first \in Int /\ x.range.second \in Int
        /\ x.range.first <= x.range.second
    <3>1. CASE x = d
      BY <3>1, <2>3
    <3>2. CASE x = LeftPiece(d, r) /\ d.range.first < r.first /\ r.first < d.range.second
      BY <3>2, <2>3, <1>1 DEF LeftPiece, Entry, RangePair
    <3>3. CASE x = RightPiece(d, r) /\ d.range.first < r.second /\ r.second < d.range.second
      BY <3>3, <2>3, <1>1 DEF RightPiece, Entry, RangePair
    <3> QED BY <2>1, <3>1, <3>2, <3>3 DEF PieceOf
  <2>5. /\ e.range.first <= y.range.first /\ y.range.second <= e.range.second
        /\ y.range.first \in Int /\ y.range.second \in Int
        /\ y.range.first <= y.range.second
    <3>1. CASE y = e
      BY <3>1, <2>3
    <3>2. CASE y = LeftPiece(e, r) /\ e.range.first < r.first /\ r.first < e.range.second
      BY <3>2, <2>3, <1>1 DEF LeftPiece, Entry, RangePair
    <3>3. CASE y = RightPiece(e, r) /\ e.range.first < r.second /\ r.second < e.range.second
      BY <3>3, <2>3, <1>1 DEF RightPiece, Entry, RangePair
    <3> QED BY <2>2, <3>1, <3>2, <3>3 DEF PieceOf
  <2>6. ~(x.range.first = d.range.first) => x = RightPiece(d, r)
    BY <2>1 DEF PieceOf, LeftPiece, Entry, RangePair
  <2>7. CASE d # e
    <3>1. Precedes(d, e) \/ Precedes(e, d)
      BY <2>7 DEF WellFormed, Ordered
    <3>2. CASE Precedes(d, e)
      <4>1. x.range.first < e.range.first
        <5>1. CASE x = d
          BY <5>1, <3>2 DEF Precedes
        <5>2. CASE x = LeftPiece(d, r)
          BY <5>2, <3>2 DEF Precedes, LeftPiece, Entry, RangePair
        <5>3. CASE x = RightPiece(d, r) /\ r.second < d.range.second
          BY <5>3, <3>2, <2>3, <1>1 DEF Precedes, RightPiece, Entry, RangePair
        <5> QED BY <2>1, <5>1, <5>2, <5>3 DEF PieceOf
      <4> QED BY <4>1, <3>2, <2>3, <2>4, <2>5 DEF Precedes
    <3>3. CASE Precedes(e, d)
      <4>1. y.range.first < d.range.first
        <5>1. CASE y = e
          BY <5>1, <3>3 DEF Precedes
        <5>2. CASE y = LeftPiece(e, r)
          BY <5>2, <3>3 DEF Precedes, LeftPiece, Entry, RangePair
        <5>3. CASE y = RightPiece(e, r) /\ r.second < e.range.second
          BY <5>3, <3>3, <2>3, <1>1 DEF Precedes, RightPiece, Entry, RangePair
        <5> QED BY <2>2, <5>1, <5>2, <5>3 DEF PieceOf
      <4> QED BY <4>1, <3>3, <2>3, <2>4, <2>5 DEF Precedes
    <3> QED BY <3>1, <3>2, <3>3
  <2>8. CASE d = e
    <3>1. CASE x = d /\ x \notin Touching(m, r)
      <4>1. ~Touches(d.range, r)
        BY <3>1 DEF Touching
      <4>2. ~(d.range.first < r.first /\ r.first < d.range.second)
        BY <4>1, <2>3, <1>1 DEF Touches
      <4>3. ~(d.range.first < r.second /\ r.second < d.range.second)
        BY <4>1, <2>3, <1>1 DEF Touches
      <4> QED BY <4>2, <4>3, <2>2, <2>8, <1>3, <3>1 DEF PieceOf
    <3>2. CASE x = LeftPiece(d, r) /\ d.range.first < r.first /\ r.first < d.range.second
      <4>1. Touches(d.range, r)
        BY <3>2, <2>3, <1>1 DEF Touches
      <4>2. y = RightPiece(d, r)
        BY <4>1, <2>2, <2>8, <1>3, <3>2 DEF PieceOf, Touching
      <4> QED BY <3>2, <4>2, <2>3, <1>1 DEF LeftPiece, RightPiece, Entry, RangePair, Precedes
    <3>3. CASE x = RightPiece(d, r) /\ d.range.first < r.second /\ r.second < d.range.second
      <4>1. d \in Touching(m, r) \/ RangeEmpty(r)
        BY <3>3, <2>3, <1>1 DEF Touches, Touching, RangeEmpty
      <4>2. d \in Touching(m, r)
        BY <3>3, <4>1, <2>3, <1>1 DEF UsableOn, Touches, Touching, RangeEmpty
      <4>3. y = LeftPiece(d, r) /\ d.range.first < r.first
        BY <4>2, <2>2, <2>8, <1>3, <3>3 DEF PieceOf
      <4> QED BY <3>3, <4>3, <2>3, <1>1 DEF LeftPiece, RightPiece, Entry, RangePair, Precedes
    <3> QED BY <2>1, <3>1, <3>2, <3>3 DEF PieceOf
  <2> QED BY <2>7, <2>8
<1>4. WellFormed(EraseRange(m, r), V)
  BY <1>2, <1>3 DEF WellFormed, Ordered
<1> QED BY <1>2, <1>4 DEF Touching

-----------------------------------------------------------------------------
(* set() is erase() followed by one insertion, of the range joined with    *)
(* its equal neighbours.                                                   *)

LeftJoin(m, r, v, merge) ==
  {x \in m : merge /\ x.value = v /\ x.range.second = r.first /\ x.range.first < r.first}
RightJoin(m, r, v, merge) ==
  {x \in m : merge /\ x.value = v /\ x.range.first = r.second}

Joined(m, r, v, merge, first, second) ==
  /\ \/ LeftJoin(m, r, v, merge) = {} /\ first = r.first
     \/ \E x \in LeftJoin(m, r, v, merge) : first = x.range.first
  /\ \/ RightJoin(m, r, v, merge) = {} /\ second = r.second
     \/ \E x \in RightJoin(m, r, v, merge) : second = x.range.second

\* The neighbour the walk to the left stopped at is the only entry that ends where r
\* begins, and there is none when the head of an entry sticks out.
LEMMA LeftNeighbour ==
  ASSUME NEW V, NEW m, WellFormed(m, V), NEW r \in KeyRanges, RangeValid(r), UsableOn(m, r),
         NEW v, NEW merge
  PROVE  /\ {x \in PrevOf(m, Find(m, r), r) : x.range.second = r.first /\ merge /\ x.value = v}
              = LeftJoin(m, r, v, merge)
         /\ HeadOut(m, r) # {} => LeftJoin(m, r, v, merge) = {}
<1>1. r.first \in Int /\ r.second \in Int /\ r.first <= r.second
  BY DEF KeyRanges, RangeValid
<1>2. ASSUME NEW x \in m, x.range.second = r.first, x.range.first < r.first
      PROVE  x \in PrevOf(m, Find(m, r), r)
  <2>1. ~Touches(x.range, r) /\ RangeBefore(x.range, r)
    BY <1>1, <1>2, EntryShape DEF Touches, RangeBefore
  <2>2. x \in m \ Find(m, r)
    BY <2>1, FindTouching DEF Touching
  <2>3. ASSUME NEW y \in m \ Find(m, r), RangeBefore(y.range, r), y # x
        PROVE  RangeBefore(y.range, x.range)
    <3>1. ~Touches(y.range, r)
      BY <2>3, FindTouching DEF Touching
    <3>2. Precedes(x, y) \/ Precedes(y, x)
      BY <2>3 DEF WellFormed, Ordered
    <3> QED BY <1>1, <1>2, <2>3, <3>1, <3>2, EntryShape DEF Touches, RangeBefore, Precedes
  <2> QED BY <2>1, <2>2, <2>3 DEF PrevOf, IsLast
<1>3. ASSUME NEW x \in PrevOf(m, Find(m, r), r), x.range.second = r.first
      PROVE  x \in m /\ x.range.first < r.first
  <2>1. x \in m /\ RangeBefore(x.range, r) /\ ~Touches(x.range, r)
    BY <1>3, FindTouching DEF PrevOf, Touching
  <2> QED BY <1>1, <1>3, <2>1, EntryShape DEF RangeBefore, Touches
<1>4. ASSUME NEW h \in HeadOut(m, r), NEW x \in LeftJoin(m, r, v, merge)
      PROVE  FALSE
  <2>1. h \in m /\ x \in m /\ h # x
    BY <1>1, EntryShape DEF HeadOut, LeftJoin
  <2>2. Precedes(x, h) \/ Precedes(h, x)
    BY <2>1 DEF WellFormed, Ordered
  <2> QED BY <1>1, <2>1, <2>2, EntryShape DEF HeadOut, LeftJoin, Precedes
<1> QED BY <1>2, <1>3, <1>4 DEF LeftJoin

\* The same on the right.
LEMMA RightNeighbour ==
  ASSUME NEW V, NEW m, WellFormed(m, V), NEW r \in KeyRanges, RangeValid(r), UsableOn(m, r),
         NEW v, NEW merge
  PROVE  /\ {x \in NextOf(m, Find(m, r), r) : x.range.first = r.second /\ merge /\ x.value = v}
              = RightJoin(m, r, v, merge)
         /\ TailOut(m, r) # {} => RightJoin(m, r, v, merge) = {}
         /\ RightJoin(m, r, v, merge) \cap Touching(m, r) = {}
<1>1. r.first \in Int /\ r.second \in Int /\ r.first <= r.second
  BY DEF KeyRanges, RangeValid
<1>2. ASSUME NEW x \in m, x.range.first = r.second
      PROVE  x \in NextOf(m, Find(m, r), r) /\ x \notin Touching(m, r)
  <2>1. ~Touches(x.range, r)
    BY <1>1, <1>2, EntryShape DEF Touches, Touching, UsableOn, RangeEmpty
  <2>2. x \in m \ Find(m, r) /\ ~RangeBefore(x.range, r)
    BY <1>1, <1>2, <2>1, FindTouching, EntryShape DEF Touching, Touches, RangeBefore
  <2>3. ASSUME NEW y \in m \ Find(m, r), ~RangeBefore(y.range, r), y # x
        PROVE  RangeBefore(x.range, y.range)
    <3>1. ~Touches(y.range, r)
      BY <2>3, FindTouching DEF Touching
    <3>2. Precedes(x, y) \/ Precedes(y, x)
      BY <2>3 DEF WellFormed, Ordered
    <3> QED BY <1>1, <1>2, <2>3, <3>1, <3>2, EntryShape DEF Touches, RangeBefore, Precedes
  <2> QED BY <2>1, <2>2, <2>3 DEF NextOf, IsFirst, Touching
<1>3. ASSUME NEW h \in TailOut(m, r), NEW x \in RightJoin(m, r, v, merge)
      PROVE  FALSE
  <2>1. h \in m /\ x \in m /\ Touches(h.range, r) /\ h.range.second > r.second /\ ~RangeEmpty(r)
    BY DEF TailOut, RightJoin, Touching, UsableOn
  <2>2. h.range.first < r.second
    BY <1>1, <2>1, EntryShape DEF Touches, RangeEmpty
  <2>3. x.range.first = r.second
    BY DEF RightJoin
  <2>4. Precedes(x, h) \/ Precedes(h, x)
    BY <1>1, <2>1, <2>2, <2>3, EntryShape DEF WellFormed, Ordered
  <2> QED BY <1>1, <2>1, <2>2, <2>3, <2>4, EntryShape DEF Precedes
<1>4. NextOf(m, Find(m, r), r) \subseteq m
  BY DEF NextOf
<1> QED BY <1>2, <1>3, <1>4 DEF RightJoin

\* Erasing first changes the neighbours to join with by exactly the ends that stick out.
LEMMA JoinAfterErase ==
  ASSUME NEW V, NEW m, WellFormed(m, V), NEW r \in KeyRanges, RangeValid(r), UsableOn(m, r),
         NEW v, NEW merge
  PROVE  /\ LeftJoin(EraseRange(m, r), r, v, merge)
              = LeftJoin(m, r, v, merge)
                  \cup {LeftPiece(e, r) : e \in {x \in HeadOut(m, r) : merge /\ x.value = v}}
         /\ RightJoin(EraseRange(m, r), r, v, merge)
              = RightJoin(m, r, v, merge)
                  \cup {RightPiece(e, r) : e \in {x \in TailOut(m, r) : merge /\ x.value = v}}
<1> DEFINE E == EraseRange(m, r)
<1>1. r.first \in Int /\ r.second \in Int /\ r.first <= r.second
  BY DEF KeyRanges, RangeValid
<1>2. E = (m \ Touching(m, r)) \cup {LeftPiece(e, r) : e \in HeadOut(m, r)}
            \cup {RightPiece(e, r) : e \in TailOut(m, r)}
  BY EraseShape
<1>3. ASSUME NEW e \in HeadOut(m, r)
      PROVE  /\ LeftPiece(e, r).value = e.value
             /\ LeftPiece(e, r).range.first = e.range.first /\ e.range.first < r.first
             /\ LeftPiece(e, r).range.second = r.first
  BY DEF LeftPiece, Entry, RangePair, HeadOut
<1>4. ASSUME NEW e \in TailOut(m, r)
      PROVE  /\ RightPiece(e, r).value = e.value
             /\ RightPiece(e, r).range.first = r.second
             /\ RightPiece(e, r).range.second = e.range.second
             /\ e.range.second \in Int /\ e.range.second > r.second
  BY EntryShape DEF RightPiece, Entry, RangePair, TailOut, Touching
<1>5. LeftJoin(m, r, v, merge) \subseteq m \ Touching(m, r)
  BY <1>1, EntryShape DEF LeftJoin, Touching, Touches
<1>6. RightJoin(m, r, v, merge) \subseteq m \ Touching(m, r)
  BY RightNeighbour DEF RightJoin
<1>7. ASSUME NEW x \in LeftJoin(E, r, v, merge)
      PROVE  x \in LeftJoin(m, r, v, merge)
                    \cup {LeftPiece(e, r) : e \in {y \in HeadOut(m, r) : merge /\ y.value = v}}
  <2>1. x \in E /\ merge /\ x.value = v /\ x.range.second = r.first /\ x.range.first < r.first
    BY DEF LeftJoin
  <2>2. CASE x \in m
    BY <2>1, <2>2 DEF LeftJoin
  <2>3. ASSUME NEW e \in HeadOut(m, r), x = LeftPiece(e, r)
        PROVE  x \in {LeftPiece(d, r) : d \in {y \in HeadOut(m, r) : merge /\ y.value = v}}
    BY <2>1, <2>3, <1>3
  <2>4. ~ \E e \in TailOut(m, r) : x = RightPiece(e, r)
    BY <2>1, <1>4, <1>1
  <2> QED BY <2>1, <2>2, <2>3, <2>4, <1>2
<1>8. ASSUME NEW x \in RightJoin(E, r, v, merge)
      PROVE  x \in RightJoin(m, r, v, merge)
                    \cup {RightPiece(e, r) : e \in {y \in TailOut(m, r) : merge /\ y.value = v}}
  <2>1. x \in E /\ merge /\ x.value = v /\ x.range.first = r.second
    BY DEF RightJoin
  <2>2. CASE x \in m
    BY <2>1, <2>2 DEF RightJoin
  <2>3. ASSUME NEW e \in TailOut(m, r), x = RightPiece(e, r)
        PROVE  x \in {RightPiece(d, r) : d \in {y \in TailOut(m, r) : merge /\ y.value = v}}
    BY <2>1, <2>3, <1>4
  <2>4. ~ \E e \in HeadOut(m, r) : x = LeftPiece(e, r)
    <3> SUFFICES ASSUME NEW e \in HeadOut(m, r), x = LeftPiece(e, r) PROVE FALSE
      OBVIOUS
    <3>1. e.range.first = r.second /\ e.range.first < r.first
      BY <2>1, <1>3
    <3> QED BY <3>1, <1>1
  <2> QED BY <2>1, <2>2, <2>3, <2>4, <1>2
<1>9. LeftJoin(m, r, v, merge) \subseteq LeftJoin(E, r, v, merge)
  BY <1>5, <1>2 DEF LeftJoin
<1>10. RightJoin(m, r, v, merge) \subseteq RightJoin(E, r, v, merge)
  BY <1>6, <1>2 DEF RightJoin
<1>11. ASSUME NEW e \in HeadOut(m, r), merge, e.value = v
       PROVE  LeftPiece(e, r) \in LeftJoin(E, r, v, merge)
  BY <1>11, <1>3, <1>2 DEF LeftJoin
<1>12. ASSUME NEW e \in TailOut(m, r), merge, e.value = v
       PROVE  RightPiece(e, r) \in RightJoin(E, r, v, merge)
  BY <1>12, <1>4, <1>2 DEF RightJoin
<1> QED BY <1>7, <1>8, <1>9, <1>10, <1>11, <1>12

\* set() does what erase() and the insertion of one joined range do.
LEMMA SetAsErase ==
  ASSUME NEW V, NEW m, WellFormed(m, V), NEW r \in KeyRanges, RangeValid(r), UsableOn(m, r),
         NEW v, NEW merge
  PROVE  LET E == EraseRange(m, r)
             L == LeftJoin(E, r, v, merge)
             R == RightJoin(E, r, v, merge)
         IN \E first, second :
              /\ Joined(E, r, v, merge, first, second)
              /\ SetRange(m, r, v, merge)
                   = Insert(E \ (L \cup R), Entry(RangePair(first, second), v))
<1> DEFINE E       == EraseRange(m, r)
           L       == LeftJoin(E, r, v, merge)
           R       == RightJoin(E, r, v, merge)
           L0      == LeftJoin(m, r, v, merge)
           R0      == RightJoin(m, r, v, merge)
           found   == Find(m, r)
           equal(e) == merge /\ e.value = v
           headOut == SticksOutBefore(found, r)
           headNb  == IF headOut = {} THEN {x \in PrevOf(m, found, r) :
                                              x.range.second = r.first /\ equal(x)} ELSE {}
           start   == {e.range.first : e \in {x \in headOut : equal(x)} \cup headNb}
           first   == IF start = {} THEN r.first ELSE CHOOSE k \in start : TRUE
           tailOut == SticksOutAfter(found, r)
           tailNb  == IF tailOut = {} THEN {x \in NextOf(m, found, r) :
                                              x.range.first = r.second /\ equal(x)} ELSE {}
           stop    == {e.range.second : e \in {x \in tailOut : equal(x)} \cup tailNb}
           second  == IF stop = {} THEN r.second ELSE CHOOSE k \in stop : TRUE
           before  == {Entry(RangePair(e.range.first, r.first), e.value)
                         : e \in {x \in headOut : ~equal(x)}}
           after   == {Entry(RangePair(r.second, e.range.second), e.value)
                         : e \in {x \in tailOut : ~equal(x)}}
           rest    == (m \ (found \cup headNb \cup tailNb)) \cup before \cup after
<1>1. headOut = HeadOut(m, r) /\ tailOut = TailOut(m, r) /\ found = Touching(m, r)
  BY SticksOut, FindTouching
<1>2. headNb = L0
  <2>1. {x \in PrevOf(m, found, r) : x.range.second = r.first /\ equal(x)} = L0
    BY LeftNeighbour
  <2>2. headOut # {} => L0 = {}
    BY <1>1, LeftNeighbour
  <2> HIDE DEF headOut, L0, found
  <2> QED BY <2>1, <2>2
<1>3. tailNb = R0
  <2>1. {x \in NextOf(m, found, r) : x.range.first = r.second /\ equal(x)} = R0
    BY RightNeighbour
  <2>2. tailOut # {} => R0 = {}
    BY <1>1, RightNeighbour
  <2> HIDE DEF tailOut, R0, found
  <2> QED BY <2>1, <2>2
<1>4. /\ L = L0 \cup {LeftPiece(e, r) : e \in {x \in HeadOut(m, r) : equal(x)}}
      /\ R = R0 \cup {RightPiece(e, r) : e \in {x \in TailOut(m, r) : equal(x)}}
  BY JoinAfterErase
<1>5. start = {x.range.first : x \in L}
  <2>1. \A e : LeftPiece(e, r).range.first = e.range.first
    BY DEF LeftPiece, Entry, RangePair
  <2>2. start = {e.range.first : e \in {x \in HeadOut(m, r) : equal(x)} \cup L0}
    BY <1>1, <1>2
  <2> HIDE DEF start, L, L0
  <2> QED BY <2>1, <2>2, <1>4
<1>6. stop = {x.range.second : x \in R}
  <2>1. \A e : RightPiece(e, r).range.second = e.range.second
    BY DEF RightPiece, Entry, RangePair
  <2>2. stop = {e.range.second : e \in {x \in TailOut(m, r) : equal(x)} \cup R0}
    BY <1>1, <1>3
  <2> HIDE DEF stop, R, R0
  <2> QED BY <2>1, <2>2, <1>4
<1>7. Joined(E, r, v, merge, first, second)
  <2>1. (L = {} /\ first = r.first) \/ \E x \in L : first = x.range.first
    <3> HIDE DEF start, L
    <3>1. CASE start = {}
      BY <3>1, <1>5
    <3>2. CASE start # {}
      <4>1. first \in start
        BY <3>2
      <4> QED BY <4>1, <1>5
    <3> QED BY <3>1, <3>2
  <2>2. (R = {} /\ second = r.second) \/ \E x \in R : second = x.range.second
    <3> HIDE DEF stop, R
    <3>1. CASE stop = {}
      BY <3>1, <1>6
    <3>2. CASE stop # {}
      <4>1. second \in stop
        BY <3>2
      <4> QED BY <4>1, <1>6
    <3> QED BY <3>1, <3>2
  <2> HIDE DEF first, second
  <2> QED BY <2>1, <2>2 DEF Joined
<1>8. rest = E \ (L \cup R)
  <2>1. before = {LeftPiece(e, r) : e \in {x \in HeadOut(m, r) : ~equal(x)}}
    BY <1>1 DEF LeftPiece
  <2>2. after = {RightPiece(e, r) : e \in {x \in TailOut(m, r) : ~equal(x)}}
    BY <1>1 DEF RightPiece
  <2>3. E = (m \ Touching(m, r)) \cup {LeftPiece(e, r) : e \in HeadOut(m, r)}
              \cup {RightPiece(e, r) : e \in TailOut(m, r)}
    BY EraseShape
  <2>4. rest = (m \ (Touching(m, r) \cup L0 \cup R0)) \cup before \cup after
    BY <1>1, <1>2, <1>3
  <2>5. \A e : LeftPiece(e, r).value = e.value /\ RightPiece(e, r).value = e.value
    BY DEF LeftPiece, RightPiece, Entry
  <2>6. \A x \in L \cup R : x \in E /\ equal(x)
    BY DEF LeftJoin, RightJoin
  <2>7. L \cap m \subseteq L0 /\ R \cap m \subseteq R0
    BY DEF LeftJoin, RightJoin
  <2> HIDE DEF rest, E, L, R, L0, R0, before, after
  <2>8. ASSUME NEW x \in rest PROVE x \in E /\ x \notin L \cup R
    <3>1. CASE x \in m \ (Touching(m, r) \cup L0 \cup R0)
      BY <3>1, <2>3, <2>7
    <3>2. CASE x \in before
      BY <3>2, <2>1, <2>3, <2>5, <2>6
    <3>3. CASE x \in after
      BY <3>3, <2>2, <2>3, <2>5, <2>6
    <3> QED BY <3>1, <3>2, <3>3, <2>4
  <2>9. ASSUME NEW x \in E, x \notin L \cup R PROVE x \in rest
    <3>1. CASE x \in m \ Touching(m, r)
      BY <3>1, <2>9, <2>4, <1>4
    <3>2. CASE x \in {LeftPiece(e, r) : e \in HeadOut(m, r)}
      BY <3>2, <2>9, <2>4, <2>1, <1>4
    <3>3. CASE x \in {RightPiece(e, r) : e \in TailOut(m, r)}
      BY <3>3, <2>9, <2>4, <2>2, <1>4
    <3> QED BY <3>1, <3>2, <3>3, <2>3
  <2> QED BY <2>8, <2>9
<1>9. SetRange(m, r, v, merge) = Insert(rest, Entry(RangePair(first, second), v))
  BY DEF SetRange
<1> HIDE DEF E, L, R, rest, first, second
<1> QED BY <1>7, <1>8, <1>9 DEF E, L, R

\* Every entry that is kept lies beside the range that is inserted, or has exactly that
\* null range.
LEMMA KeptBeside ==
  ASSUME NEW V, NEW E, WellFormed(E, V), NEW r \in KeyRanges, RangeValid(r),
         Touching(E, r) = {}, NEW v, NEW merge, NEW first, NEW second,
         Joined(E, r, v, merge, first, second)
  PROVE  /\ first \in Int /\ second \in Int
         /\ first <= r.first /\ r.first <= r.second /\ r.second <= second
         /\ \A x \in E \ (LeftJoin(E, r, v, merge) \cup RightJoin(E, r, v, merge)) :
              \/ x.range.first < first /\ x.range.second <= first
              \/ x.range.first >= second /\ x.range.first > first
              \/ x.range = RangePair(first, second) /\ first = second
<1>1. r.first \in Int /\ r.second \in Int /\ r.first <= r.second
  BY DEF KeyRanges, RangeValid
<1>2. first \in Int /\ first <= r.first
  BY <1>1, EntryShape DEF Joined, LeftJoin
<1>3. second \in Int /\ r.second <= second
  BY <1>1, EntryShape DEF Joined, RightJoin
<1>4. ASSUME NEW x \in E, x \notin LeftJoin(E, r, v, merge), x \notin RightJoin(E, r, v, merge)
      PROVE  \/ x.range.first < first /\ x.range.second <= first
             \/ x.range.first >= second /\ x.range.first > first
             \/ x.range = RangePair(first, second) /\ first = second
  <2>1. /\ x.range.first \in Int /\ x.range.second \in Int /\ x.range.first <= x.range.second
        /\ ~Touches(x.range, r)
    BY EntryShape DEF Touching
  <2>2. CASE x.range.first < r.first
    <3>1. x.range.second <= r.first
      BY <1>1, <2>1, <2>2 DEF Touches
    <3>2. CASE first = r.first
      BY <3>1, <3>2, <2>2
    <3>3. CASE \E l \in LeftJoin(E, r, v, merge) : first = l.range.first
      <4>1. PICK l \in LeftJoin(E, r, v, merge) : first = l.range.first
        BY <3>3
      <4>2. l \in E /\ l # x /\ l.range.second = r.first
        BY <1>4 DEF LeftJoin
      <4>3. Precedes(x, l) \/ Precedes(l, x)
        BY <4>2 DEF WellFormed, Ordered
      <4> QED BY <4>1, <4>2, <4>3, <2>1, <2>2, <1>1, <1>2 DEF Precedes
    <3> QED BY <3>2, <3>3 DEF Joined
  <2>3. CASE x.range.first >= r.first
    <3>1. x.range.first >= r.second
      BY <1>1, <2>1, <2>3 DEF Touches
    <3>2. CASE second = r.second
      <4>1. CASE x.range.first > first
        BY <4>1, <3>1, <3>2
      <4>2. CASE x.range.first = first
        <5>1. x.range.first = r.first /\ r.first = r.second /\ second = first
          BY <4>2, <3>1, <3>2, <2>3, <2>1, <1>1, <1>2
        <5>2. x.range.second = r.second
          BY <5>1, <2>1, <1>1 DEF Touches
        <5>3. x.range \in KeyRanges
          BY DEF WellFormed, Entries
        <5>4. x.range = RangePair(x.range.first, x.range.second)
          BY <5>3 DEF KeyRanges, RangePair
        <5> QED BY <4>2, <5>1, <5>2, <5>4
      <4> QED BY <4>1, <4>2, <2>1, <2>3, <1>1, <1>2
    <3>3. CASE \E t \in RightJoin(E, r, v, merge) : second = t.range.second
      <4>1. PICK t \in RightJoin(E, r, v, merge) : second = t.range.second
        BY <3>3
      <4>2. t \in E /\ t # x /\ t.range.first = r.second
        BY <1>4 DEF RightJoin
      <4>3. Precedes(x, t) \/ Precedes(t, x)
        BY <4>2 DEF WellFormed, Ordered
      <4> QED BY <4>1, <4>2, <4>3, <3>1, <2>1, <1>1, <1>2, <1>3 DEF Precedes
    <3> QED BY <3>2, <3>3 DEF Joined
  <2> QED BY <2>1, <2>2, <2>3, <1>1
<1> QED BY <1>1, <1>2, <1>3, <1>4

\* set() keeps the entries in order.
LEMMA SetWellFormed ==
  ASSUME NEW V, NEW m, WellFormed(m, V), NEW r \in KeyRanges, RangeValid(r), UsableOn(m, r),
         NEW v \in V, NEW merge
  PROVE  WellFormed(SetRange(m, r, v, merge), V)
<1> DEFINE E == EraseRange(m, r)
           S == E \ (LeftJoin(E, r, v, merge) \cup RightJoin(E, r, v, merge))
<1>1. PICK first, second :
        /\ Joined(E, r, v, merge, first, second)
        /\ SetRange(m, r, v, merge) = Insert(S, Entry(RangePair(first, second), v))
  BY SetAsErase
<1>2. WellFormed(E, V) /\ Touching(E, r) = {}
  BY EraseWellFormed
<1> DEFINE new == Entry(RangePair(first, second), v)
<1> HIDE DEF E
<1>3. /\ first \in Int /\ second \in Int /\ first <= second
      /\ \A x \in S :
           \/ x.range.first < first /\ x.range.second <= first
           \/ x.range.first >= second /\ x.range.first > first
           \/ x.range = RangePair(first, second) /\ first = second
  <2>1. r.first \in Int /\ r.second \in Int
    BY DEF KeyRanges
  <2> QED BY <1>1, <1>2, <2>1, KeptBeside
<1>4. WellFormed(S, V)
  BY <1>2 DEF WellFormed, Ordered
<1> HIDE DEF S
<1>5. CASE \E x \in S : x.range = new.range
  BY <1>5, <1>1, <1>4 DEF Insert
<1>6. CASE \A x \in S : x.range # new.range
  <2>1. SetRange(m, r, v, merge) = S \cup {new}
    BY <1>1, <1>6 DEF Insert
  <2>2. /\ new \in Entries(V) /\ RangeValid(new.range)
        /\ new.range = RangePair(first, second)
        /\ new.range.first = first /\ new.range.second = second
    BY <1>3 DEF Entry, RangePair, Entries, KeyRanges, RangeValid
  <2>3. \A x \in S : Precedes(x, new) \/ Precedes(new, x)
    BY <1>3, <1>4, <1>6, <2>2, EntryShape DEF Precedes
  <2> HIDE DEF new
  <2>4. Ordered(S \cup {new})
    BY <2>3, <1>4 DEF WellFormed, Ordered
  <2> QED BY <2>1, <2>2, <2>4, <1>4 DEF WellFormed
<1> QED BY <1>5, <1>6

-----------------------------------------------------------------------------
(* A map with an equality comparator is maximally merged.                  *)

Merged(m) == \A a, b \in m : a # b /\ a.value = b.value => a.range.second # b.range.first

\* erase() makes no two equal entries meet.
LEMMA EraseMerged ==
  ASSUME NEW V, NEW m, WellFormed(m, V), NEW r \in KeyRanges, RangeValid(r), UsableOn(m, r),
         Merged(m)
  PROVE  Merged(EraseRange(m, r))
<1> SUFFICES ASSUME NEW a \in EraseRange(m, r), NEW b \in EraseRange(m, r), a # b,
                    a.value = b.value, a.range.second = b.range.first
             PROVE  FALSE
  BY DEF Merged
<1>1. r.first \in Int /\ r.second \in Int /\ r.first <= r.second
  BY DEF KeyRanges, RangeValid
<1>2. ~Touches(a.range, r) /\ ~Touches(b.range, r) /\ WellFormed(EraseRange(m, r), V)
  BY EraseWellFormed DEF Touching
<1>3. /\ a.range.first \in Int /\ a.range.second \in Int /\ a.range.first <= a.range.second
      /\ b.range.first \in Int /\ b.range.second \in Int /\ b.range.first <= b.range.second
  BY <1>2, EntryShape
<1>4. PICK d \in m : PieceOf(m, r, a, d)
  BY ErasedFrom
<1>5. PICK e \in m : PieceOf(m, r, b, e)
  BY ErasedFrom
<1>6. /\ d.range.first \in Int /\ d.range.second \in Int /\ d.range.first <= d.range.second
      /\ e.range.first \in Int /\ e.range.second \in Int /\ e.range.first <= e.range.second
  BY EntryShape
<1>7. d # e
  <2> SUFFICES ASSUME d = e PROVE FALSE
    OBVIOUS
  <2>1. CASE a = d /\ a \notin Touching(m, r)
    BY <2>1, <1>5, <1>1, <1>6 DEF PieceOf, Touching, Touches
  <2>2. CASE a = LeftPiece(d, r) /\ d.range.first < r.first /\ r.first < d.range.second
    <3>1. b = RightPiece(d, r) /\ ~RangeEmpty(r)
      BY <2>2, <1>5, <1>1, <1>6 DEF PieceOf, Touching, Touches
    <3> QED BY <3>1, <2>2, <1>1 DEF LeftPiece, RightPiece, Entry, RangePair, RangeEmpty
  <2>3. CASE a = RightPiece(d, r) /\ d.range.first < r.second /\ r.second < d.range.second
    <3>1. b.range.first <= d.range.first \/ b = a
      BY <2>3, <1>5, <1>1, <1>6, <1>3 DEF PieceOf, LeftPiece, Entry, RangePair
    <3> QED BY <3>1, <2>3, <1>6, <1>1, <1>3 DEF RightPiece, Entry, RangePair
  <2> QED BY <2>1, <2>2, <2>3, <1>4 DEF PieceOf
<1>8. d.value = e.value /\ d.range.second # e.range.first
  BY <1>4, <1>5, <1>7 DEF PieceOf, Merged
<1>9. CASE a = LeftPiece(d, r) /\ d.range.first < r.first /\ r.first < d.range.second
  <2>1. b.range.first = r.first /\ a.range.second = r.first
    BY <1>9 DEF LeftPiece, Entry, RangePair
  <2>2. Touches(d.range, r)
    BY <1>9, <1>1, <1>6 DEF Touches
  <2>3. RangeEmpty(r) /\ ~RangeEmpty(r)
    BY <2>1, <2>2, <1>2, <1>1, <1>3 DEF Touches, UsableOn, Touching, RangeEmpty
  <2> QED BY <2>3
<1>10. CASE a.range.second = d.range.second
  <2>1. CASE b.range.first = e.range.first
    BY <2>1, <1>10, <1>8
  <2>2. CASE b = RightPiece(e, r) /\ ~RangeEmpty(r)
    <3>1. a.range.second = r.second
      BY <2>2 DEF RightPiece, Entry, RangePair
    <3>2. Precedes(a, b)
      BY <1>2, <1>3 DEF WellFormed, Ordered, Precedes
    <3>3. r.first < r.second
      BY <2>2, <1>1 DEF RangeEmpty
    <3> QED BY <3>1, <3>2, <3>3, <1>1, <1>2, <1>3 DEF Touches, Precedes
  <2> QED BY <2>1, <2>2, <1>5 DEF PieceOf, LeftPiece, Entry, RangePair
<1> QED BY <1>9, <1>10, <1>4 DEF PieceOf, RightPiece, Entry, RangePair

\* set() with an equality comparator makes no two equal entries meet.
LEMMA SetMerged ==
  ASSUME NEW V, NEW m, WellFormed(m, V), NEW r \in KeyRanges, RangeValid(r), UsableOn(m, r),
         NEW v \in V, NEW merge, Merged(m)
  PROVE  merge => Merged(SetRange(m, r, v, merge))
<1> DEFINE E == EraseRange(m, r)
           L == LeftJoin(E, r, v, merge)
           R == RightJoin(E, r, v, merge)
           S == E \ (L \cup R)
<1>1. PICK first, second :
        /\ Joined(E, r, v, merge, first, second)
        /\ SetRange(m, r, v, merge) = Insert(S, Entry(RangePair(first, second), v))
  BY SetAsErase
<1>2. WellFormed(E, V) /\ Touching(E, r) = {} /\ Merged(E)
  BY EraseWellFormed, EraseMerged
<1> DEFINE new == Entry(RangePair(first, second), v)
<1> HIDE DEF E
<1>3. /\ r.first \in Int /\ r.second \in Int /\ r.first <= r.second
      /\ first \in Int /\ second \in Int /\ first <= r.first /\ r.second <= second
      /\ \A x \in S :
           \/ x.range.first < first /\ x.range.second <= first
           \/ x.range.first >= second /\ x.range.first > first
           \/ x.range = RangePair(first, second) /\ first = second
  <2>1. r.first \in Int /\ r.second \in Int /\ r.first <= r.second
    BY DEF KeyRanges, RangeValid
  <2> QED BY <1>1, <1>2, <2>1, KeptBeside
<1> SUFFICES ASSUME merge
             PROVE  Merged(Insert(S, new))
  BY <1>1
<1>4. Merged(S)
  BY <1>2 DEF Merged
<1>5. CASE \E x \in S : x.range = new.range
  BY <1>5, <1>4 DEF Insert
<1>6. CASE \A x \in S : x.range # new.range
  <2>1. Insert(S, new) = S \cup {new}
    BY <1>6 DEF Insert
  <2>2. /\ new.value = v /\ new.range = RangePair(first, second)
        /\ new.range.first = first /\ new.range.second = second
    BY DEF Entry, RangePair
  <2>3. ASSUME NEW x \in S, x.value = v
        PROVE  x.range.second # first /\ x.range.first # second
    <3>1. /\ x \in E /\ x \notin L /\ x \notin R
          /\ x.range.first \in Int /\ x.range.second \in Int /\ x.range.first <= x.range.second
      BY <1>2, EntryShape
    <3>2. x.range.second # first
      <4> SUFFICES ASSUME x.range.second = first PROVE FALSE
        OBVIOUS
      <4>1. CASE first = r.first
        <5>1. x.range # RangePair(first, second)
          BY <1>6, <2>2
        <5>2. \/ x.range.first < first
              \/ x.range.first > first
          BY <1>3, <5>1
        <5>3. x.range.first < first
          BY <5>2, <1>3, <3>1
        <5> QED BY <4>1, <5>3, <3>1, <2>3 DEF LeftJoin
      <4>2. CASE \E l \in L : first = l.range.first
        <5>1. PICK l \in L : first = l.range.first
          BY <4>2
        <5>2. l \in E /\ l # x /\ l.value = v
          BY <3>1, <5>1 DEF LeftJoin
        <5> QED BY <5>1, <5>2, <3>1, <2>3, <1>2 DEF Merged
      <4> QED BY <4>1, <4>2, <1>1 DEF Joined
    <3>3. x.range.first # second
      <4> SUFFICES ASSUME x.range.first = second PROVE FALSE
        OBVIOUS
      <4>1. CASE second = r.second
        BY <4>1, <3>1, <2>3 DEF RightJoin
      <4>2. CASE \E t \in R : second = t.range.second
        <5>1. PICK t \in R : second = t.range.second
          BY <4>2
        <5>2. t \in E /\ t # x /\ t.value = v
          BY <3>1, <5>1 DEF RightJoin
        <5> QED BY <5>1, <5>2, <3>1, <2>3, <1>2 DEF Merged
      <4> QED BY <4>1, <4>2, <1>1 DEF Joined
    <3> QED BY <3>2, <3>3
  <2> HIDE DEF new, S
  <2> QED BY <2>1, <2>2, <2>3, <1>4 DEF Merged
<1> QED BY <1>5, <1>6

-----------------------------------------------------------------------------
(* What the map answers for one key.                                       *)

Holding(m, k) == {e \in m : e.range.first <= k /\ k < e.range.second}

\* find() of a key returns the entries whose range contains it, of which there is at
\* most one.
LEMMA FindKeyHolding ==
  ASSUME NEW V, NEW m, WellFormed(m, V), NEW k \in Int
  PROVE  /\ FindKey(m, k) = Holding(m, k)
         /\ \A a, b \in Holding(m, k) : a = b
<1>1. RangePair(k, k) \in KeyRanges /\ RangeValid(RangePair(k, k))
      /\ RangePair(k, k).first = k /\ RangePair(k, k).second = k
  BY DEF RangePair, KeyRanges, RangeValid
<1>2. FindKey(m, k) = Touching(m, RangePair(k, k))
  BY <1>1, FindTouching DEF FindKey
<1>3. Touching(m, RangePair(k, k)) = Holding(m, k)
  BY <1>1, EntryShape DEF Touching, Touches, Holding
<1>4. ASSUME NEW a \in Holding(m, k), NEW b \in Holding(m, k), a # b
      PROVE  FALSE
  <2>1. a \in m /\ b \in m /\ (Precedes(a, b) \/ Precedes(b, a))
    BY <1>4 DEF Holding, WellFormed, Ordered
  <2> QED BY <2>1, EntryShape DEF Holding, Precedes
<1> QED BY <1>2, <1>3, <1>4

\* The values stored for a key: none or one.
ValuesAt(m, k) == {e.value : e \in Holding(m, k)}

Inside(k, r) == r.first <= k /\ k < r.second

\* erase() forgets the values of the keys in the range and no other.
LEMMA EraseValues ==
  ASSUME NEW V, NEW m, WellFormed(m, V), NEW r \in KeyRanges, RangeValid(r), UsableOn(m, r),
         NEW k \in Int
  PROVE  ValuesAt(EraseRange(m, r), k) = IF Inside(k, r) THEN {} ELSE ValuesAt(m, k)
<1> DEFINE E == EraseRange(m, r)
<1>1. r.first \in Int /\ r.second \in Int /\ r.first <= r.second
  BY DEF KeyRanges, RangeValid
<1>2. WellFormed(E, V) /\ Touching(E, r) = {}
  BY EraseWellFormed
<1>3. CASE Inside(k, r)
  <2>1. ASSUME NEW e \in E PROVE ~(e.range.first <= k /\ k < e.range.second)
    <3>1. ~Touches(e.range, r)
      BY <1>2 DEF Touching
    <3>2. e.range.first \in Int /\ e.range.second \in Int
      BY <1>2, EntryShape
    <3> QED BY <3>1, <3>2, <1>3, <1>1 DEF Touches, Inside
  <2> QED BY <2>1, <1>3 DEF ValuesAt, Holding
<1>4. CASE ~Inside(k, r)
  <2>1. ASSUME NEW x \in Holding(E, k) PROVE \E e \in Holding(m, k) : e.value = x.value
    <3>1. PICK e \in m : PieceOf(m, r, x, e)
      BY ErasedFrom DEF Holding
    <3>2. e.range.first \in Int /\ e.range.second \in Int
      BY EntryShape
    <3>3. x.range.first <= k /\ k < x.range.second
      BY DEF Holding
    <3>4. e.range.first <= k /\ k < e.range.second
      BY <3>1, <3>2, <3>3, <1>1 DEF PieceOf, LeftPiece, RightPiece, Entry, RangePair
    <3> QED BY <3>1, <3>4 DEF PieceOf, Holding
  <2>2. ASSUME NEW e \in Holding(m, k) PROVE \E x \in Holding(E, k) : e.value = x.value
    <3>1. /\ e \in m /\ e.range.first \in Int /\ e.range.second \in Int
          /\ e.range.first <= k /\ k < e.range.second
      BY EntryShape DEF Holding
    <3>2. CASE e \notin Touching(m, r)
      BY <3>1, <3>2, EraseShape DEF Holding
    <3>3. CASE e \in Touching(m, r) /\ k < r.first
      <4>1. e \in HeadOut(m, r)
        BY <3>1, <3>3, <1>1 DEF HeadOut, Touching, Touches
      <4>2. LeftPiece(e, r) \in E
        BY <4>1, EraseShape
      <4>3. /\ LeftPiece(e, r).value = e.value
            /\ LeftPiece(e, r).range.first <= k /\ k < LeftPiece(e, r).range.second
        BY <3>1, <3>3 DEF LeftPiece, Entry, RangePair
      <4> QED BY <4>2, <4>3 DEF Holding
    <3>4. CASE e \in Touching(m, r) /\ k >= r.second
      <4>1. e \in TailOut(m, r)
        BY <3>1, <3>4, <1>1 DEF TailOut
      <4>2. RightPiece(e, r) \in E
        BY <4>1, EraseShape
      <4>3. /\ RightPiece(e, r).value = e.value
            /\ RightPiece(e, r).range.first <= k /\ k < RightPiece(e, r).range.second
        BY <3>1, <3>4 DEF RightPiece, Entry, RangePair
      <4> QED BY <4>2, <4>3 DEF Holding
    <3> QED BY <3>2, <3>3, <3>4, <1>1, <1>4 DEF Inside
  <2> QED BY <2>1, <2>2, <1>4 DEF ValuesAt
<1> QED BY <1>3, <1>4

\* set() writes the value to the keys in the range and to no other: joining with the
\* neighbours does not change what they hold.
LEMMA SetValues ==
  ASSUME NEW V, NEW m, WellFormed(m, V), NEW r \in KeyRanges, RangeValid(r), UsableOn(m, r),
         NEW v \in V, NEW merge, NEW k \in Int
  PROVE  ValuesAt(SetRange(m, r, v, merge), k) = IF Inside(k, r) THEN {v} ELSE ValuesAt(m, k)
<1> DEFINE E == EraseRange(m, r)
           L == LeftJoin(E, r, v, merge)
           R == RightJoin(E, r, v, merge)
           S == E \ (L \cup R)
           M == SetRange(m, r, v, merge)
<1>1. PICK first, second :
        /\ Joined(E, r, v, merge, first, second)
        /\ M = Insert(S, Entry(RangePair(first, second), v))
  BY SetAsErase
<1>2. WellFormed(E, V) /\ Touching(E, r) = {} /\ WellFormed(M, V)
  BY EraseWellFormed, SetWellFormed
<1>3. ValuesAt(E, k) = IF Inside(k, r) THEN {} ELSE ValuesAt(m, k)
  BY EraseValues
<1> DEFINE new == Entry(RangePair(first, second), v)
<1> HIDE DEF E, M
<1>4. /\ r.first \in Int /\ r.second \in Int /\ r.first <= r.second
      /\ first \in Int /\ second \in Int /\ first <= r.first /\ r.second <= second
  <2>1. r.first \in Int /\ r.second \in Int /\ r.first <= r.second
    BY DEF KeyRanges, RangeValid
  <2> QED BY <1>1, <1>2, <2>1, KeptBeside
<1>5. /\ new.value = v /\ new.range = RangePair(first, second)
      /\ new.range.first = first /\ new.range.second = second
  BY DEF Entry, RangePair
<1>6. M \subseteq S \cup {new} /\ S \subseteq M /\ (new \in M \/ first = second)
  <2>1. CASE \E x \in S : x.range = new.range
    <3>1. PICK x \in S : x.range = new.range
      BY <2>1
    <3>2. first < second => new = x
      <4>1. x \in E /\ ~Touches(x.range, r)
        BY <1>2 DEF Touching
      <4>2. first < second => x \in L \/ x \in R
        BY <4>1, <3>1, <1>1, <1>2, <1>4, <1>5, KeptBeside
      <4> QED BY <4>2
    <3> QED BY <2>1, <3>1, <3>2, <1>1, <1>4 DEF Insert
  <2>2. CASE ~ \E x \in S : x.range = new.range
    BY <2>2, <1>1 DEF Insert
  <2> QED BY <2>1, <2>2
<1>7. CASE Inside(k, r)
  <2>1. new \in M /\ new \in Holding(M, k)
    BY <1>4, <1>5, <1>6, <1>7 DEF Inside, Holding
  <2>2. Holding(M, k) = {new}
    BY <2>1, <1>2, FindKeyHolding
  <2> QED BY <2>2, <1>5, <1>7 DEF ValuesAt, M
<1>8. CASE ~Inside(k, r)
  <2>1. ASSUME NEW x \in Holding(E, k) PROVE \E y \in Holding(M, k) : y.value = x.value
    <3>1. /\ x \in E /\ x.range.first \in Int /\ x.range.second \in Int
          /\ x.range.first <= k /\ k < x.range.second
      BY <1>2, EntryShape DEF Holding
    <3>2. CASE x \in S
      BY <3>1, <3>2, <1>6 DEF Holding
    <3>3. CASE x \in L
      <4>1. first = x.range.first
        <5>1. PICK l \in L : first = l.range.first
          BY <3>3, <1>1 DEF Joined
        <5>2. l = x \/ Precedes(l, x) \/ Precedes(x, l)
          BY <1>2, <3>1, <5>1 DEF WellFormed, Ordered, LeftJoin
        <5> QED BY <5>1, <5>2, <3>1, <3>3, <1>2, <1>4, EntryShape DEF LeftJoin, Precedes
      <4>2. x.value = v /\ first <= k /\ k < second
        BY <4>1, <3>1, <3>3, <1>4 DEF LeftJoin
      <4>3. new \in Holding(M, k)
        BY <4>2, <1>4, <1>5, <1>6 DEF Holding
      <4> QED BY <4>2, <4>3, <1>5
    <3>4. CASE x \in R
      <4>1. second = x.range.second
        <5>1. PICK t \in R : second = t.range.second
          BY <3>4, <1>1 DEF Joined
        <5>2. t = x \/ Precedes(t, x) \/ Precedes(x, t)
          BY <1>2, <3>1, <5>1 DEF WellFormed, Ordered, RightJoin
        <5> QED BY <5>1, <5>2, <3>1, <3>4, <1>2, <1>4, EntryShape DEF RightJoin, Precedes
      <4>2. x.value = v /\ first <= k /\ k < second
        BY <4>1, <3>1, <3>4, <1>4 DEF RightJoin
      <4>3. new \in Holding(M, k)
        BY <4>2, <1>4, <1>5, <1>6 DEF Holding
      <4> QED BY <4>2, <4>3, <1>5
    <3> QED BY <3>1, <3>2, <3>3, <3>4
  <2>2. ASSUME NEW y \in Holding(M, k) PROVE \E x \in Holding(E, k) : y.value = x.value
    <3>1. CASE y \in S
      BY <3>1 DEF Holding
    <3>2. CASE y = new
      <4>1. first <= k /\ k < second
        BY <3>2, <1>5 DEF Holding
      <4>2. CASE k < r.first
        <5>1. PICK l \in L : first = l.range.first
          BY <4>1, <4>2, <1>1, <1>4 DEF Joined
        <5> QED BY <4>1, <4>2, <5>1, <3>2, <1>5 DEF LeftJoin, Holding
      <4>3. CASE k >= r.second
        <5>1. PICK t \in R : second = t.range.second
          BY <4>1, <4>3, <1>1, <1>4 DEF Joined
        <5> QED BY <4>1, <4>3, <5>1, <3>2, <1>5 DEF RightJoin, Holding
      <4> QED BY <4>2, <4>3, <1>8, <1>4 DEF Inside
    <3> QED BY <3>1, <3>2, <1>6 DEF Holding
  <2>3. ValuesAt(M, k) = ValuesAt(E, k)
    BY <2>1, <2>2 DEF ValuesAt
  <2> QED BY <2>3, <1>3, <1>8 DEF M
<1> QED BY <1>7, <1>8 DEF M

\* set() of a free range, without merging, adds that range and changes nothing else.
LEMMA SetOnFree ==
  ASSUME NEW V, NEW m, WellFormed(m, V), NEW r \in KeyRanges, RangeValid(r),
         Touching(m, r) = {}, NEW v, NEW merge
  PROVE  ~merge => SetRange(m, r, v, merge) = Insert(m, Entry(r, v))
<1> DEFINE E == EraseRange(m, r)
           L == LeftJoin(E, r, v, merge)
           R == RightJoin(E, r, v, merge)
<1>1. PICK first, second :
        /\ Joined(E, r, v, merge, first, second)
        /\ SetRange(m, r, v, merge) = Insert(E \ (L \cup R), Entry(RangePair(first, second), v))
  BY SetAsErase DEF UsableOn
<1>2. r.first \in Int /\ r.second \in Int /\ r.first <= r.second /\ r = RangePair(r.first, r.second)
  BY DEF KeyRanges, RangeValid, RangePair
<1>3. HeadOut(m, r) = {} /\ TailOut(m, r) = {}
  BY <1>2, EntryShape DEF HeadOut, TailOut, Touching, Touches
<1>4. E = m
  BY <1>3, EraseShape
<1> SUFFICES ASSUME ~merge
             PROVE  Insert(E \ (L \cup R), Entry(RangePair(first, second), v)) = Insert(m, Entry(r, v))
  BY <1>1
<1>5. L = {} /\ R = {}
  BY DEF LeftJoin, RightJoin
<1>6. first = r.first /\ second = r.second
  BY <1>1, <1>5 DEF Joined
<1> HIDE DEF L, R, E
<1> QED BY <1>2, <1>4, <1>5, <1>6

\* set() of a range that is there already, without merging, replaces its value.
LEMMA SetOnExact ==
  ASSUME NEW V, NEW m, WellFormed(m, V), NEW r \in KeyRanges, RangeValid(r), UsableOn(m, r),
         \A e \in Touching(m, r) : e.range = r, NEW v, NEW merge
  PROVE  ~merge => SetRange(m, r, v, merge) = Insert(m \ Touching(m, r), Entry(r, v))
<1> DEFINE E == EraseRange(m, r)
           L == LeftJoin(E, r, v, merge)
           R == RightJoin(E, r, v, merge)
<1>1. PICK first, second :
        /\ Joined(E, r, v, merge, first, second)
        /\ SetRange(m, r, v, merge) = Insert(E \ (L \cup R), Entry(RangePair(first, second), v))
  BY SetAsErase
<1>2. r.first \in Int /\ r.second \in Int /\ r.first <= r.second /\ r = RangePair(r.first, r.second)
  BY DEF KeyRanges, RangeValid, RangePair
<1>3. HeadOut(m, r) = {}
  <2> SUFFICES ASSUME NEW e \in HeadOut(m, r) PROVE FALSE
    OBVIOUS
  <2>1. e \in m /\ e.range.first < r.first /\ r.first < e.range.second
    BY DEF HeadOut
  <2>2. Touches(e.range, r)
    BY <2>1, <1>2, EntryShape DEF Touches
  <2>3. e.range = r
    BY <2>1, <2>2 DEF Touching
  <2> QED BY <2>1, <2>3, <1>2
<1>4. TailOut(m, r) = {}
  BY <1>2 DEF TailOut
<1>5. E = m \ Touching(m, r)
  BY <1>3, <1>4, EraseShape
<1> SUFFICES ASSUME ~merge
             PROVE  Insert(E \ (L \cup R), Entry(RangePair(first, second), v))
                      = Insert(m \ Touching(m, r), Entry(r, v))
  BY <1>1
<1>6. L = {} /\ R = {}
  BY DEF LeftJoin, RightJoin
<1>7. first = r.first /\ second = r.second
  BY <1>1, <1>6 DEF Joined
<1> HIDE DEF L, R, E
<1> QED BY <1>2, <1>5, <1>6, <1>7

\* What touches a range after an erase() is, or is a piece of, what touched it before.
LEMMA ErasedTouching ==
  ASSUME NEW V, NEW m, WellFormed(m, V), NEW z \in KeyRanges, RangeValid(z), UsableOn(m, z),
         NEW r \in KeyRanges, RangeValid(r), NEW x \in Touching(EraseRange(m, z), r)
  PROVE  \E e \in Touching(m, r) : PieceOf(m, z, x, e)
<1>1. x \in EraseRange(m, z) /\ Touches(x.range, r)
  BY DEF Touching
<1>2. PICK e \in m : PieceOf(m, z, x, e)
  BY <1>1, ErasedFrom
<1>3. /\ r.first \in Int /\ r.second \in Int /\ r.first <= r.second
      /\ z.first \in Int /\ z.second \in Int /\ z.first <= z.second
      /\ e.range.first \in Int /\ e.range.second \in Int /\ e.range.first <= e.range.second
  BY EntryShape DEF KeyRanges, RangeValid
<1>4. Touches(e.range, r)
  BY <1>1, <1>2, <1>3 DEF PieceOf, LeftPiece, RightPiece, Entry, RangePair, Touches
<1> QED BY <1>2, <1>4 DEF Touching

\* set() of a range that nothing but the same range touches, without merging, keeps the
\* other entries and those with the same value.
LEMMA SetFitting ==
  ASSUME NEW V, NEW m, WellFormed(m, V), NEW r \in KeyRanges, RangeValid(r),
         \A e \in Touching(m, r) : e.range = r, NEW v \in V
  PROVE  LET after == SetRange(m, r, v, FALSE)
         IN /\ WellFormed(after, V)
            /\ after \subseteq m \cup {Entry(r, v)}
            /\ \E e \in after : e.range = r /\ (~RangeEmpty(r) => e.value = v)
            /\ \A e \in m : ~Touches(e.range, r) \/ e.value = v => e \in after
<1> DEFINE after == SetRange(m, r, v, FALSE)
           rest  == m \ Touching(m, r)
           new   == Entry(r, v)
<1>1. r.first \in Int /\ r.second \in Int /\ r.first <= r.second
  BY DEF KeyRanges, RangeValid
<1>2. UsableOn(m, r)
  BY <1>1 DEF UsableOn, RangeEmpty, Touching, Touches
<1>3. after = Insert(rest, new)
  <2>1. \A merge : ~merge => SetRange(m, r, v, merge) = Insert(rest, new)
    BY <1>2, SetOnExact
  <2>2. ~FALSE
    OBVIOUS
  <2> QED BY <2>1, <2>2, Zenon
<1>4. WellFormed(after, V)
  <2>1. \A merge : WellFormed(SetRange(m, r, v, merge), V)
    BY <1>2, SetWellFormed
  <2> QED BY <2>1, Zenon
<1>5. new.range = r /\ new.value = v
  BY DEF Entry
<1>6. \A e \in rest : e.range = r => RangeEmpty(r)
  BY <1>1 DEF Touching, Touches, RangeEmpty
<1>7. ASSUME NEW e \in Touching(m, r), e.value = v
      PROVE  e = new
  <2>1. e = Entry(RangePair(e.range.first, e.range.second), e.value) /\ e \in m /\ e.range = r
    BY EntryShape DEF Touching
  <2>2. r = RangePair(r.first, r.second)
    BY DEF KeyRanges, RangePair
  <2> QED BY <2>1, <2>2, <1>7
<1>8. ASSUME NEW e \in Touching(m, r)
      PROVE  ~RangeEmpty(r)
  BY <1>2, <1>8 DEF UsableOn
<1> HIDE DEF after, new
<1>9. after \subseteq m \cup {new} /\ rest \subseteq after
  BY <1>3 DEF Insert
<1>10. ~RangeEmpty(r) => new \in after
  BY <1>3, <1>5, <1>6 DEF Insert
<1>11. \E e \in after : e.range = r /\ (~RangeEmpty(r) => e.value = v)
  BY <1>3, <1>5, <1>6, <1>10 DEF Insert
<1>12. \A e \in m : ~Touches(e.range, r) \/ e.value = v => e \in after
  BY <1>7, <1>8, <1>9, <1>10 DEF Touching
<1> QED BY <1>4, <1>9, <1>11, <1>12 DEF after, new

\* erase() beside such a range leaves it such a range.
LEMMA EraseFitting ==
  ASSUME NEW V, NEW m, WellFormed(m, V), NEW r \in KeyRanges, RangeValid(r),
         \A e \in Touching(m, r) : e.range = r,
         NEW z \in KeyRanges, RangeValid(z), ~RangeEmpty(z),
         z.second <= r.first \/ r.second <= z.first
  PROVE  /\ WellFormed(EraseRange(m, z), V)
         /\ \A x \in Touching(EraseRange(m, z), r) : x.range = r
         /\ \A x \in EraseRange(m, z) : \E e \in m : PieceOf(m, z, x, e)
         /\ \A e \in m : ~Touches(e.range, z) => e \in EraseRange(m, z)
<1>1. /\ r.first \in Int /\ r.second \in Int /\ r.first <= r.second
      /\ z.first \in Int /\ z.second \in Int /\ z.first < z.second
  BY DEF KeyRanges, RangeValid, RangeEmpty
<1>2. UsableOn(m, z)
  BY DEF UsableOn
<1>3. WellFormed(EraseRange(m, z), V) /\ \A x \in EraseRange(m, z) : \E e \in m : PieceOf(m, z, x, e)
  BY <1>2, EraseWellFormed, ErasedFrom
<1>4. ASSUME NEW x \in Touching(EraseRange(m, z), r)
      PROVE  x.range = r
  <2>1. PICK e \in Touching(m, r) : PieceOf(m, z, x, e)
    BY <1>2, ErasedTouching
  <2> QED BY <2>1, <1>1 DEF PieceOf
<1>5. \A e \in m : ~Touches(e.range, z) => e \in EraseRange(m, z)
  BY <1>2, EraseShape DEF Touching
<1> QED BY <1>3, <1>4, <1>5

-----------------------------------------------------------------------------
(* Reservations of a thing that serves one user at a time, made in the     *)
(* order of a direction of which only the last need be kept.               *)

\* The reservation e stands for the reservation a: it is a, or later than a in the direction.
StandsFor(direction, e, a) ==
  \/ e = a
  \/ /\ ~Touches(a, e)
     /\ \/ direction = "FORWARD" /\ a.second <= e.first
        \/ direction = "BACKWARD" /\ e.second <= a.first

\* The cycles of the last user and of the kept reservations, in the order of the direction.
UpTo(direction, first, cycle) ==
  /\ direction = "FORWARD" => first <= cycle
  /\ direction = "BACKWARD" => cycle <= first

\* m is what is kept of the reservations past, the last of which started in cycle last.
Lane(m, direction, last, past) ==
  /\ WellFormed(m, {""})
  /\ last \in Int
  /\ \A a \in past : a \in KeyRanges /\ RangeValid(a)
  /\ \A e \in m : e.range \in past /\ UpTo(direction, e.range.first, last)
  /\ \A a \in past : \E e \in m : StandsFor(direction, e.range, a)

\* What lies behind a reservation that a new one does not touch is not touched by the new
\* one either, so the new one can stand for both.
LEMMA Behind ==
  ASSUME NEW direction, NEW a \in KeyRanges, NEW e \in KeyRanges, NEW n \in KeyRanges,
         RangeValid(a), RangeValid(e), RangeValid(n),
         StandsFor(direction, e, a), ~Touches(e, n),
         NEW cycle \in Int, UpTo(direction, e.first, cycle), UpTo(direction, cycle, n.first)
  PROVE  /\ ~Touches(a, n)
         /\ direction \in {"FORWARD", "BACKWARD"} => StandsFor(direction, n, a)
<1>1. /\ a.first \in Int /\ a.second \in Int /\ a.first <= a.second
      /\ e.first \in Int /\ e.second \in Int /\ e.first <= e.second
      /\ n.first \in Int /\ n.second \in Int /\ n.first <= n.second
  BY DEF KeyRanges, RangeValid
<1>2. CASE direction = "FORWARD"
  <2>1. e.first <= n.first
    BY <1>1, <1>2 DEF UpTo
  <2>2. e = a \/ (~Touches(a, e) /\ a.second <= e.first)
    BY <1>2 DEF StandsFor
  <2>3. ~Touches(a, n) /\ a.second <= n.first
    BY <1>1, <2>1, <2>2 DEF Touches
  <2> QED BY <1>2, <2>3 DEF StandsFor
<1>3. CASE direction = "BACKWARD"
  <2>1. n.first <= e.first
    BY <1>1, <1>3 DEF UpTo
  <2>2. e = a \/ (~Touches(a, e) /\ e.second <= a.first)
    BY <1>3 DEF StandsFor
  <2>3. ~Touches(a, n) /\ n.second <= a.first
    BY <1>1, <2>1, <2>2 DEF Touches
  <2> QED BY <1>3, <2>3 DEF StandsFor
<1>4. CASE direction \notin {"FORWARD", "BACKWARD"}
  BY <1>4 DEF StandsFor
<1> QED BY <1>2, <1>3, <1>4

\* A range that is free of what is kept is free of everything ever reserved.
LEMMA LaneFree ==
  ASSUME NEW direction, NEW m, NEW last, NEW past, Lane(m, direction, last, past),
         NEW n \in KeyRanges, RangeValid(n), UpTo(direction, last, n.first)
  PROVE  /\ Find(m, n) = Touching(m, n)
         /\ Find(m, n) = {} <=> \A a \in past : ~Touches(a, n)
         /\ Find(m, n) = {} /\ direction \in {"FORWARD", "BACKWARD"}
              => \A a \in past : StandsFor(direction, n, a)
<1>1. WellFormed(m, {""}) /\ last \in Int
  BY DEF Lane
<1>2. Find(m, n) = Touching(m, n)
  BY <1>1, FindTouching
<1>3. ASSUME Find(m, n) = {}, NEW a \in past
      PROVE  /\ ~Touches(a, n)
             /\ direction \in {"FORWARD", "BACKWARD"} => StandsFor(direction, n, a)
  <2>1. PICK e \in m : StandsFor(direction, e.range, a)
    BY DEF Lane
  <2>2. /\ e.range \in past /\ UpTo(direction, e.range.first, last)
        /\ e.range \in KeyRanges /\ RangeValid(e.range) /\ a \in KeyRanges /\ RangeValid(a)
    BY DEF Lane
  <2>3. ~Touches(e.range, n)
    BY <1>2, <1>3 DEF Touching
  <2> QED BY <1>1, <2>1, <2>2, <2>3, Behind
<1>4. ASSUME \A a \in past : ~Touches(a, n)
      PROVE  Find(m, n) = {}
  BY <1>2, <1>4 DEF Lane, Touching
<1> QED BY <1>2, <1>3, <1>4

\* No gate has to be looked at in an order other than that of the cycles.
LEMMA UpToLater ==
  ASSUME NEW direction, NEW first \in Int, NEW last \in Int, NEW later \in Int,
         UpTo(direction, first, last), UpTo(direction, last, later)
  PROVE  UpTo(direction, first, later)
BY DEF UpTo

LEMMA LaneWaits ==
  ASSUME NEW direction, NEW m, NEW last, NEW past, Lane(m, direction, last, past),
         NEW later \in Int, UpTo(direction, last, later)
  PROVE  Lane(m, direction, later, past)
<1>1. last \in Int /\ \A e \in m : e.range \in past /\ e.range \in KeyRanges
  BY DEF Lane
<1>2. \A e \in m : UpTo(direction, e.range.first, later)
  <2> TAKE e \in m
  <2>1. e.range.first \in Int /\ UpTo(direction, e.range.first, last)
    BY <1>1 DEF Lane, KeyRanges
  <2> QED BY <1>1, <2>1, UpToLater
<1> QED BY <1>2 DEF Lane

\* A free range is simply added to what is kept, which with a direction is nothing.
LEMMA LaneReserve ==
  ASSUME NEW direction \in {"FORWARD", "BACKWARD", "UNDEFINED"}, NEW m, NEW last, NEW past,
         Lane(m, direction, last, past),
         NEW n \in KeyRanges, RangeValid(n), UpTo(direction, last, n.first), Find(m, n) = {}
  PROVE  Lane(SetRange(IF direction # "UNDEFINED" THEN {} ELSE m, n, "", FALSE),
              direction, n.first, past \cup {n})
<1> DEFINE kept == IF direction # "UNDEFINED" THEN {} ELSE m
           new  == Entry(n, "")
           after == SetRange(kept, n, "", FALSE)
<1>1. n.first \in Int
  BY DEF KeyRanges
<1>2. Touching(m, n) = {}
  BY LaneFree
<1>3. kept \subseteq m /\ WellFormed(kept, {""}) /\ Touching(kept, n) = {}
  BY <1>2 DEF Lane, WellFormed, Ordered, Touching
<1>4. new.range = n
  BY DEF Entry
<1>5. new \in after /\ after \subseteq kept \cup {new} /\ kept \subseteq after
  <2>1. \A merge : ~merge => SetRange(kept, n, "", merge) = Insert(kept, new)
    BY <1>3, SetOnFree
  <2>2. after = Insert(kept, new)
    <3>1. ~FALSE
      OBVIOUS
    <3> QED BY <2>1, <3>1, Zenon
  <2>3. \A e \in kept : e.range = n => e = new
    <3> TAKE e \in kept
    <3>1. e \in [range : KeyRanges, value : {""}]
      BY <1>3 DEF WellFormed, Entries
    <3>2. e = [range |-> e.range, value |-> e.value] /\ e.value = ""
      BY <3>1
    <3> QED BY <3>2 DEF Entry
  <2> HIDE DEF new, kept, after
  <2> QED BY <2>2, <2>3, <1>4 DEF Insert
<1>6. WellFormed(after, {""})
  <2>1. \A merge : WellFormed(SetRange(kept, n, "", merge), {""})
    BY <1>3, SetWellFormed DEF UsableOn
  <2> QED BY <2>1, Zenon
<1> HIDE DEF after, new
<1>7. ASSUME NEW e \in after
      PROVE  e.range \in past \cup {n} /\ UpTo(direction, e.range.first, n.first)
  <2>1. CASE e = new
    BY <2>1, <1>4, <1>1 DEF UpTo
  <2>2. CASE e \in m
    <3>1. Lane(m, direction, n.first, past)
      BY <1>1, LaneWaits
    <3> QED BY <2>2, <3>1 DEF Lane
  <2> QED BY <2>1, <2>2, <1>3, <1>5
<1>8. ASSUME NEW a \in past \cup {n}
      PROVE  \E e \in after : StandsFor(direction, e.range, a)
  <2>1. CASE a = n
    BY <2>1, <1>4, <1>5 DEF StandsFor
  <2>2. CASE a \in past /\ direction = "UNDEFINED"
    BY <2>2, <1>5 DEF Lane
  <2>3. CASE a \in past /\ direction # "UNDEFINED"
    BY <2>3, <1>4, <1>5, LaneFree
  <2> QED BY <2>1, <2>2, <2>3
<1> QED BY <1>1, <1>6, <1>7, <1>8 DEF Lane, after

\* Nothing is kept of no reservations.
LEMMA LaneEmpty ==
  ASSUME NEW direction, NEW last \in Int
  PROVE  Lane({}, direction, last, {})
BY DEF Lane, WellFormed, Ordered

=============================================================================
