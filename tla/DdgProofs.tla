------------------------------ MODULE DdgProofs -----------------------------
(***************************************************************************)
(* Theorems about com/ddg: the relations between references and events,    *)
(* and that the builder's graph orders every pair of conflicting           *)
(* statements, for every block over every set of statements.               *)
(***************************************************************************)
EXTENDS DdgBuilder, SequenceTheorems, TLAPS

Refs == References \cup {GlobalState}

-----------------------------------------------------------------------------
(* References.                                                             *)

\* Only the null reference is the global state; the others are well formed.
LEMMA RefShape ==
  ASSUME NEW r \in Refs
  PROVE  /\ IsGlobalState(r) <=> r = GlobalState
         /\ ~IsGlobalState(r) => r \in References
         /\ r.indices \in Seq(Nat)
         /\ Len(r.indices) \in Nat
<1>1. CASE r = GlobalState
  <2>1. r.target = Null /\ r.indices = <<>>
    BY <1>1 DEF GlobalState
  <2> QED BY <1>1, <2>1 DEF IsGlobalState
<1>2. CASE r \in References
  <2>1. r.target # Null /\ r.indices \in Seq(Nat)
    BY <1>2, ReferencesAssumption
  <2>2. r # GlobalState
    BY <2>1 DEF GlobalState
  <2>3. Len(r.indices) \in Nat
    BY <2>1, LenProperties
  <2> QED BY <1>2, <2>1, <2>2, <2>3 DEF IsGlobalState
<1> QED BY <1>1, <1>2 DEF Refs

\* A reference shadows itself.
LEMMA ShadowRefl == ASSUME NEW r \in Refs PROVE ReferenceIsShadowedBy(r, r)
BY RefShape DEF ReferenceIsShadowedBy

\* Shadowing is transitive.
LEMMA ShadowTrans ==
  ASSUME NEW r \in Refs, NEW s \in Refs, NEW t \in Refs,
         ReferenceIsShadowedBy(r, s), ReferenceIsShadowedBy(s, t)
  PROVE  ReferenceIsShadowedBy(r, t)
<1>1. CASE IsGlobalState(t)
  BY <1>1 DEF ReferenceIsShadowedBy
<1>2. CASE ~IsGlobalState(t)
  <2>1. ~IsGlobalState(s) /\ ~IsGlobalState(r)
    BY <1>2 DEF ReferenceIsShadowedBy
  <2>2. /\ Len(r.indices) \in Nat /\ Len(s.indices) \in Nat /\ Len(t.indices) \in Nat
    BY RefShape
  <2>3. \A dim \in 1 .. Len(t.indices) : dim \in 1 .. Len(s.indices)
    BY <1>2, <2>1, <2>2 DEF ReferenceIsShadowedBy
  <2> QED
    BY <1>2, <2>1, <2>2, <2>3 DEF ReferenceIsShadowedBy
<1> QED BY <1>1, <1>2

\* Whatever is distinct from a reference is distinct from all that it shadows.
LEMMA ShadowDistinct ==
  ASSUME NEW r \in Refs, NEW s \in Refs, NEW t \in Refs,
         ReferenceIsShadowedBy(r, s), IsProvablyDistinctFrom(s, t)
  PROVE  IsProvablyDistinctFrom(r, t)
<1>1. ~IsGlobalState(s) /\ ~IsGlobalState(t) /\ ~IsGlobalState(r)
  BY DEF ReferenceIsShadowedBy, IsProvablyDistinctFrom
<1>2. r.target = s.target /\ r.type = s.type /\ Len(s.indices) <= Len(r.indices)
  BY <1>1 DEF ReferenceIsShadowedBy
<1>3. Len(r.indices) \in Nat /\ Len(s.indices) \in Nat
  BY RefShape
<1>4. CASE s.target # t.target \/ s.type # t.type
  BY <1>1, <1>2, <1>4 DEF IsProvablyDistinctFrom
<1>5. CASE \E dim \in 1 .. Len(s.indices) : s.indices[dim] # t.indices[dim]
  <2>1. PICK dim \in 1 .. Len(s.indices) : s.indices[dim] # t.indices[dim]
    BY <1>5
  <2>2. r.indices[dim] = s.indices[dim]
    BY <1>1, <2>1 DEF ReferenceIsShadowedBy
  <2>3. dim \in 1 .. Len(r.indices)
    BY <1>2, <1>3, <2>1
  <2> QED BY <1>1, <2>1, <2>2, <2>3 DEF IsProvablyDistinctFrom
<1> QED BY <1>1, <1>4, <1>5 DEF IsProvablyDistinctFrom

\* A reference is not distinct from one that shadows it.
LEMMA ShadowNotDistinct ==
  ASSUME NEW r \in Refs, NEW s \in Refs, ReferenceIsShadowedBy(r, s)
  PROVE  ~IsProvablyDistinctFrom(r, s)
<1>1. CASE IsGlobalState(s)
  BY <1>1 DEF IsProvablyDistinctFrom
<1>2. CASE ~IsGlobalState(s)
  <2>1. ~IsGlobalState(r) /\ r.target = s.target /\ r.type = s.type
    BY <1>2 DEF ReferenceIsShadowedBy
  <2>2. Len(r.indices) = Len(s.indices)
    BY <1>2, <2>1, RefShape, ReferencesAssumption
  <2> QED BY <1>2, <2>1, <2>2 DEF ReferenceIsShadowedBy, IsProvablyDistinctFrom
<1> QED BY <1>1, <1>2

\* Distinctness is symmetric (types.h asks this of the relation).
LEMMA DistinctSym ==
  ASSUME NEW r \in Refs, NEW s \in Refs, IsProvablyDistinctFrom(r, s)
  PROVE  IsProvablyDistinctFrom(s, r)
<1>1. ~IsGlobalState(r) /\ ~IsGlobalState(s)
  BY DEF IsProvablyDistinctFrom
<1>2. r.target = s.target => Len(r.indices) = Len(s.indices)
  BY <1>1, RefShape, ReferencesAssumption
<1> QED BY <1>1, <1>2 DEF IsProvablyDistinctFrom

-----------------------------------------------------------------------------
(* Paths.                                                                  *)

\* A path of no edges.
LEMMA ReachRefl == ASSUME NEW N, NEW E, NEW a PROVE Reaches(N, E, a, a)
BY DEF Reaches

\* Paths compose.
LEMMA ReachTrans ==
  ASSUME NEW N, NEW E, NEW a, NEW b, NEW c, Reaches(N, E, a, b), Reaches(N, E, b, c)
  PROVE  Reaches(N, E, a, c)
BY DEF Reaches

\* An edge is a path.
LEMMA ReachEdge ==
  ASSUME NEW N, NEW E, NEW a, NEW b, <<a, b>> \in E
  PROVE  Reaches(N, E, a, b)
BY DEF Reaches

\* Adding edges keeps every path.
LEMMA ReachMono ==
  ASSUME NEW N, NEW E, NEW F, E \subseteq F, NEW a, NEW b, Reaches(N, E, a, b)
  PROVE  Reaches(N, F, a, b)
BY DEF Reaches

-----------------------------------------------------------------------------
(* Events.                                                                 *)

Options == [multi : BOOLEAN, single : BOOLEAN]

WellFormed(e) ==
  /\ e.reference \in Refs
  /\ e.mode \in AccessModes
  /\ IsGlobalState(e.reference) => e.mode = "write"

\* A sentinel writes the global state and does nothing else.
LEMMA SentinelEvents ==
  ASSUME NEW opts \in Options
  PROVE  AddStatement(Sentinel, opts) = {Event(GlobalState, "write")}
<1>1. /\ Sentinel.reads = {} /\ Sentinel.operands = <<>> /\ Sentinel.body = {}
      /\ Sentinel.kind = "sentinel"
  BY DEF Sentinel
<1>2. AddOperands(Sentinel.operands, opts) = {}
  BY <1>1 DEF AddOperands
<1>3. IsBarrier(Sentinel)
  BY <1>1 DEF IsBarrier
<1>4. AddSimpleStatement(Sentinel, opts) = {Event(GlobalState, "write")}
  BY <1>1, <1>2, <1>3 DEF AddSimpleStatement
<1> QED BY <1>1, <1>4 DEF AddStatement

\* The gatherer only produces well-formed events, and at least one per statement.
LEMMA EventsWellFormed ==
  ASSUME NEW s \in Statements \cup {Sentinel}, NEW opts \in Options
  PROVE  /\ EventsOf(s, opts) # {}
         /\ \A e \in EventsOf(s, opts) : WellFormed(e) /\ e = Event(e.reference, e.mode)
<1> DEFINE acc == AddStatement(s, opts)
           modes(r) == {a.mode : a \in {b \in acc : b.reference = r}}
<1>g. WellFormed(Event(GlobalState, "write"))
  BY RefShape DEF WellFormed, Event, Refs, AccessModes
<1>1. \A a \in acc : WellFormed(a)
  <2>1. CASE s = Sentinel
    BY <2>1, <1>g, SentinelEvents
  <2>2. CASE s \in Statements
    <3> SUFFICES ASSUME NEW a \in acc PROVE WellFormed(a)
      OBVIOUS
    <3>1. /\ a.reference \in Refs
          /\ a.mode \in AccessModes
          /\ a.reference = GlobalState => a.mode = "write"
      BY <2>2, StatementsAssumption DEF WellFormedStatements, Options, Refs
    <3> QED BY <3>1, RefShape DEF WellFormed
  <2> QED BY <2>1, <2>2
<1>2. CASE acc = {}
  <2>1. EventsOf(s, opts) = {Event(GlobalState, "write")}
    BY <1>2 DEF EventsOf
  <2>2. Event(GlobalState, "write") = Event(Event(GlobalState, "write").reference, Event(GlobalState, "write").mode)
    BY DEF Event
  <2> QED BY <2>1, <2>2, <1>g
<1>3. CASE acc # {}
  <2>1. EventsOf(s, opts) = {Event(a.reference, CombinedMode(modes(a.reference))) : a \in acc}
    BY <1>3 DEF EventsOf
  <2>2. ASSUME NEW a \in acc
        PROVE  WellFormed(Event(a.reference, CombinedMode(modes(a.reference))))
    <3>1. modes(a.reference) \subseteq AccessModes
      BY <1>1 DEF WellFormed
    <3>2. CombinedMode(modes(a.reference)) \in AccessModes
      BY <3>1 DEF CombinedMode, AccessModes
    <3>3. ASSUME IsGlobalState(a.reference) PROVE CombinedMode(modes(a.reference)) = "write"
      <4>1. \A m \in modes(a.reference) : m = "write"
        BY <1>1, <3>3 DEF WellFormed
      <4> QED BY <4>1 DEF CombinedMode
    <3> QED BY <1>1, <3>2, <3>3 DEF WellFormed, Event
  <2>3. EventsOf(s, opts) # {}
    <3>1. PICK a \in acc : TRUE
      BY <1>3
    <3>2. Event(a.reference, CombinedMode(modes(a.reference))) \in EventsOf(s, opts)
      BY <2>1, <3>1
    <3> QED BY <3>2
  <2>4. ASSUME NEW e \in EventsOf(s, opts)
        PROVE  WellFormed(e) /\ e = Event(e.reference, e.mode)
    <3>1. PICK a \in acc : e = Event(a.reference, CombinedMode(modes(a.reference)))
      BY <2>1
    <3>2. e = Event(e.reference, e.mode)
      BY <3>1 DEF Event
    <3> QED BY <2>2, <3>1, <3>2
  <2> QED BY <2>3, <2>4
<1> QED BY <1>2, <1>3

\* Commutation is symmetric.
LEMMA CommutesSym ==
  ASSUME NEW e, NEW f, WellFormed(e), WellFormed(f), EventCommutesWith(e, f)
  PROVE  EventCommutesWith(f, e)
BY DistinctSym DEF EventCommutesWith, ModeCommutesWith, WellFormed

\* A write of the global state commutes with nothing.
LEMMA GlobalCommutesWithNothing ==
  ASSUME NEW e, NEW f, WellFormed(e), IsGlobalState(e.reference)
  PROVE  ~EventCommutesWith(e, f) /\ ~EventCommutesWith(f, e)
BY DEF EventCommutesWith, ModeCommutesWith, WellFormed, IsProvablyDistinctFrom

\* An event does not commute with one that shadows it.
LEMMA ShadowedConflict ==
  ASSUME NEW e, NEW f, WellFormed(e), WellFormed(f), EventIsShadowedBy(e, f)
  PROVE  ~EventCommutesWith(e, f) /\ ReferenceIsShadowedBy(e.reference, f.reference)
BY ShadowNotDistinct DEF EventIsShadowedBy, EventCommutesWith, WellFormed

-----------------------------------------------------------------------------
(* The inductive invariant.                                                *)

\* What TypeOK says of an event of the block.
LEMMA EventsAtFacts ==
  ASSUME TypeOK, NEW n \in Nodes
  PROVE  /\ EventsAt(n) # {}
         /\ \A e \in EventsAt(n) : /\ WellFormed(e)
                                   /\ WellFormed(Pair(e, n))
                                   /\ Pair(e, n).node = n
<1>1. StatementAt(n) \in Statements \cup {Sentinel}
  <2>1. PICK m \in 0 .. MaxStatements : block \in [1 .. m -> Statements]
    BY DEF TypeOK, Blocks
  <2>2. m \in Nat
    BY <2>1, StatementsAssumption DEF WellFormedStatements
  <2>3. Len(block) = m
    BY <2>1, <2>2
  <2> QED BY <2>1, <2>3 DEF StatementAt
<1>2. EventsAt(n) # {} /\ \A e \in EventsAt(n) : WellFormed(e)
  BY <1>1, EventsWellFormed DEF EventsAt, TypeOK, Options
<1> QED BY <1>2 DEF WellFormed, Pair

\* Every processed event is a well-formed event of a node up to the current one.
LEMMA ProcessedFacts ==
  ASSUME TypeOK, NEW p \in Processed
  PROVE  /\ WellFormed(p)
         /\ p.node \in Nodes /\ p.node \in Int /\ p.node <= current /\ current \in Int
<1>0. Len(block) \in Nat /\ SinkOf(block) \in Nat
  <2>1. PICK m \in 0 .. MaxStatements : block \in [1 .. m -> Statements]
    BY DEF TypeOK, Blocks
  <2>2. m \in Nat /\ Len(block) = m
    BY <2>1, StatementsAssumption DEF WellFormedStatements
  <2> QED BY <2>2 DEF SinkOf
<1>1. current \in -1 .. SinkOf(block)
  BY DEF TypeOK
<1>2. PICK n \in 0 .. current : p \in {Pair(e, n) : e \in EventsDone(n)}
  BY DEF Processed
<1>3. n \in Nodes
  BY <1>0, <1>1 DEF Nodes
<1>4. PICK e \in EventsDone(n) : p = Pair(e, n)
  BY <1>2
<1>5. e \in EventsAt(n)
  BY <1>4 DEF EventsDone
<1>6. WellFormed(p) /\ p.node = n
  BY <1>3, <1>4, <1>5, EventsAtFacts
<1> QED BY <1>0, <1>1, <1>3, <1>6

\* Every node takes a number of cycles.
LEMMA DurationNat ==
  ASSUME TypeOK, NEW n \in Nodes
  PROVE  Duration(n) \in Nat
<1>1. StatementAt(n) \in Statements \cup {Sentinel}
  <2>1. PICK m \in 0 .. MaxStatements : block \in [1 .. m -> Statements]
    BY DEF TypeOK, Blocks
  <2>2. m \in Nat /\ Len(block) = m
    BY <2>1, StatementsAssumption DEF WellFormedStatements
  <2> QED BY <2>1, <2>2 DEF StatementAt
<1> QED BY <1>1, StatementsAssumption DEF WellFormedStatements, Duration, Sentinel

\* process_event() adds the incoming event to what has been processed, and nothing else.
LEMMA EventEffect ==
  ASSUME BuilderInv, NEW e \in pending, ProcessEvent(e)
  PROVE  /\ Len(block) \in Nat /\ SinkOf(block) \in Nat
         /\ current \in 0 .. SinkOf(block) /\ current \in Nodes /\ current # -1
         /\ e \in EventsAt(current)
         /\ Nodes' = Nodes /\ SinkOf(block)' = SinkOf(block)
         /\ \A n : EventsAt(n)' = EventsAt(n)
         /\ WellFormed(Pair(e, current)) /\ Pair(e, current).node = current
         /\ Processed' = Processed \cup {Pair(e, current)}
<1> DEFINE in == Pair(e, current)
<1>0. TypeOK
  BY DEF BuilderInv
<1>1. /\ block' = block /\ options' = options /\ current' = current
      /\ pending' = pending \ {e}
  BY DEF ProcessEvent
<1>2. /\ Len(block) \in Nat /\ SinkOf(block) \in Nat
      /\ current \in 0 .. SinkOf(block) /\ current \in Nodes /\ current # -1
      /\ e \in EventsAt(current)
  <2>1. PICK m \in 0 .. MaxStatements : block \in [1 .. m -> Statements]
    BY <1>0 DEF TypeOK, Blocks
  <2>2. m \in Nat /\ Len(block) = m
    BY <2>1, StatementsAssumption DEF WellFormedStatements
  <2>3. SinkOf(block) \in Nat
    BY <2>2 DEF SinkOf
  <2>4. current # -1 /\ e \in EventsAt(current)
    BY <1>0 DEF TypeOK
  <2>5. current \in -1 .. SinkOf(block)
    BY <1>0 DEF TypeOK
  <2> QED BY <2>2, <2>3, <2>4, <2>5 DEF Nodes
<1>3. /\ Nodes' = Nodes /\ SinkOf(block)' = SinkOf(block)
      /\ \A n : EventsAt(n)' = EventsAt(n)
  BY <1>1 DEF Nodes, SinkOf, EventsAt, StatementAt
<1>4. WellFormed(in) /\ in.node = current
  BY <1>0, <1>2, EventsAtFacts
<1>5. Processed' = Processed \cup {in}
  <2>1. \A n : n # current => EventsDone(n)' = EventsDone(n)
    BY <1>1, <1>3 DEF EventsDone
  <2>2. EventsDone(current)' = EventsDone(current) \cup {e}
    BY <1>1, <1>2, <1>3 DEF EventsDone
  <2>3. \A n \in 0 .. current : n # current =>
          {Pair(f, n) : f \in EventsDone(n)'} = {Pair(f, n) : f \in EventsDone(n)}
    BY <2>1
  <2>4. {Pair(f, current) : f \in EventsDone(current)'}
          = {Pair(f, current) : f \in EventsDone(current)} \cup {in}
    BY <2>2
  <2>5. current \in 0 .. current
    BY <1>2
  <2> DEFINE old(n) == {Pair(f, n) : f \in EventsDone(n)}
             new(n) == {Pair(f, n) : f \in EventsDone(n)'}
  <2>6. (\A n \in 0 .. current : n # current => new(n) = old(n)) /\ new(current) = old(current) \cup {in}
    BY <2>3, <2>4
  <2>7. Processed = UNION {old(n) : n \in 0 .. current} /\ Processed' = UNION {new(n) : n \in 0 .. current}
    BY <1>1 DEF Processed
  <2> HIDE DEF old, new, in
  <2>8. ASSUME NEW p \in Processed' PROVE p \in Processed \cup {in}
    <3>1. PICK n \in 0 .. current : p \in new(n)
      BY <2>7
    <3> QED BY <2>6, <2>7, <3>1
  <2>9. ASSUME NEW p \in Processed PROVE p \in Processed'
    <3>1. PICK n \in 0 .. current : p \in old(n)
      BY <2>7
    <3> QED BY <2>6, <2>7, <3>1
  <2>10. in \in Processed'
    BY <2>5, <2>6, <2>7
  <2> QED BY <2>8, <2>9, <2>10
<1> QED BY <1>2, <1>3, <1>4, <1>5

\* process_event() keeps the invariant.
LEMMA EventStep ==
  ASSUME BuilderInv, NEW e \in pending, ProcessEvent(e)
  PROVE  BuilderInv'
<1> DEFINE in  == Pair(e, current)
           ev  == Evicted(in)
           nc  == AfterEviction(in)
           src == EdgeSources(in)
<1>0. /\ TypeOK /\ ~failed /\ EntriesProcessed /\ EdgesForward /\ CommutingAgree
      /\ ConflictsOrdered /\ Covered /\ GlobalWritesFirst
  BY DEF BuilderInv, NoInternalError
<1>1. /\ block' = block /\ options' = options /\ current' = current
      /\ pending' = pending \ {e}
      /\ commuting' = (commuting \ ev) \cup {in}
      /\ nonCommuting' = nc
      /\ weight' = AddEdges(src, current)
      /\ failed' = (~(\A s \in src : s.node # current)
                    \/ \E s \in src : IsGlobalState(s.reference) /\ CommutesWith(s, in))
  BY DEF ProcessEvent
<1>2. /\ Len(block) \in Nat /\ SinkOf(block) \in Nat
      /\ current \in 0 .. SinkOf(block) /\ current \in Nodes /\ current # -1
      /\ e \in EventsAt(current)
  BY EventEffect
<1>3. /\ Nodes' = Nodes /\ SinkOf(block)' = SinkOf(block)
      /\ \A n : EventsAt(n)' = EventsAt(n)
  BY EventEffect
<1>4. WellFormed(in) /\ in.node = current
  BY EventEffect
<1>5. Processed' = Processed \cup {in}
  BY EventEffect
<1>6. \A p \in Processed :
        WellFormed(p) /\ p.node \in Nodes /\ p.node \in Int /\ p.node <= current
  BY <1>0, ProcessedFacts
<1>7. commuting \subseteq Processed /\ nonCommuting \subseteq Processed
  BY <1>0 DEF EntriesProcessed
<1>8. /\ nc \subseteq nonCommuting \cup ev /\ ev \subseteq commuting
      /\ \A s \in nc : s.node < current
  <2>1. ev \subseteq commuting
    BY DEF Evicted
  <2>2. \A s \in ev : s.node < current
    BY <1>2, <1>4, <1>6, <1>7 DEF Evicted, CommutesWith
  <2> QED BY <1>0, <2>1, <2>2 DEF AfterEviction, EntriesProcessed
<1>9. src \subseteq nc
  BY DEF EdgeSources, MayAlias, GlobalWrites
<1>10. DOMAIN weight' = DOMAIN weight \cup {<<s.node, current>> : s \in src}
  BY <1>1 DEF AddEdges
<1>11. \A a, b : Path(a, b) => Path(a, b)'
  BY <1>3, <1>10, ReachMono DEF Path
<1>12. \A s \in src : Path(s.node, current)'
  <2> SUFFICES ASSUME NEW s \in src PROVE Reaches(Nodes', DOMAIN weight', s.node, current)
    BY <1>1 DEF Path
  <2>1. <<s.node, current>> \in DOMAIN weight'
    BY <1>10
  <2> QED BY <2>1, ReachEdge
<1> HIDE DEF in, ev, nc, src
<1>13. \A p \in Processed :
         \/ p \in commuting \ ev
         \/ \E y \in nc : ReferenceIsShadowedBy(p.reference, y.reference) /\ Path(p.node, y.node)
  <2> SUFFICES ASSUME NEW p \in Processed, p \notin commuting \ ev
               PROVE  \E y \in nc : ReferenceIsShadowedBy(p.reference, y.reference)
                                   /\ Path(p.node, y.node)
    OBVIOUS
  <2>1. CASE p \in commuting
    <3>1. p \in nc
      BY <2>1 DEF nc, ev, AfterEviction
    <3> QED BY <1>6, <3>1, ShadowRefl, ReachRefl DEF WellFormed, Path
  <2>2. CASE p \notin commuting
    <3>1. PICK x \in nonCommuting :
            ReferenceIsShadowedBy(p.reference, x.reference) /\ Path(p.node, x.node)
      BY <1>0, <2>2 DEF Covered
    <3>2. CASE x \in nc
      BY <3>1, <3>2
    <3>3. CASE x \notin nc
      <4>1. PICK c \in ev : EventIsShadowedBy(x, c)
        BY <3>3 DEF nc, ev, AfterEviction
      <4>2. x \in Processed /\ c \in Processed /\ c \in commuting /\ c \in nc
        BY <1>7, <1>8, <4>1 DEF nc, ev, AfterEviction
      <4>3. ~EventCommutesWith(x, c) /\ ~EventCommutesWith(c, x)
            /\ ReferenceIsShadowedBy(x.reference, c.reference)
        BY <1>6, <4>1, <4>2, ShadowedConflict, CommutesSym
      <4>4. Path(x.node, c.node)
        <5>1. CASE x.node < c.node
          BY <1>0, <4>2, <4>3, <5>1 DEF ConflictsOrdered
        <5>2. CASE x.node >= c.node
          <6>1. CommutesWith(c, x)
            BY <1>0, <4>2, <5>2 DEF CommutingAgree
          <6>2. c.node = x.node
            BY <4>3, <6>1 DEF CommutesWith
          <6> QED BY <6>2, ReachRefl DEF Path
        <5> QED BY <1>6, <4>2, <5>1, <5>2
      <4>5. Path(p.node, c.node)
        BY <3>1, <4>4, ReachTrans DEF Path
      <4>6. ReferenceIsShadowedBy(p.reference, c.reference)
        BY <1>6, <3>1, <4>2, <4>3, ShadowTrans DEF WellFormed
      <4> QED BY <4>2, <4>5, <4>6
    <3> QED BY <3>2, <3>3
  <2> QED BY <2>1, <2>2
<1>14. \A g \in nc : IsGlobalState(g.reference) =>
         \A z \in nc \cup (commuting \ ev) : Path(g.node, z.node)
  <2> SUFFICES ASSUME NEW g \in nc, IsGlobalState(g.reference),
                      NEW z \in nc \cup (commuting \ ev)
               PROVE  Path(g.node, z.node)
    OBVIOUS
  <2>0. g \in Processed /\ z \in Processed /\ z \in nonCommuting \cup commuting
    BY <1>7, <1>8
  <2>1. CASE g \in nonCommuting
    BY <1>0, <2>0, <2>1 DEF GlobalWritesFirst
  <2>2. CASE g \in ev
    <3>1. z \in commuting
      <4>1. CASE z \in nc /\ z \notin ev
        <5>1. ~EventIsShadowedBy(z, g)
          BY <2>2, <4>1 DEF nc, ev, AfterEviction
        <5>2. ~ModeCommutesWith(z.mode, g.mode)
          BY <1>6, <2>0 DEF WellFormed, ModeCommutesWith
        <5> QED BY <5>1, <5>2 DEF EventIsShadowedBy, ReferenceIsShadowedBy
      <4> QED BY <1>8, <4>1
    <3>2. g \in commuting
      BY <1>8, <2>2
    <3>3. CommutesWith(g, z) \/ CommutesWith(z, g)
      <4>1. z.node >= g.node \/ g.node >= z.node
        BY <1>6, <2>0
      <4> QED BY <1>0, <2>0, <3>1, <3>2, <4>1 DEF CommutingAgree
    <3>4. g.node = z.node
      BY <1>6, <2>0, <3>3, GlobalCommutesWithNothing DEF CommutesWith
    <3> QED BY <3>4, ReachRefl DEF Path
  <2> QED BY <1>8, <2>1, <2>2
<1>15. \A p \in Processed :
         p.node < current /\ ~EventCommutesWith(p, in) => Path(p.node, current)'
  <2> SUFFICES ASSUME NEW p \in Processed, p.node < current, ~EventCommutesWith(p, in)
               PROVE  Path(p.node, current)'
    OBVIOUS
  <2>1. p \notin commuting \ ev
    BY <1>4, <1>6, <1>2 DEF ev, Evicted, CommutesWith
  <2>2. PICK y \in nc : ReferenceIsShadowedBy(p.reference, y.reference) /\ Path(p.node, y.node)
    BY <1>13, <2>1
  <2>3. y \in Processed
    BY <1>7, <1>8
  <2>4. ~IsProvablyDistinctFrom(y.reference, in.reference)
    BY <1>4, <1>6, <2>2, <2>3, ShadowDistinct DEF EventCommutesWith, WellFormed
  <2>5. \E s \in src : Path(y.node, s.node)
    <3>1. CASE ~IsGlobalState(y.reference)
      <4>1. y \in src
        BY <2>4, <3>1 DEF src, nc, EdgeSources, MayAlias
      <4> QED BY <4>1, ReachRefl DEF Path
    <3>2. CASE IsGlobalState(y.reference) /\ MayAlias(in) # {}
      <4>1. PICK s \in MayAlias(in) : TRUE
        BY <3>2
      <4>2. s \in src
        BY <3>2, <4>1 DEF src, EdgeSources
      <4> QED BY <1>9, <1>14, <3>2, <4>2
    <3>3. CASE IsGlobalState(y.reference) /\ MayAlias(in) = {}
      <4>1. y \in src
        BY <3>3 DEF src, nc, EdgeSources, GlobalWrites
      <4> QED BY <4>1, ReachRefl DEF Path
    <3> QED BY <3>1, <3>2, <3>3
  <2>6. PICK s \in src : Path(y.node, s.node)
    BY <2>5
  <2>7. Path(p.node, s.node)
    BY <2>2, <2>6, ReachTrans DEF Path
  <2>8. Path(p.node, s.node)' /\ Path(s.node, current)'
    BY <1>1, <1>11, <1>12, <2>7
  <2> QED BY <1>1, <2>8, ReachTrans DEF Path
<1>16. ConflictsOrdered'
  <2> SUFFICES ASSUME NEW p \in Processed', NEW q \in Processed',
                      p.node < q.node, ~EventCommutesWith(p, q)
               PROVE  Path(p.node, q.node)'
    BY DEF ConflictsOrdered
  <2>1. CASE p \in Processed /\ q \in Processed
    BY <1>0, <1>11, <2>1 DEF ConflictsOrdered
  <2>2. CASE p \in Processed /\ q = in
    BY <1>1, <1>4, <1>15, <2>2
  <2>3. CASE p = in
    BY <1>2, <1>4, <1>5, <1>6, <2>3
  <2> QED BY <1>5, <2>1, <2>2, <2>3
<1>17. CommutingAgree'
  <2> SUFFICES ASSUME NEW c \in commuting', NEW p \in Processed', p.node >= c.node
               PROVE  CommutesWith(c, p)
    BY DEF CommutingAgree
  <2>1. CASE c \in commuting \ ev /\ p \in Processed
    BY <1>0, <2>1 DEF CommutingAgree
  <2>2. CASE c \in commuting \ ev /\ p = in
    BY <2>2 DEF ev, Evicted
  <2>3. CASE c = in
    BY <1>2, <1>4, <1>5, <1>6, <2>3 DEF CommutesWith
  <2> QED BY <1>1, <1>5, <2>1, <2>2, <2>3
<1>18. Covered'
  <2> SUFFICES ASSUME NEW p \in Processed', p \notin commuting'
               PROVE  \E x \in nonCommuting' :
                        ReferenceIsShadowedBy(p.reference, x.reference) /\ Path(p.node, x.node)'
    BY DEF Covered
  <2>1. p \in Processed /\ p \notin commuting \ ev
    BY <1>1, <1>5
  <2> QED BY <1>1, <1>11, <1>13, <2>1
<1>19. GlobalWritesFirst'
  <2> SUFFICES ASSUME NEW g \in nc, IsGlobalState(g.reference), NEW z \in nc \cup commuting'
               PROVE  Path(g.node, z.node)'
    BY <1>1 DEF GlobalWritesFirst
  <2>1. CASE z \in nc \cup (commuting \ ev)
    BY <1>11, <1>14, <2>1
  <2>2. CASE z = in
    <3>1. g \in Processed /\ g.node < current
      BY <1>7, <1>8
    <3>2. ~EventCommutesWith(g, in)
      BY <1>6, <3>1, GlobalCommutesWithNothing
    <3> QED BY <1>1, <1>4, <1>15, <2>2, <3>1, <3>2
  <2> QED BY <1>1, <2>1, <2>2
<1>20. EdgesForward'
  <2> SUFFICES ASSUME NEW d \in DOMAIN weight' PROVE d[1] < d[2] /\ d[2] <= current
    BY <1>1 DEF EdgesForward
  <2>1. CASE d \in DOMAIN weight
    BY <1>0, <2>1 DEF EdgesForward
  <2>2. CASE d \in {<<s.node, current>> : s \in src}
    BY <1>2, <1>8, <1>9, <2>2
  <2> QED BY <1>10, <2>1, <2>2
<1>21. NoInternalError'
  <2>1. \A s \in src : s.node # current
    BY <1>2, <1>6, <1>7, <1>8, <1>9
  <2>2. ASSUME NEW s \in src, IsGlobalState(s.reference) PROVE ~CommutesWith(s, in)
    BY <1>4, <1>6, <1>7, <1>8, <1>9, <2>1, <2>2, GlobalCommutesWithNothing DEF CommutesWith
  <2> QED BY <1>1, <2>1, <2>2 DEF NoInternalError
<1>22. EntriesProcessed'
  BY <1>1, <1>5, <1>7, <1>8 DEF EntriesProcessed
<1>23. TypeOK'
  <2>1. ASSUME NEW p \in Processed PROVE p \in UNION {{Pair(f, n) : f \in EventsAt(n)} : n \in Nodes}
    <3>1. PICK n \in 0 .. current : p \in {Pair(f, n) : f \in EventsDone(n)}
      BY DEF Processed
    <3>2. n \in Nodes
      BY <1>2 DEF Nodes
    <3>3. PICK f \in EventsAt(n) : p = Pair(f, n)
      BY <3>1 DEF EventsDone
    <3> QED BY <3>2, <3>3
  <2>2. in \in UNION {{Pair(f, n) : f \in EventsAt(n)} : n \in Nodes}
    BY <1>2 DEF in
  <2>3. commuting' \subseteq UNION {{Pair(f, n) : f \in EventsAt(n)} : n \in Nodes}
        /\ nonCommuting' \subseteq UNION {{Pair(f, n) : f \in EventsAt(n)} : n \in Nodes}
    BY <1>1, <1>7, <1>8, <2>1, <2>2
  <2>4. UNION {{Pair(f, n) : f \in EventsAt(n)'} : n \in Nodes'}
          = UNION {{Pair(f, n) : f \in EventsAt(n)} : n \in Nodes}
    BY <1>3
  <2>5. DOMAIN weight' \subseteq Nodes \X Nodes
    BY <1>0, <1>2, <1>6, <1>7, <1>8, <1>9, <1>10 DEF TypeOK
  <2>6. \A d \in DOMAIN weight' : weight'[d] \in Nat
    <3>1. \A n \in Nodes : Duration(n) \in Nat
      BY <1>0, DurationNat
    <3>2. \A d \in {<<s.node, current>> : s \in src} : Duration(d[1]) \in Nat
      BY <1>6, <1>7, <1>8, <1>9, <3>1
    <3>3. \A d \in DOMAIN weight : weight[d] \in Nat
      BY <1>0 DEF TypeOK
    <3> QED BY <1>1, <3>2, <3>3 DEF AddEdges, Max2
  <2>7. weight' \in [DOMAIN weight' -> Nat]
    <3>1. weight' = [d \in DOMAIN weight' |-> weight'[d]]
      BY <1>1 DEF AddEdges
    <3> QED BY <2>6, <3>1
  <2>8. block' \in Blocks' /\ options' \in [multi : BOOLEAN, single : BOOLEAN]
        /\ current' \in -1 .. SinkOf(block)' /\ failed' \in BOOLEAN
    BY <1>0, <1>1, <1>3 DEF TypeOK, Blocks
  <2>9. pending' \subseteq (IF current' = -1 THEN {} ELSE EventsAt(current)')
    BY <1>0, <1>1, <1>2, <1>3 DEF TypeOK
  <2>10. /\ commuting' \subseteq UNION {{Pair(f, n) : f \in EventsAt(n)'} : n \in Nodes'}
         /\ nonCommuting' \subseteq UNION {{Pair(f, n) : f \in EventsAt(n)'} : n \in Nodes'}
         /\ DOMAIN weight' \subseteq Nodes' \X Nodes'
    BY <1>3, <2>3, <2>4, <2>5
  <2> QED BY <2>7, <2>8, <2>9, <2>10 DEF TypeOK
<1> QED BY <1>16, <1>17, <1>18, <1>19, <1>20, <1>21, <1>22, <1>23 DEF BuilderInv

\* process_statement() takes the next statement; nothing of it has been processed yet.
LEMMA StatementEffect ==
  ASSUME BuilderInv, ProcessStatement
  PROVE  /\ Len(block) \in Nat /\ SinkOf(block) \in Nat /\ current \in -1 .. SinkOf(block)
         /\ Nodes' = Nodes /\ SinkOf(block)' = SinkOf(block)
         /\ \A n : EventsAt(n)' = EventsAt(n)
         /\ \A n : Duration(n)' = Duration(n)
         /\ Processed' = Processed
<1>0. TypeOK
  BY DEF BuilderInv
<1>1. /\ block' = block /\ options' = options /\ current' = current + 1
      /\ pending = {} /\ pending' = EventsAt(current + 1)
      /\ weight' = weight /\ current < SinkOf(block)
  BY DEF ProcessStatement
<1>2. Len(block) \in Nat /\ SinkOf(block) \in Nat /\ current \in -1 .. SinkOf(block)
  <2>1. PICK m \in 0 .. MaxStatements : block \in [1 .. m -> Statements]
    BY <1>0 DEF TypeOK, Blocks
  <2>2. m \in Nat /\ Len(block) = m
    BY <2>1, StatementsAssumption DEF WellFormedStatements
  <2> QED BY <1>0, <2>2 DEF SinkOf, TypeOK
<1>3. /\ Nodes' = Nodes /\ SinkOf(block)' = SinkOf(block)
      /\ \A n : EventsAt(n)' = EventsAt(n)
      /\ \A n : Duration(n)' = Duration(n)
  BY <1>1 DEF Nodes, SinkOf, EventsAt, StatementAt, Duration
<1>4. Processed' = Processed
  <2>0. \A n : EventsDone(n)' = EventsAt(n) \ (IF n = current + 1 THEN EventsAt(current + 1) ELSE {})
    BY <1>1, <1>3 DEF EventsDone
  <2>1. /\ \A n \in 0 .. current : EventsDone(n)' = EventsDone(n)
        /\ \A n : n = current + 1 => EventsDone(n)' = {}
    <3>1. ASSUME NEW n \in 0 .. current PROVE EventsDone(n)' = EventsDone(n)
      <4>1. n # current + 1
        BY <1>2
      <4> QED BY <1>1, <2>0, <4>1 DEF EventsDone
    <3>2. ASSUME NEW n, n = current + 1 PROVE EventsDone(n)' = {}
      <4>1. EventsDone(n)' = EventsAt(n) \ EventsAt(n)
        BY <2>0, <3>2
      <4> QED BY <4>1
    <3> QED BY <3>1, <3>2
  <2> DEFINE old(n) == {Pair(f, n) : f \in EventsDone(n)}
             new(n) == {Pair(f, n) : f \in EventsDone(n)'}
  <2>2. (\A n \in 0 .. current : new(n) = old(n)) /\ (\A n : n = current + 1 => new(n) = {})
    BY <2>1
  <2>3. /\ Processed = UNION {old(n) : n \in 0 .. current}
        /\ Processed' = UNION {new(n) : n \in 0 .. (current + 1)}
    BY <1>1 DEF Processed
  <2> HIDE DEF old, new
  <2>4. ASSUME NEW p \in Processed' PROVE p \in Processed
    <3>1. PICK n \in 0 .. (current + 1) : p \in new(n)
      BY <2>3
    <3>2. n \in 0 .. current
      BY <1>2, <2>2, <3>1
    <3> QED BY <2>2, <2>3, <3>1, <3>2
  <2>5. ASSUME NEW p \in Processed PROVE p \in Processed'
    <3>1. PICK n \in 0 .. current : p \in old(n)
      BY <2>3
    <3>2. n \in 0 .. (current + 1)
      BY <1>2, <3>1
    <3> QED BY <2>2, <2>3, <3>1, <3>2
  <2> QED BY <2>4, <2>5
<1> QED BY <1>2, <1>3, <1>4

\* process_statement() keeps the invariant: it has no effect on the two lists or the
\* edges, and nothing of the new statement has been processed yet.
LEMMA StatementStep ==
  ASSUME BuilderInv, ProcessStatement
  PROVE  BuilderInv'
<1>0. /\ TypeOK /\ ~failed /\ EntriesProcessed /\ EdgesForward /\ CommutingAgree
      /\ ConflictsOrdered /\ Covered /\ GlobalWritesFirst
  BY DEF BuilderInv, NoInternalError
<1>1. /\ block' = block /\ options' = options /\ current' = current + 1
      /\ pending = {} /\ pending' = EventsAt(current + 1)
      /\ commuting' = commuting /\ nonCommuting' = nonCommuting
      /\ weight' = weight /\ failed' = failed /\ current < SinkOf(block)
  BY DEF ProcessStatement
<1>2. Len(block) \in Nat /\ SinkOf(block) \in Nat /\ current \in -1 .. SinkOf(block)
  BY StatementEffect
<1>3. /\ Nodes' = Nodes /\ SinkOf(block)' = SinkOf(block)
      /\ \A n : EventsAt(n)' = EventsAt(n)
      /\ \A n : Duration(n)' = Duration(n)
  BY StatementEffect
<1>4. Processed' = Processed
  BY StatementEffect
<1>5. \A a, b : Path(a, b)' <=> Path(a, b)
  BY <1>1, <1>3 DEF Path
<1>6. TypeOK'
  <2>1. /\ commuting' \subseteq UNION {{Pair(f, n) : f \in EventsAt(n)'} : n \in Nodes'}
        /\ nonCommuting' \subseteq UNION {{Pair(f, n) : f \in EventsAt(n)'} : n \in Nodes'}
    BY <1>0, <1>1, <1>3 DEF TypeOK
  <2>2. current' \in -1 .. SinkOf(block)' /\ pending' \subseteq EventsAt(current)' /\ current' # -1
    BY <1>1, <1>2, <1>3
  <2>3. /\ block' \in Blocks /\ options' \in [multi : BOOLEAN, single : BOOLEAN]
        /\ DOMAIN weight' \subseteq Nodes' \X Nodes'
        /\ weight' \in [DOMAIN weight' -> Nat]
        /\ failed' \in BOOLEAN
    BY <1>0, <1>1, <1>3 DEF TypeOK
  <2> QED BY <2>1, <2>2, <2>3 DEF TypeOK, Blocks
<1>7. NoInternalError'
  BY <1>0, <1>1 DEF NoInternalError
<1>8. EntriesProcessed'
  <2>1. ASSUME NEW p \in nonCommuting PROVE p \in Processed /\ p.node < current + 1
    <3>1. p \in Processed /\ p.node < current
      BY <1>0 DEF EntriesProcessed
    <3> QED BY <1>0, <3>1, ProcessedFacts
  <2> QED BY <1>0, <1>1, <1>4, <2>1 DEF EntriesProcessed
<1>9. EdgesForward'
  <2> SUFFICES ASSUME NEW d \in DOMAIN weight PROVE d[1] < d[2] /\ d[2] <= current + 1
    BY <1>1 DEF EdgesForward
  <2>1. d[1] < d[2] /\ d[2] <= current /\ d \in Nodes \X Nodes
    BY <1>0 DEF EdgesForward, TypeOK
  <2> QED BY <1>2, <2>1 DEF Nodes
<1>10. CommutingAgree'
  BY <1>0, <1>1, <1>4 DEF CommutingAgree
<1>11. ConflictsOrdered'
  BY <1>0, <1>4, <1>5 DEF ConflictsOrdered
<1>12. Covered'
  BY <1>0, <1>1, <1>4, <1>5 DEF Covered
<1>13. GlobalWritesFirst'
  BY <1>0, <1>1, <1>5 DEF GlobalWritesFirst
<1> QED BY <1>6, <1>7, <1>8, <1>9, <1>10, <1>11, <1>12, <1>13 DEF BuilderInv

\* Nothing is processed before the first statement.
LEMMA InitInv == Init => BuilderInv
<1> SUFFICES ASSUME Init PROVE BuilderInv
  OBVIOUS
<1>1. /\ block \in Blocks /\ options \in [multi : BOOLEAN, single : BOOLEAN]
      /\ current = -1 /\ pending = {} /\ commuting = {} /\ nonCommuting = {}
      /\ weight = [e \in {} |-> 0] /\ failed = FALSE
  BY DEF Init
<1>2. SinkOf(block) \in Nat
  <2>1. PICK m \in 0 .. MaxStatements : block \in [1 .. m -> Statements]
    BY <1>1 DEF Blocks
  <2>2. m \in Nat /\ Len(block) = m
    BY <2>1, StatementsAssumption DEF WellFormedStatements
  <2> QED BY <2>2 DEF SinkOf
<1>3. Processed = {}
  <2>1. 0 .. current = {}
    BY <1>1
  <2> QED BY <2>1 DEF Processed
<1>4. TypeOK
  <2>1. DOMAIN weight = {}
    BY <1>1
  <2>2. current \in -1 .. SinkOf(block) /\ failed \in BOOLEAN
    <3>1. \A n \in Nat : -1 \in -1 .. n
      OBVIOUS
    <3>2. current = -1 /\ failed = FALSE
      BY <1>1
    <3> QED BY <1>2, <3>1, <3>2
  <2> QED BY <1>1, <2>1, <2>2 DEF TypeOK
<1>5. DOMAIN weight = {}
  BY <1>1
<1> QED BY <1>1, <1>3, <1>5, <1>4 DEF BuilderInv, NoInternalError, EntriesProcessed, EdgesForward,
                               CommutingAgree, ConflictsOrdered, Covered, GlobalWritesFirst

\* No step of the builder breaks the invariant.
LEMMA BuilderStep ==
  ASSUME BuilderInv, [Next]_builderVars
  PROVE  BuilderInv'
<1>1. CASE ProcessStatement
  BY <1>1, StatementStep
<1>2. CASE \E e \in pending : ProcessEvent(e)
  BY <1>2, EventStep
<1>3. CASE UNCHANGED builderVars
  <2>1. /\ block' = block /\ options' = options /\ current' = current /\ pending' = pending
        /\ commuting' = commuting /\ nonCommuting' = nonCommuting
        /\ weight' = weight /\ failed' = failed
    BY <1>3 DEF builderVars
  <2>2. Nodes' = Nodes /\ SinkOf(block)' = SinkOf(block) /\ \A n : EventsAt(n)' = EventsAt(n)
    BY <2>1 DEF Nodes, SinkOf, EventsAt, StatementAt
  <2>3. \A n : EventsDone(n)' = EventsDone(n)
    BY <2>1, <2>2 DEF EventsDone
  <2>4. Processed' = Processed
    BY <2>1, <2>3 DEF Processed
  <2>5. \A a, b : Path(a, b)' <=> Path(a, b)
    BY <2>1, <2>2 DEF Path
  <2>6. TypeOK'
    BY <2>1, <2>2 DEF BuilderInv, TypeOK, Blocks
  <2>7. NoInternalError' /\ EntriesProcessed' /\ EdgesForward' /\ CommutingAgree'
    BY <2>1, <2>4 DEF BuilderInv, NoInternalError, EntriesProcessed, EdgesForward, CommutingAgree
  <2>8. ConflictsOrdered' /\ Covered' /\ GlobalWritesFirst'
    BY <2>1, <2>4, <2>5 DEF BuilderInv, ConflictsOrdered, Covered, GlobalWritesFirst
  <2> QED BY <2>6, <2>7, <2>8 DEF BuilderInv
<1> QED BY <1>1, <1>2, <1>3 DEF Next

\* What is written about a block of statements by the builder, at every step of the
\* way: the invariant is inductive.
THEOREM BuilderInvariant == Spec => []BuilderInv
<1>1. BuilderInv /\ [Next]_builderVars => BuilderInv'
  BY BuilderStep
<1> QED BY <1>1, InitInv, PTL DEF Spec

-----------------------------------------------------------------------------
(* What follows from it.                                                   *)

\* The builder's state keeps its type: in particular no list ever holds an event of
\* a statement that is not in the block.
THEOREM TypeCorrect == Spec => []TypeOK
<1>1. BuilderInv => TypeOK
  BY DEF BuilderInv
<1> QED BY <1>1, BuilderInvariant, PTL

\* add_edge()'s assertion and its internal compiler error are unreachable.
THEOREM NoInternalErrors == Spec => []NoInternalError
<1>1. BuilderInv => NoInternalError
  BY DEF BuilderInv
<1> QED BY <1>1, BuilderInvariant, PTL

\* Statements that do not commute are ordered by the graph as in the program.
THEOREM Soundness == Spec => []ConflictsOrdered
<1>1. BuilderInv => ConflictsOrdered
  BY DEF BuilderInv
<1> QED BY <1>1, BuilderInvariant, PTL

\* The events kept in commuting commute with all that has been processed since.
THEOREM CommutingListCommutes == Spec => []CommutingAgree
<1>1. BuilderInv => CommutingAgree
  BY DEF BuilderInv
<1> QED BY <1>1, BuilderInvariant, PTL

\* A sentinel conflicts with every statement, so the finished graph is connected.
LEMMA ConnectedFromInv == BuilderInv => Connected
<1> SUFFICES ASSUME BuilderInv, BuildDone, NEW n \in Nodes
             PROVE  Path(0, n) /\ Path(n, SinkOf(block))
  BY DEF Connected
<1>0. TypeOK /\ ConflictsOrdered /\ current = SinkOf(block) /\ pending = {}
  BY DEF BuilderInv, BuildDone
<1>1. Len(block) \in Nat /\ SinkOf(block) \in Nat /\ SinkOf(block) > Len(block)
  <2>1. PICK m \in 0 .. MaxStatements : block \in [1 .. m -> Statements]
    BY <1>0 DEF TypeOK, Blocks
  <2>2. m \in Nat /\ Len(block) = m
    BY <2>1, StatementsAssumption DEF WellFormedStatements
  <2> QED BY <2>2 DEF SinkOf
<1>2. ASSUME NEW k \in Nodes
      PROVE  \E p \in Processed : p.node = k /\ WellFormed(p)
  <2>1. PICK e \in EventsAt(k) : TRUE
    BY <1>0, EventsAtFacts
  <2>2. e \in EventsDone(k) /\ k \in 0 .. current
    BY <1>0, <2>1 DEF EventsDone, Nodes
  <2>3. Pair(e, k) \in Processed
    BY <2>2 DEF Processed
  <2> QED BY <1>0, <2>1, <2>3, EventsAtFacts
<1>3. ASSUME NEW k \in {0, SinkOf(block)}
      PROVE  \A p \in Processed : p.node = k => IsGlobalState(p.reference)
  <2>1. StatementAt(k) = Sentinel /\ options \in Options
    BY <1>0, <1>1 DEF StatementAt, SinkOf, TypeOK, Options
  <2>2. AddStatement(Sentinel, options) = {Event(GlobalState, "write")}
    BY <2>1, SentinelEvents
  <2>3. \A e \in EventsAt(k) : e.reference = GlobalState
    BY <2>1, <2>2 DEF EventsAt, EventsOf, Event
  <2> SUFFICES ASSUME NEW p \in Processed, p.node = k PROVE IsGlobalState(p.reference)
    OBVIOUS
  <2>4. PICK m \in 0 .. current : p \in {Pair(e, m) : e \in EventsDone(m)}
    BY DEF Processed
  <2>5. PICK e \in EventsAt(m) : p = Pair(e, m)
    BY <2>4 DEF EventsDone
  <2>6. p.node = m /\ p.reference = e.reference
    BY <2>5 DEF Pair
  <2> QED BY <2>3, <2>5, <2>6 DEF IsGlobalState, GlobalState
<1>4. PICK p \in Processed : p.node = n /\ WellFormed(p)
  BY <1>2
<1>5. PICK q \in Processed : q.node = 0 /\ WellFormed(q) /\ IsGlobalState(q.reference)
  BY <1>1, <1>2, <1>3 DEF Nodes
<1>6. PICK r \in Processed : r.node = SinkOf(block) /\ WellFormed(r) /\ IsGlobalState(r.reference)
  BY <1>1, <1>2, <1>3 DEF Nodes
<1>7. Path(0, n)
  <2>1. CASE n = 0
    BY <2>1, ReachRefl DEF Path
  <2>2. CASE n # 0
    <3>1. q.node < p.node /\ ~EventCommutesWith(q, p)
      BY <1>1, <1>4, <1>5, <2>2, GlobalCommutesWithNothing DEF Nodes
    <3> QED BY <1>0, <1>4, <1>5, <3>1 DEF ConflictsOrdered
  <2> QED BY <2>1, <2>2
<1>8. Path(n, SinkOf(block))
  <2>1. CASE n = SinkOf(block)
    BY <2>1, ReachRefl DEF Path
  <2>2. CASE n # SinkOf(block)
    <3>1. p.node < r.node /\ ~EventCommutesWith(p, r)
      BY <1>1, <1>4, <1>6, <2>2, GlobalCommutesWithNothing DEF Nodes
    <3> QED BY <1>0, <1>4, <1>6, <3>1 DEF ConflictsOrdered
  <2> QED BY <2>1, <2>2
<1> QED BY <1>7, <1>8

\* The finished graph has every statement on a path from source to sink.
THEOREM GraphConnected == Spec => []Connected
<1>1. BuilderInv => Connected
  BY ConnectedFromInv
<1> QED BY <1>1, BuilderInvariant, PTL

-----------------------------------------------------------------------------
(* The precision of the graph.                                             *)

\* Two references to one object that may be the same element are the same element, so what
\* may alias one may alias the other.
LEMMA AliasTrans ==
  ASSUME NEW r \in References, NEW s \in References, NEW t \in References,
         ~IsProvablyDistinctFrom(r, s), ~IsProvablyDistinctFrom(s, t)
  PROVE  ~IsProvablyDistinctFrom(r, t) /\ ReferenceIsShadowedBy(r, s)
<1>1. /\ r.target # Null /\ s.target # Null /\ t.target # Null
      /\ r.indices \in Seq(Nat) /\ s.indices \in Seq(Nat) /\ t.indices \in Seq(Nat)
  BY ReferencesAssumption
<1>2. /\ r.target = s.target /\ s.target = t.target /\ r.type = s.type /\ s.type = t.type
      /\ \A dim \in 1 .. Len(r.indices) : r.indices[dim] = s.indices[dim]
      /\ \A dim \in 1 .. Len(s.indices) : s.indices[dim] = t.indices[dim]
  BY <1>1 DEF IsProvablyDistinctFrom, IsGlobalState
<1>3. Len(r.indices) = Len(s.indices) /\ Len(s.indices) = Len(t.indices) /\ Len(r.indices) \in Nat
  BY <1>1, <1>2, ReferencesAssumption, LenProperties
<1> QED BY <1>1, <1>2, <1>3 DEF IsProvablyDistinctFrom, ReferenceIsShadowedBy, IsGlobalState

\* An event is shadowed by what it conflicts with, unless it is a write of the global state.
LEMMA ConflictShadows ==
  ASSUME NEW e, NEW f, WellFormed(e), WellFormed(f), ~EventCommutesWith(e, f)
  PROVE  IsGlobalState(e.reference) \/ EventIsShadowedBy(e, f)
<1>1. ~ModeCommutesWith(e.mode, f.mode) /\ ~IsProvablyDistinctFrom(e.reference, f.reference)
  BY DEF EventCommutesWith
<1>2. CASE IsGlobalState(f.reference)
  BY <1>1, <1>2 DEF EventIsShadowedBy, ReferenceIsShadowedBy
<1>3. CASE ~IsGlobalState(e.reference) /\ ~IsGlobalState(f.reference)
  <2>1. e.reference \in References /\ f.reference \in References
    BY <1>3, RefShape DEF WellFormed
  <2>2. ~IsProvablyDistinctFrom(f.reference, e.reference)
    BY <1>1, DistinctSym DEF WellFormed
  <2> QED BY <1>1, <2>1, <2>2, AliasTrans DEF EventIsShadowedBy
<1> QED BY <1>2, <1>3

\* What an incoming event finds in non_commuting and could touch itself conflicts with it,
\* or with another event of its statement.
LEMMA SourceConflicts ==
  ASSUME BuilderInv, Outdated, NEW e \in pending, ProcessEvent(e),
         NEW s \in EdgeSources(Pair(e, current))
  PROVE  /\ s \in Processed /\ s.node < current
         /\ \E q \in Processed \cup {Pair(e, current)} :
              q.node = current /\ ~EventCommutesWith(s, q)
<1> DEFINE in == Pair(e, current)
<1>0. TypeOK /\ EntriesProcessed
  BY DEF BuilderInv
<1>1. WellFormed(in) /\ in.node = current /\ current \in Int
  BY EventEffect
<1>2. s \in AfterEviction(in)
  BY DEF EdgeSources, MayAlias, GlobalWrites
<1>3. s \in Processed /\ s.node < current /\ WellFormed(s)
  <2>1. s \in nonCommuting \/ s \in Evicted(in)
    BY <1>2 DEF AfterEviction
  <2>2. CASE s \in nonCommuting
    BY <1>0, <2>2, ProcessedFacts DEF EntriesProcessed
  <2>3. CASE s \in Evicted(in)
    <3>1. s \in commuting /\ s.node # in.node
      BY <2>3 DEF Evicted, CommutesWith
    <3>2. s \in Processed
      BY <1>0, <3>1 DEF EntriesProcessed
    <3>3. WellFormed(s) /\ s.node \in Int /\ s.node <= current
      BY <1>0, <3>2, ProcessedFacts
    <3> QED BY <1>1, <3>1, <3>2, <3>3
  <2> QED BY <2>1, <2>2, <2>3
<1> HIDE DEF in
<1>4. CASE ~EventCommutesWith(s, in)
  BY <1>1, <1>3, <1>4 DEF in
<1>5. CASE EventCommutesWith(s, in)
  <2>1. ~IsGlobalState(s.reference)
    BY <1>1, <1>3, <1>5, GlobalCommutesWithNothing
  <2>2. s \in MayAlias(in)
    BY <2>1 DEF EdgeSources, GlobalWrites, in
  <2>3. ~IsProvablyDistinctFrom(s.reference, in.reference)
    BY <2>2 DEF MayAlias
  <2>4. ModeCommutesWith(s.mode, in.mode)
    BY <1>5, <2>3 DEF EventCommutesWith
  <2>5. s \in nonCommuting
    BY <1>2, <1>5 DEF AfterEviction, Evicted, CommutesWith
  <2>6. PICK c \in commuting : s.node < c.node /\ ~EventCommutesWith(s, c)
    BY <2>5 DEF Outdated
  <2>7. WellFormed(c) /\ c \in Processed /\ c.node \in Int
    BY <1>0, <2>6, ProcessedFacts DEF EntriesProcessed
  <2>8. EventIsShadowedBy(s, c)
    BY <1>3, <2>1, <2>6, <2>7, ConflictShadows
  <2>9. c \notin Evicted(in)
    BY <1>2, <1>5, <2>8 DEF AfterEviction, Evicted, CommutesWith
  <2>10. CommutesWith(c, in)
    BY <2>6, <2>9 DEF Evicted
  <2>11. ~EventCommutesWith(c, in)
    <3>1. CASE IsGlobalState(c.reference)
      BY <2>7, <3>1, GlobalCommutesWithNothing
    <3>2. CASE ~IsGlobalState(c.reference)
      <4>1. s.reference \in References /\ c.reference \in References
        BY <1>3, <2>1, <2>7, <3>2, RefShape DEF WellFormed
      <4>2. ~IsGlobalState(in.reference)
        BY <1>1, <1>3, <1>5, GlobalCommutesWithNothing
      <4>3. in.reference \in References
        BY <1>1, <4>2, RefShape DEF WellFormed
      <4>4. ~IsProvablyDistinctFrom(c.reference, s.reference)
        BY <2>6, <2>7, <1>3, DistinctSym DEF EventCommutesWith, WellFormed
      <4>5. ~IsProvablyDistinctFrom(c.reference, in.reference)
        BY <2>3, <4>1, <4>3, <4>4, AliasTrans
      <4>6. ~ModeCommutesWith(c.mode, in.mode)
        BY <2>4, <2>6 DEF EventCommutesWith, ModeCommutesWith
      <4> QED BY <4>5, <4>6 DEF EventCommutesWith
    <3> QED BY <3>1, <3>2
  <2>12. c.node = current
    BY <1>1, <2>10, <2>11 DEF CommutesWith
  <2> QED BY <1>3, <2>6, <2>7, <2>12
<1> QED BY <1>3, <1>4, <1>5

\* process_event() keeps the entries outdated, and adds an edge only for a conflict.
LEMMA EventPrecise ==
  ASSUME BuilderInv, PrecisionInv, NEW e \in pending, ProcessEvent(e)
  PROVE  PrecisionInv'
<1> DEFINE in  == Pair(e, current)
           src == EdgeSources(in)
<1>0. TypeOK /\ EntriesProcessed /\ Outdated /\ EdgesConflict /\ EdgeWeights /\ EdgesForward
  BY DEF BuilderInv, PrecisionInv
<1>1. /\ block' = block /\ options' = options /\ current' = current
      /\ commuting' = (commuting \ Evicted(in)) \cup {in}
      /\ nonCommuting' = AfterEviction(in)
      /\ weight' = AddEdges(src, current)
  BY DEF ProcessEvent
<1>2. /\ WellFormed(in) /\ in.node = current /\ current \in Int /\ current \in 0 .. SinkOf(block)
      /\ Processed' = Processed \cup {in}
  BY EventEffect
<1>3. \A s \in src : /\ s \in Processed /\ s.node < current
                     /\ \E q \in Processed' : q.node = current /\ ~EventCommutesWith(s, q)
  BY <1>0, <1>2, SourceConflicts
<1> HIDE DEF in, src
<1>4. Outdated'
  <2> SUFFICES ASSUME NEW s \in AfterEviction(in)
               PROVE  \E c \in (commuting \ Evicted(in)) \cup {in} :
                        s.node < c.node /\ ~EventCommutesWith(s, c)
    BY <1>1 DEF Outdated
  <2>1. CASE s \in Evicted(in)
    <3>1. s \in Processed /\ s.node # current /\ ~EventCommutesWith(s, in)
      BY <1>0, <1>2, <2>1 DEF Evicted, CommutesWith, EntriesProcessed
    <3> QED BY <1>0, <1>2, <3>1, ProcessedFacts
  <2>2. CASE s \notin Evicted(in)
    <3>1. s \in nonCommuting /\ \A c \in Evicted(in) : ~EventIsShadowedBy(s, c)
      BY <2>2 DEF AfterEviction
    <3>2. s \in Processed /\ s.node < current /\ WellFormed(s)
      BY <1>0, <3>1, ProcessedFacts DEF EntriesProcessed
    <3>3. PICK c \in commuting : s.node < c.node /\ ~EventCommutesWith(s, c)
      BY <1>0, <3>1 DEF Outdated
    <3>4. CASE c \notin Evicted(in)
      BY <3>3, <3>4
    <3>5. CASE c \in Evicted(in)
      <4>1. WellFormed(c)
        BY <1>0, <3>3, ProcessedFacts DEF EntriesProcessed
      <4>2. IsGlobalState(s.reference)
        BY <3>1, <3>2, <3>3, <3>5, <4>1, ConflictShadows
      <4> QED BY <1>2, <3>2, <4>2, GlobalCommutesWithNothing
    <3> QED BY <3>4, <3>5
  <2> QED BY <2>1, <2>2
<1>5. DOMAIN weight' = DOMAIN weight \cup {<<s.node, current>> : s \in src}
  BY <1>1 DEF AddEdges
<1>6. EdgesConflict'
  <2>1. ConflictEdges \subseteq ConflictEdges'
    BY <1>2 DEF ConflictEdges
  <2>2. ASSUME NEW s \in src PROVE <<s.node, current>> \in ConflictEdges'
    <3>1. PICK q \in Processed' : q.node = current /\ ~EventCommutesWith(s, q)
      BY <1>3
    <3>2. s \in Processed' /\ s.node < q.node
      BY <1>2, <1>3, <3>1
    <3> QED BY <3>1, <3>2 DEF ConflictEdges
  <2> QED BY <1>0, <1>5, <2>1, <2>2 DEF EdgesConflict
<1>7. EdgeWeights'
  <2>1. \A n : Duration(n)' = Duration(n)
    BY <1>1 DEF Duration, StatementAt
  <2>2. \A n \in Nodes : Duration(n) \in Nat
    BY <1>0, DurationNat
  <2>3. ASSUME NEW d \in DOMAIN weight' PROVE weight'[d] = Duration(d[1])
    <3> DEFINE new == {<<s.node, current>> : s \in src}
    <3>1. weight'[d] = IF d \in new
                        THEN Max2(IF d \in DOMAIN weight THEN weight[d] ELSE 0, Duration(d[1]))
                        ELSE weight[d]
      BY <1>1 DEF AddEdges
    <3>2. d \in new => d[1] \in Nodes
      BY <1>0, <1>3, ProcessedFacts
    <3>3. d \in DOMAIN weight => weight[d] = Duration(d[1])
      BY <1>0 DEF EdgeWeights
    <3>4. d \in new \/ d \in DOMAIN weight
      BY <1>5
    <3> HIDE DEF new
    <3>5. CASE d \in new
      <4>1. Duration(d[1]) \in Nat
        BY <2>2, <3>2, <3>5
      <4> QED BY <3>1, <3>3, <3>5, <4>1 DEF Max2
    <3>6. CASE d \notin new
      BY <3>1, <3>3, <3>4, <3>6
    <3> QED BY <3>5, <3>6
  <2> QED BY <2>1, <2>3 DEF EdgeWeights
<1> QED BY <1>4, <1>6, <1>7 DEF PrecisionInv

\* No step of the builder adds an edge without a conflict.
LEMMA PrecisionStep ==
  ASSUME BuilderInv, PrecisionInv, [Next]_builderVars
  PROVE  PrecisionInv'
<1>1. CASE \E e \in pending : ProcessEvent(e)
  BY <1>1, EventPrecise
<1>2. CASE ProcessStatement
  <2>1. /\ commuting' = commuting /\ nonCommuting' = nonCommuting /\ weight' = weight
    BY <1>2 DEF ProcessStatement
  <2>2. Processed' = Processed /\ \A n : Duration(n)' = Duration(n)
    BY <1>2, StatementEffect
  <2> QED BY <2>1, <2>2 DEF PrecisionInv, Outdated, EdgesConflict, ConflictEdges, EdgeWeights
<1>3. CASE UNCHANGED builderVars
  <2>1. /\ block' = block /\ options' = options /\ current' = current /\ pending' = pending
        /\ commuting' = commuting /\ nonCommuting' = nonCommuting /\ weight' = weight
    BY <1>3 DEF builderVars
  <2>2. \A n : EventsDone(n)' = EventsDone(n) /\ Duration(n)' = Duration(n)
    BY <2>1 DEF EventsDone, EventsAt, StatementAt, Duration
  <2>3. Processed' = Processed
    BY <2>1, <2>2 DEF Processed
  <2> QED BY <2>1, <2>2, <2>3 DEF PrecisionInv, Outdated, EdgesConflict, ConflictEdges, EdgeWeights
<1> QED BY <1>1, <1>2, <1>3 DEF Next

\* There are no entries and no edges at first.
LEMMA InitPrecise == Init => PrecisionInv
<1> SUFFICES ASSUME Init PROVE PrecisionInv
  OBVIOUS
<1>1. nonCommuting = {} /\ DOMAIN weight = {}
  BY DEF Init
<1> QED BY <1>1 DEF PrecisionInv, Outdated, EdgesConflict, EdgeWeights

\* The invariant behind the precision of the graph, with the weights of its edges.
THEOREM PrecisionInvariant == Spec => [](BuilderInv /\ PrecisionInv)
<1>1. Init => BuilderInv /\ PrecisionInv
  BY InitInv, InitPrecise
<1>2. (BuilderInv /\ PrecisionInv) /\ [Next]_builderVars => (BuilderInv /\ PrecisionInv)'
  BY BuilderStep, PrecisionStep
<1> QED BY <1>1, <1>2, PTL DEF Spec

\* The graph orders two statements only if a chain of conflicting statements leads from
\* the one to the other.
THEOREM Precision == Spec => []OnlyConflictsOrdered
<1>1. PrecisionInv => OnlyConflictsOrdered
  <2> SUFFICES ASSUME PrecisionInv, NEW e \in DOMAIN weight
               PROVE  Reaches(Nodes, ConflictEdges, e[1], e[2])
    BY DEF OnlyConflictsOrdered
  <2>1. e \in ConflictEdges
    BY DEF PrecisionInv, EdgesConflict
  <2>2. e = <<e[1], e[2]>>
    BY <2>1 DEF ConflictEdges
  <2> QED BY <2>1, <2>2, ReachEdge
<1> QED BY <1>1, PrecisionInvariant, PTL


-----------------------------------------------------------------------------
(* What a caller gets.                                                     *)

Conflicting(m, n) == \E e \in EventsAt(m), f \in EventsAt(n) : ~EventCommutesWith(e, f)

\* An edge between processed events is a conflict between their statements.
LEMMA ConflictingEnds ==
  ASSUME NEW e \in ConflictEdges
  PROVE  Conflicting(e[1], e[2])
<1>1. PICK p \in Processed, q \in Processed :
        e = <<p.node, q.node>> /\ ~EventCommutesWith(p, q)
  BY DEF ConflictEdges
<1>2. ASSUME NEW x \in Processed
      PROVE  \E f \in EventsAt(x.node) : f.reference = x.reference /\ f.mode = x.mode
  <2>1. PICK n \in 0 .. current : x \in {Pair(f, n) : f \in EventsDone(n)}
    BY DEF Processed
  <2>2. PICK f \in EventsAt(n) : x = Pair(f, n)
    BY <2>1 DEF EventsDone
  <2> QED BY <2>2 DEF Pair
<1>3. PICK f \in EventsAt(p.node) : f.reference = p.reference /\ f.mode = p.mode
  BY <1>2
<1>4. PICK g \in EventsAt(q.node) : g.reference = q.reference /\ g.mode = q.mode
  BY <1>2
<1>5. ~EventCommutesWith(f, g)
  BY <1>1, <1>3, <1>4 DEF EventCommutesWith
<1> QED BY <1>1, <1>3, <1>4, <1>5 DEF Conflicting

LEMMA SentinelWrites ==
  ASSUME TypeOK, NEW k, StatementAt(k) = Sentinel
  PROVE  \A e \in EventsAt(k) : e.reference = GlobalState
<1>1. AddStatement(Sentinel, options) = {Event(GlobalState, "write")}
  BY SentinelEvents DEF TypeOK, Options
<1> QED BY <1>1 DEF EventsAt, EventsOf, Event

\* The finished graph: edges go forward, join conflicting statements and weigh what the
\* earlier one takes; conflicting statements are connected, and the source conflicts with all.
LEMMA BuiltGraph ==
  ASSUME BuilderInv, PrecisionInv, BuildDone
  PROVE  /\ Len(block) \in Nat /\ DOMAIN block = 1 .. Len(block)
         /\ \A n \in Nodes : Duration(n) \in Nat
         /\ weight \in [DOMAIN weight -> Nat]
         /\ Duration(0) = 0 /\ \A n \in DOMAIN block : Duration(n) = block[n].duration
         /\ \A e \in DOMAIN weight : /\ e \in Nodes \X Nodes /\ e[1] < e[2]
                                     /\ weight[e] = Duration(e[1])
                                     /\ Conflicting(e[1], e[2])
         /\ \A m, n \in Nodes : m < n /\ Conflicting(m, n) => Path(m, n)
         /\ \A n \in Nodes : Path(0, n) /\ Path(n, SinkOf(block))
         /\ \A n \in Nodes \ {0} : Conflicting(0, n)
<1>0. /\ TypeOK /\ ConflictsOrdered /\ EdgesForward /\ EdgesConflict /\ EdgeWeights
      /\ current = SinkOf(block) /\ pending = {}
  BY DEF BuilderInv, BuildDone, PrecisionInv
<1>1. Len(block) \in Nat /\ DOMAIN block = 1 .. Len(block) /\ SinkOf(block) = Len(block) + 1
  <2>1. PICK m \in 0 .. MaxStatements : block \in [1 .. m -> Statements]
    BY <1>0 DEF TypeOK, Blocks
  <2>2. m \in Nat /\ Len(block) = m
    BY <2>1, StatementsAssumption DEF WellFormedStatements
  <2> QED BY <2>1, <2>2 DEF SinkOf
<1>2. \A n \in Nodes : Duration(n) \in Nat
  BY <1>0, DurationNat
<1>3. /\ Duration(0) = 0 /\ \A n \in DOMAIN block : Duration(n) = block[n].duration
      /\ weight \in [DOMAIN weight -> Nat]
  BY <1>0, <1>1 DEF Duration, StatementAt, Sentinel, TypeOK
<1>4. ASSUME NEW e \in DOMAIN weight
      PROVE  /\ e \in Nodes \X Nodes /\ e[1] < e[2] /\ weight[e] = Duration(e[1])
             /\ Conflicting(e[1], e[2])
  BY <1>0, ConflictingEnds DEF TypeOK, EdgesForward, EdgeWeights, EdgesConflict
<1>5. ASSUME NEW m \in Nodes, NEW e \in EventsAt(m)
      PROVE  Pair(e, m) \in Processed /\ Pair(e, m).node = m
  <2>1. e \in EventsDone(m) /\ m \in 0 .. current
    BY <1>0 DEF EventsDone, Nodes
  <2> QED BY <2>1 DEF Processed, Pair
<1>6. ASSUME NEW m \in Nodes, NEW n \in Nodes, m < n, Conflicting(m, n) PROVE Path(m, n)
  <2>1. PICK e \in EventsAt(m), f \in EventsAt(n) : ~EventCommutesWith(e, f)
    BY <1>6 DEF Conflicting
  <2>2. ~EventCommutesWith(Pair(e, m), Pair(f, n))
    BY <2>1 DEF EventCommutesWith, Pair
  <2> QED BY <1>0, <1>5, <1>6, <2>2 DEF ConflictsOrdered
<1>7. \A n \in Nodes : Path(0, n) /\ Path(n, SinkOf(block))
  BY ConnectedFromInv DEF Connected
<1>8. StatementAt(0) = Sentinel /\ options \in Options /\ 0 \in Nodes
  BY <1>0, <1>1 DEF Nodes, TypeOK, Options, StatementAt
<1>9. \A e \in EventsAt(0) : e.reference = GlobalState
  BY <1>0, <1>8, SentinelWrites
<1>10. ASSUME NEW n \in Nodes \ {0} PROVE Conflicting(0, n)
  <2>1. PICK e \in EventsAt(0), f \in EventsAt(n) : WellFormed(e)
    BY <1>0, <1>8, EventsAtFacts
  <2>2. ~EventCommutesWith(e, f)
    BY <1>9, <2>1, GlobalCommutesWithNothing DEF IsGlobalState, GlobalState
  <2> QED BY <2>1, <2>2 DEF Conflicting
<1> QED BY <1>1, <1>2, <1>3, <1>4, <1>6, <1>7, <1>10

=============================================================================
