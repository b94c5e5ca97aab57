----------------------------- MODULE DdgBuilder -----------------------------
(***************************************************************************)
(* com/ddg/build.cc: class Builder, which turns a block of statements into *)
(* a data dependency graph in one forward pass over their events.          *)
(*                                                                         *)
(* One step is one call of process_statement() up to its event loop        *)
(* (ProcessStatement) or one call of process_event() (ProcessEvent).  The  *)
(* events of a statement are the entries of a map ordered by object        *)
(* address: any order is possible, except that a reference precedes those  *)
(* it shadows (Reference::operator< sorts null and shorter index lists     *)
(* first).                                                                 *)
(***************************************************************************)
EXTENDS Ddg

CONSTANTS Statements,      \* the statements a block is made of
          MaxStatements    \* bound on the length of a block

WellFormedStatements ==
  /\ MaxStatements \in Nat
  /\ \A s \in Statements :
       /\ s.kind \in StatementKinds \ {"sentinel"}
       /\ s.duration \in Nat
       /\ \A opts \in [multi : BOOLEAN, single : BOOLEAN] :
            \A e \in AddStatement(s, opts) :
              /\ e.reference \in References \cup {GlobalState}
              /\ e.mode \in AccessModes
              /\ e.reference = GlobalState => e.mode = "write"
              /\ e = Event(e.reference, e.mode)

ASSUME StatementsAssumption == WellFormedStatements

VARIABLES block,          \* the statements, in program order
          options,        \* commute_multi_qubit and commute_single_qubit
          current,        \* order_accumulator - 1: the node being processed, -1 before the first
          pending,        \* events of the current statement still to be processed
          commuting,      \* events that commute with each other, each with its node
          nonCommuting,   \* events in the past of something in commuting
          weight,         \* the edges made so far and their weights
          failed          \* an assertion or internal compiler error was raised

builderVars == <<block, options, current, pending, commuting, nonCommuting, weight, failed>>

Blocks == UNION {[1 .. n -> Statements] : n \in 0 .. MaxStatements}

SinkOf(b) == Len(b) + 1
Nodes == 0 .. SinkOf(block)

StatementAt(n) == IF n \in 1 .. Len(block) THEN block[n] ELSE Sentinel

EventsAt(n) == EventsOf(StatementAt(n), options)

Duration(n) == StatementAt(n).duration

Pair(e, n) == [reference |-> e.reference, mode |-> e.mode, node |-> n]

\* Mutant: events of one statement are compared like any others.
CommutesAcrossOnly(p, q) == EventCommutesWith(p, q)

\* Two events of one statement always commute.
CommutesWith(p, q) == p.node = q.node \/ EventCommutesWith(p, q)

-----------------------------------------------------------------------------

TypeOK ==
  /\ block \in Blocks
  /\ options \in [multi : BOOLEAN, single : BOOLEAN]
  /\ current \in -1 .. SinkOf(block)
  /\ pending \subseteq (IF current = -1 THEN {} ELSE EventsAt(current))
  /\ commuting \subseteq UNION {{Pair(e, n) : e \in EventsAt(n)} : n \in Nodes}
  /\ nonCommuting \subseteq UNION {{Pair(e, n) : e \in EventsAt(n)} : n \in Nodes}
  /\ DOMAIN weight \subseteq Nodes \X Nodes
  /\ weight \in [DOMAIN weight -> Nat]
  /\ failed \in BOOLEAN

Init ==
  /\ block \in Blocks
  /\ options \in [multi : BOOLEAN, single : BOOLEAN]
  /\ current = -1
  /\ pending = {}
  /\ commuting = {}
  /\ nonCommuting = {}
  /\ weight = [e \in {} |-> 0]
  /\ failed = FALSE

ProcessStatement ==
  /\ pending = {} /\ ~failed
  /\ current < SinkOf(block)
  /\ current' = current + 1
  /\ pending' = EventsAt(current + 1)
  /\ UNCHANGED <<block, options, commuting, nonCommuting, weight, failed>>

\* Mutant: only evict what the incoming event shadows.
EvictShadowed(incoming) == {c \in commuting : EventIsShadowedBy(c, incoming)}

\* What an incoming pair evicts from commuting, and non_commuting once the evicted
\* pairs have pruned what they shadow and joined it.
Evicted(incoming) == {c \in commuting : ~CommutesWith(c, incoming)}

\* Mutant: what is evicted is dropped instead of moved.
EvictedDropped(incoming) ==
  {n \in nonCommuting : \A c \in Evicted(incoming) : ~EventIsShadowedBy(n, c)}

AfterEviction(incoming) ==
  {n \in nonCommuting : \A c \in Evicted(incoming) : ~EventIsShadowedBy(n, c)}
    \cup Evicted(incoming)

\* Mutant: an edge from everything, related or not.
AnyEntry(incoming) == {n \in AfterEviction(incoming) : ~IsGlobalState(n.reference)}

\* The pairs of non_commuting that get an edge to the incoming pair: those that may
\* touch the same object or, when there is none, the writes of the global state.
MayAlias(incoming) ==
  {n \in AfterEviction(incoming) :
     /\ ~IsGlobalState(n.reference)
     /\ ~IsProvablyDistinctFrom(n.reference, incoming.reference)}

GlobalWrites(incoming) == {n \in AfterEviction(incoming) : IsGlobalState(n.reference)}

\* Mutant: the writes of the global state are forgotten.
AliasesOnly(incoming) == MayAlias(incoming)

EdgeSources(incoming) ==
  IF MayAlias(incoming) # {} THEN MayAlias(incoming) ELSE GlobalWrites(incoming)

Max2(a, b) == IF a >= b THEN a ELSE b

\* add_edge() for every source: a new edge starts at weight 0 and every cause raises
\* it to the duration of the statement it comes from.
AddEdges(sources, to) ==
  LET new == {<<s.node, to>> : s \in sources}
  IN [e \in DOMAIN weight \cup new |->
        IF e \in new
          THEN Max2(IF e \in DOMAIN weight THEN weight[e] ELSE 0, Duration(e[1]))
          ELSE weight[e]]

ProcessEvent(e) ==
  LET incoming == Pair(e, current)
      sources  == EdgeSources(incoming)
      assert   == \A s \in sources : s.node # current
      ice      == \E s \in sources : IsGlobalState(s.reference) /\ CommutesWith(s, incoming)
  IN /\ e \in pending /\ ~failed
     /\ \A f \in pending : f # e => ~ReferenceIsShadowedBy(e.reference, f.reference)
     /\ nonCommuting' = AfterEviction(incoming)
     /\ commuting' = (commuting \ Evicted(incoming)) \cup {incoming}
     /\ weight' = AddEdges(sources, current)
     /\ pending' = pending \ {e}
     /\ failed' = (~assert \/ ice)
     /\ UNCHANGED <<block, options, current>>

Next ==
  \/ ProcessStatement
  \/ \E e \in pending : ProcessEvent(e)

Spec == Init /\ [][Next]_builderVars

-----------------------------------------------------------------------------
(* Properties.                                                             *)

BuildDone == current = SinkOf(block) /\ pending = {}

\* The events that have been through process_event().
EventsDone(n) == EventsAt(n) \ (IF n = current THEN pending ELSE {})

Processed == UNION {{Pair(e, n) : e \in EventsDone(n)} : n \in 0 .. current}

Path(a, b) == Reaches(Nodes, DOMAIN weight, a, b)

\* add_edge() never connects a node to itself, and no event ever commutes with a
\* write of the global state it would need an edge from.
NoInternalError == ~failed

\* Soundness: whenever two processed events of different statements do not commute,
\* the graph has a path from the earlier to the later, however many entries were
\* pruned in between and whichever edges the global-state shortcut left out.
ConflictsOrdered ==
  \A p, q \in Processed :
    p.node < q.node /\ ~EventCommutesWith(p, q) => Path(p.node, q.node)

\* Precision: a statement is ordered after another one only if some chain of
\* conflicting statements leads from the one to the other, so statements that commute
\* (or touch different objects) stay free to be swapped.
ConflictEdges ==
  UNION {{<<p.node, q.node>> :
            q \in {r \in Processed : p.node < r.node /\ ~EventCommutesWith(p, r)}} : p \in Processed}

OnlyConflictsOrdered ==
  BuildDone => LET conflicts == ConflictEdges
               IN \A e \in DOMAIN weight : Reaches(Nodes, conflicts, e[1], e[2])

\* check_consistency(): every statement lies on a path from the source to the sink.
Connected ==
  BuildDone => \A n \in Nodes : Path(0, n) /\ Path(n, SinkOf(block))

\* The events in commuting commute pairwise and with everything processed since:
\* pushing an event leaves nothing behind that it does not commute with.
CommutingAgree ==
  \A c \in commuting : \A p \in Processed : p.node >= c.node => CommutesWith(c, p)

-----------------------------------------------------------------------------
(* The inductive invariant behind ConflictsOrdered.                        *)

\* The two lists only hold processed events, non_commuting none of the current node.
EntriesProcessed ==
  /\ commuting \subseteq Processed
  /\ nonCommuting \subseteq {p \in Processed : p.node < current}

\* An event that was pruned is represented by an entry that refers to no less and
\* that the graph orders after it.
Covered ==
  \A p \in Processed :
    \/ p \in commuting
    \/ \E x \in nonCommuting :
         ReferenceIsShadowedBy(p.reference, x.reference) /\ Path(p.node, x.node)

\* What the shortcut around global writes relies on: every other entry already
\* comes after the global write.
GlobalWritesFirst ==
  \A g \in nonCommuting : IsGlobalState(g.reference) =>
    \A z \in nonCommuting \cup commuting : Path(g.node, z.node)

EdgesForward == \A e \in DOMAIN weight : e[1] < e[2] /\ e[2] <= current

BuilderInv ==
  /\ TypeOK
  /\ NoInternalError
  /\ EntriesProcessed
  /\ EdgesForward
  /\ CommutingAgree
  /\ ConflictsOrdered
  /\ Covered
  /\ GlobalWritesFirst

-----------------------------------------------------------------------------
(* The inductive invariant behind OnlyConflictsOrdered.                    *)

\* Every entry of non_commuting conflicts with a later one of commuting, so what
\* commutes with it again has first to evict that one, which prunes it.
Outdated ==
  \A s \in nonCommuting : \E c \in commuting : s.node < c.node /\ ~EventCommutesWith(s, c)

\* No chain is needed to justify an edge: its ends conflict.
EdgesConflict == DOMAIN weight \subseteq ConflictEdges

\* An edge weighs what the statement it comes from takes, whichever event made it.
EdgeWeights == \A e \in DOMAIN weight : weight[e] = Duration(e[1])

PrecisionInv == Outdated /\ EdgesConflict /\ EdgeWeights

=============================================================================
