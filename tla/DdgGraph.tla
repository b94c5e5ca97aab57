------------------------------ MODULE DdgGraph ------------------------------
(***************************************************************************)
(* com/ddg: the shape of the data dependency graph, which the annotations  *)
(* Graph and Node on a block and its statements hold.  The builder makes   *)
(* the nodes 0 (the source sentinel), 1 .. n (the positions of the         *)
(* statements in the block) and n + 1 (the sink).  A graph is a record:    *)
(*   source, sink   two of the nodes                                       *)
(*   direction      1 as built, -1 reversed                                *)
(*   order          node -> its place in the program                       *)
(*   weight         edge -> cycles between the start of its two ends; its  *)
(*                  domain is the set of edges                             *)
(***************************************************************************)
EXTENDS Integers

Edges(g) == DOMAIN g.weight
Successors(g, n)   == {e[2] : e \in {x \in Edges(g) : x[1] = n}}
Predecessors(g, n) == {e[1] : e \in {x \in Edges(g) : x[2] = n}}

\* reverse(): source and sink, predecessors and successors change places; orders,
\* weights and the direction are negated.
Reverse(g) ==
  [source    |-> g.sink,
   sink      |-> g.source,
   direction |-> -g.direction,
   order     |-> [n \in DOMAIN g.order |-> -g.order[n]],
   weight    |-> [e \in {<<x[2], x[1]>> : x \in Edges(g)} |-> -g.weight[<<e[2], e[1]>>]]]

\* There is a path from a to b, or a = b: every set that contains a and is closed
\* under the edges contains b.
Reaches(nodes, edges, a, b) ==
  \A S \in SUBSET nodes : a \in S /\ (\A e \in edges : e[1] \in S => e[2] \in S) => b \in S

=============================================================================
