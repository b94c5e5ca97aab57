------------------------------ MODULE Schedule ------------------------------
(***************************************************************************)
(* What a scheduler promises: statements get their cycle one at a time, in *)
(* an order that moves away from cycle zero, never twice, and never before *)
(* (after, when the graph is reversed) what they depend on has finished.   *)
(***************************************************************************)
EXTENDS DdgGraph

VARIABLES problem,   \* the statements' data dependency graph, fixed
          start      \* the cycles assigned so far

Init == start = [n \in {} |-> 0]

\* a is no further than b in the direction of scheduling.
NotAfter(a, b) == problem.direction * a <= problem.direction * b

Place(n) ==
  /\ n \notin DOMAIN start
  /\ DOMAIN start' = DOMAIN start \cup {n}
  /\ \A m \in DOMAIN start : start'[m] = start[m] /\ NotAfter(start[m], start'[n])
  /\ \A p \in Predecessors(problem, n) :
       /\ p \in DOMAIN start
       /\ NotAfter(start[p] + problem.weight[<<p, n>>], start'[n])
  /\ UNCHANGED problem

Next == \E n \in DOMAIN problem.order : Place(n)

Spec == Init /\ [][Next]_<<problem, start>>
=============================================================================
