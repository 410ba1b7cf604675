------------------------------- MODULE MCS57Lines -------------------------------
(***************************************************************************)
(* S57Lines for TLC: direct connections only where the lines are put       *)
(* together, which looks at nothing but the nodes; all elements and edges  *)
(* with two positions, so that their direction shows, where they are drawn.*)
(***************************************************************************)
EXTENDS S57Lines, TLC

Ends == Edge \X {1, 2}
TwoPoints == [e \in Edge |-> <<<<e, 1>>, <<e, 2>>>>]

Direct == [startConnectedNode : Node, edgeVector : {NoEdge},
           endConnectedNode : Node, direction : {"Forward"}]

Symmetry == Permutations(Node)

\* Many elements between nodes alone, or two of any kind over any tables.
Bounded ==
  \/ Len(elements) <= 2
  \/ vectorEdges = {} /\ \A i \in 1..Len(elements) : elements[i] \in Direct
BoundedSpec == Init /\ [][Next /\ Bounded']_vars
=============================================================================
