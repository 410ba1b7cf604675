-------------------------------- MODULE S57Lines --------------------------------
(***************************************************************************)
(* S57::buildGeometries: the line elements of an object, in the order of   *)
(* its record, are put together to line strings by the nodes they connect, *)
(* and each line string is drawn with the positions of its nodes and edges.*)
(* A node or edge that the chart's tables do not hold is left out.         *)
(***************************************************************************)
EXTENDS Naturals, Sequences, SequencesExt

CONSTANTS
  Node,         \* indices of connected nodes
  Edge,         \* indices of vector edges
  NoEdge,       \* edge index 0: the nodes are connected directly
  Position,     \* positions
  EdgePoints,   \* the positions of each edge
  Element,      \* the line elements an object may have
  MaxElements   \* bound: line elements of an object

LineElement == [startConnectedNode : Node, edgeVector : Edge \cup {NoEdge},
                endConnectedNode : Node, direction : {"Forward", "Reverse"}]

ASSUME LinesConstants ==
  /\ NoEdge \notin Edge
  /\ EdgePoints \in [Edge -> Seq(Position)]
  /\ Element \subseteq LineElement
  /\ MaxElements \in Nat

VARIABLES
  elements,        \* the line elements looked at so far
  lineStrings,     \* the line strings they have been put together to
  geometries,      \* the line strings drawn so far
  vectorEdges,     \* the edges the chart has
  connectedNodes   \* the nodes the chart has

vars == <<elements, lineStrings, geometries, vectorEdges, connectedNodes>>

Init ==
  /\ elements = << >> /\ lineStrings = << >> /\ geometries = << >>
  /\ vectorEdges \in SUBSET Edge
  /\ connectedNodes \in SUBSET Node

-----------------------------------------------------------------------------
\* The two ways an element fits a line string.
Continues(string, e) ==
  e.startConnectedNode = string[Len(string)].endConnectedNode
LeadsInto(string, e) ==
  e.endConnectedNode = string[1].startConnectedNode

\* Mutants: only the front is looked at; the wrong element of the string is.
FitsFront(string, e) == LeadsInto(string, e)
FitsLast(string, e) ==
  \/ Continues(string, e)
  \/ e.endConnectedNode = string[Len(string)].startConnectedNode
Fits(string, e) == Continues(string, e) \/ LeadsInto(string, e)

\* Mutants of Join: a new string without the element; no new string beside
\* the first; an element that leads into a string is put at its front.
JoinOrDrop(strings, e) ==
  IF strings = << >> THEN <<<<e>>>>
  ELSE [i \in 1..Len(strings) |->
          IF Fits(strings[i], e) THEN Append(strings[i], e) ELSE strings[i]]
JoinAtFront(strings, e) ==
  IF \E i \in 1..Len(strings) : Fits(strings[i], e)
  THEN [i \in 1..Len(strings) |->
          IF LeadsInto(strings[i], e) THEN <<e>> \o strings[i]
          ELSE IF Continues(strings[i], e) THEN Append(strings[i], e)
          ELSE strings[i]]
  ELSE Append(strings, <<e>>)

\* It goes to the end of every line string it fits, and otherwise starts one.
Join(strings, e) ==
  IF \E i \in 1..Len(strings) : Fits(strings[i], e)
  THEN [i \in 1..Len(strings) |->
          IF Fits(strings[i], e) THEN Append(strings[i], e) ELSE strings[i]]
  ELSE Append(strings, <<e>>)

JoinElement(e) ==
  /\ geometries = << >>
  /\ Len(elements) < MaxElements
  /\ elements' = Append(elements, e)
  /\ lineStrings' = Join(lineStrings, e)
  /\ UNCHANGED <<geometries, vectorEdges, connectedNodes>>

-----------------------------------------------------------------------------
NodePosition(n, nodes) == IF n \in nodes THEN <<n>> ELSE << >>
EdgeAsStored(e, edges) ==   \* mutant: the direction is not looked at
  IF e.edgeVector \notin edges THEN << >> ELSE EdgePoints[e.edgeVector]
EdgePositions(e, edges) ==
  IF e.edgeVector \notin edges THEN << >>
  ELSE IF e.direction = "Reverse" THEN Reverse(EdgePoints[e.edgeVector])
  ELSE EdgePoints[e.edgeVector]

Geometry(string, edges, nodes) ==
  FlattenSeq([k \in 1..Len(string) |->
                NodePosition(string[k].startConnectedNode, nodes)
                  \o EdgePositions(string[k], edges)])
    \o NodePosition(string[Len(string)].endConnectedNode, nodes)

DrawLineString ==
  /\ Len(geometries) < Len(lineStrings)
  /\ geometries' = Append(geometries,
       Geometry(lineStrings[Len(geometries) + 1], vectorEdges, connectedNodes))
  /\ UNCHANGED <<elements, lineStrings, vectorEdges, connectedNodes>>

Next == (\E e \in Element : JoinElement(e)) \/ DrawLineString

Spec == Init /\ [][Next]_vars

-----------------------------------------------------------------------------
\* A sequence of elements in which each starts where the one before ended.
Chained(string) ==
  \A k \in 2..Len(string) :
    string[k].startConnectedNode = string[k - 1].endConnectedNode

\* Line strings are made of line elements, none of them is empty, and each
\* drawn one is a sequence of positions the chart's tables hold.
LinesTypeOK ==
  /\ elements \in Seq(Element)
  /\ lineStrings \in Seq(Seq(Element) \ {<< >>})
  /\ Len(geometries) <= Len(lineStrings)
  /\ geometries \in Seq(Seq(Position \cup Node))
  /\ vectorEdges \subseteq Edge
  /\ connectedNodes \subseteq Node

\* Elements that come in order make one line, also where it crosses itself or
\* closes to a ring and goes on (chartfile_test.cpp, buildGeometryBasic).
ChainIsOneLine ==
  elements # << >> /\ Chained(elements) => lineStrings = <<elements>>

\* No element of the object is lost, and none is invented.
ElementsKept ==
  {elements[i] : i \in 1..Len(elements)} =
    UNION {{lineStrings[i][k] : k \in 1..Len(lineStrings[i])} :
             i \in 1..Len(lineStrings)}

\* The runs of elements in order, such as the rings of an area: each begins
\* with the first element or with one that does not continue the one before.
Begins ==
  {k \in 1..Len(elements) : k = 1 \/ ~Chained(<<elements[k - 1], elements[k]>>)}
Begin(i) == CHOOSE b \in Begins : Cardinality({c \in Begins : c <= b}) = i
Runs ==
  LET n == Cardinality(Begins)
  IN [i \in 1..n |->
        SubSeq(elements, Begin(i), IF i = n THEN Len(elements) ELSE Begin(i + 1) - 1)]
NodesOf(string) ==
  {string[k].startConnectedNode : k \in 1..Len(string)} \cup
  {string[k].endConnectedNode : k \in 1..Len(string)}

\* Rings that share no node become lines of their own, in their order.
RunsStayApart ==
  elements # << >> /\ (\A i, j \in 1..Len(Runs) :
                         NodesOf(Runs[i]) \cap NodesOf(Runs[j]) # {} => i = j)
    => lineStrings = Runs

\* Where no two elements start at, or end at, the same node, an element is
\* drawn more than once only if it connects the end of one line with the
\* start of another; those two stay two lines.
SimplePaths ==
  \A i, j \in 1..Len(elements) : i # j =>
    /\ elements[i].startConnectedNode # elements[j].startConnectedNode
    /\ elements[i].endConnectedNode # elements[j].endConnectedNode
DrawnTwiceOnlyIfBridging ==
  SimplePaths => \A i, j \in 1..Len(lineStrings) :
    \A k \in 1..Len(lineStrings[i]), l \in 1..Len(lineStrings[j]) :
      i < j /\ lineStrings[i][k] = lineStrings[j][l] =>
        \/ LeadsInto(lineStrings[i], lineStrings[i][k])
        \/ LeadsInto(lineStrings[j], lineStrings[i][k])

\* A line drawn from its other end passes the same positions backwards:
\* nodes, edges and directions agree.
Mirror(string) ==
  [k \in 1..Len(string) |->
     LET e == string[Len(string) + 1 - k]
     IN [startConnectedNode |-> e.endConnectedNode,
         endConnectedNode |-> e.startConnectedNode,
         edgeVector |-> e.edgeVector,
         direction |-> IF e.direction = "Forward" THEN "Reverse" ELSE "Forward"]]
DrawnBackwards ==
  \A i \in 1..Len(geometries) : Chained(lineStrings[i]) =>
    Geometry(Mirror(lineStrings[i]), vectorEdges, connectedNodes)
      = Reverse(geometries[i])
=============================================================================
