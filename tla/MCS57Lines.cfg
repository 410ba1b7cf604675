SPECIFICATION BoundedSpec
CONSTANTS
  Node = {n1, n2, n3, n4}
  Edge = {e1}
  NoEdge = NoEdge
  Position <- Ends
  EdgePoints <- TwoPoints
  Element <- LineElement
  MaxElements = 4
SYMMETRY Symmetry
\* The geometries are done.
CHECK_DEADLOCK FALSE
INVARIANTS
  ChainIsOneLine
  ElementsKept
  RunsStayApart
  DrawnTwiceOnlyIfBridging
  DrawnBackwards
