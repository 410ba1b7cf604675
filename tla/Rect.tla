---------------------------------- MODULE Rect ----------------------------------
(***************************************************************************)
(* Rect and Position: objects a program builds, copies, assigns and whose  *)
(* edges it moves, and what they say of each other.  Latitudes grow        *)
(* upwards, and the top edge comes first.  Coordinates are doubles; the    *)
(* setters take floats.  On the grid of the model every integer is a       *)
(* double and every other one a float.                                     *)
(***************************************************************************)
EXTENDS Integers

CONSTANTS
  Object,      \* Rect objects
  Coordinate,  \* the coordinates programs give
  MaxSteps     \* bound: operations on one object

Edges == {"top", "left", "bottom", "right"}

ASSUME RectConstants == Coordinate \subseteq Int /\ 0 \in Coordinate /\ MaxSteps \in Nat

VARIABLES
  rect,    \* m_topLeft, m_bottomRight and m_valid of each object
  given,   \* history: the edges that were asked for last
  origin,  \* history: whether its positions go back to any that were given
  copied,  \* history: whether its m_valid goes back to a copy
  steps    \* operations done

rectVars == <<rect, given, origin, copied, steps>>

Zero == [e \in Edges |-> 0]
Built(edges, ok) == [top |-> edges.top, left |-> edges.left, bottom |-> edges.bottom,
                     right |-> edges.right, valid |-> ok]

\* Rect().
RectInit ==
  /\ rect = [o \in Object |-> Built(Zero, FALSE)]
  /\ given = [o \in Object |-> Zero]
  /\ origin = [o \in Object |-> "default"]
  /\ copied = [o \in Object |-> FALSE]
  /\ steps = [o \in Object |-> 0]

Becomes(o, r, asked, from, copy) ==
  /\ steps[o] < MaxSteps /\ steps' = [steps EXCEPT ![o] = @ + 1]
  /\ rect' = [rect EXCEPT ![o] = r]
  /\ given' = [given EXCEPT ![o] = asked]
  /\ origin' = [origin EXCEPT ![o] = from]
  /\ copied' = [copied EXCEPT ![o] = copy]

\* Rect(topLeft, bottomRight), which orders nothing.
FromPositions(o) ==
  \E t, l, b, r \in Coordinate :
    LET edges == [top |-> t, left |-> l, bottom |-> b, right |-> r]
    IN Becomes(o, Built(edges, TRUE), edges, "positions", FALSE)

\* Rect(rect): as extent() and every call by value does.
Swapped(r) ==   \* mutant: the corners are confused
  Built([top |-> r.bottom, left |-> r.left, bottom |-> r.top, right |-> r.right], TRUE)
Unmarked(r) == Built(r, FALSE)   \* mutant: m_valid is not set
CopyOf(r) == Built(r, TRUE)
Copy(o, p) == Becomes(o, CopyOf(rect[p]), given[p], origin[p], TRUE)

\* o = p.
Assign(o, p) == Becomes(o, rect[p], given[p], origin[p], copied[p])

\* setTop and the others: the coordinate becomes a float, and m_valid stays.
Coarse(x) == {4 * (x \div 4)}   \* mutant: a coarser type
Rounded(x) == IF x % 2 = 0 THEN {x} ELSE {x - 1, x + 1}
SetEdge(o, e, x) ==
  \E y \in Rounded(x) :
    Becomes(o, [rect[o] EXCEPT ![e] = y], [given[o] EXCEPT ![e] = x],
            origin[o], copied[o])

RectNext ==
  \E o \in Object :
    \/ FromPositions(o)
    \/ \E p \in Object \ {o} : Copy(o, p) \/ Assign(o, p)
    \/ \E e \in Edges, x \in Coordinate : SetEdge(o, e, x)

RectSpec == RectInit /\ [][RectNext]_rectVars

Closed(a, b) ==   \* mutant: edges that touch count
  a.left <= b.right /\ a.right >= b.left /\ a.top >= b.bottom /\ a.bottom <= b.top
SameEdges(a, b) ==   \* mutant: top is compared with top
  a.left < b.right /\ a.right > b.left /\ a.top > b.top /\ a.bottom < b.bottom
Intersects(a, b) ==
  a.left < b.right /\ a.right > b.left /\ a.top > b.bottom /\ a.bottom < b.top

\* Longitudes on the edges belong to the rectangle, latitudes do not.
Contains(a, lat, lon) ==
  lon >= a.left /\ lon <= a.right /\ lat < a.top /\ lat > a.bottom

\* The centre, in halves.
Mixed(a) == [lat |-> a.top + a.right, lon |-> a.left + a.bottom]   \* mutant
Center(a) == [lat |-> a.top + a.bottom, lon |-> a.left + a.right]

-----------------------------------------------------------------------------
\* A Rect is valid if it was given positions, and also if it is only a copy of
\* one that never was: a user who takes a chart's extent() cannot tell.
ValidIfGivenOrCopied ==
  \A o \in Object : rect[o].valid <=> origin[o] = "positions" \/ copied[o]

\* Every edge is the one asked for, up to what a float loses, through any
\* number of copies, assignments and setters.
EdgesNear ==
  \A o \in Object, e \in Edges : rect[o][e] \in given[o][e] - 1..given[o][e] + 1

\* Through any sequence of copies, assignments and setters a rectangle keeps
\* the edges it was given, and says it is valid where its source may not be.
EdgesAsGiven == ValidIfGivenOrCopied /\ EdgesNear

\* Two rectangles that contain a position intersect, or touch along the
\* meridian it lies on, and then they need not.
SharedPosition ==
  \A a, b \in {rect[o] : o \in Object} : \A lat, lon \in Coordinate :
    Contains(a, lat, lon) /\ Contains(b, lat, lon) =>
      Intersects(a, b) \/ lon \in {a.left, a.right} \cap {b.left, b.right}

\* Rectangles that intersect share a position (of the grid in halves), unless
\* one has its edges the wrong way round.
Upright(a) == a.left < a.right /\ a.bottom < a.top
Halves == UNION {{2 * x, 2 * x + 1} : x \in UNION {{y - 1, y, y + 1} : y \in Coordinate}}
Half(a) == [e \in Edges |-> 2 * a[e]]
MeetSomewhere ==
  \A a, b \in {rect[o] : o \in Object} :
    Upright(a) /\ Upright(b) =>
      (Intersects(a, b) <=>
         \E lat, lon \in Halves :
           /\ Contains(Half(a), lat, lon) /\ Contains(Half(b), lat, lon)
           /\ lon \notin {2 * a.left, 2 * a.right, 2 * b.left, 2 * b.right})

\* The centre of a rectangle that has its edges the right way round lies in it.
CenterInside ==
  \A o \in Object : Upright(rect[o]) =>
    Contains(Half(rect[o]), Center(rect[o]).lat, Center(rect[o]).lon)
\* contains, intersects and center agree with each other, whatever rectangles
\* the copies and setters make.
PredicatesAgree == SharedPosition /\ MeetSomewhere /\ CenterInside
=============================================================================
