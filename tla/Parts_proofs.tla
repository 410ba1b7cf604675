------------------------------ MODULE Parts_proofs ------------------------------
(***************************************************************************)
(* For every instance of the parts of the library that keep to themselves: *)
(* what becomes of the edges of rectangles, and that their predicates      *)
(* agree; the keys that are found for a chart; the types and attributes of *)
(* S57 objects.                                                            *)
(***************************************************************************)
EXTENDS KeyListReader, Rect, S57Object, Lemmas, TLAPS

-----------------------------------------------------------------------------
(* Rectangles.                                                             *)

Rectangle == [top : Int, left : Int, bottom : Int, right : Int, valid : BOOLEAN]

\* Edges are numbers, near those that were asked for.
Near(r, asked) ==
  /\ r \in Rectangle
  /\ asked \in [Edges -> Coordinate]
  /\ \A e \in Edges : r[e] \in asked[e] - 1..asked[e] + 1

RectInv ==
  /\ \A o \in Object : Near(rect[o], given[o])
  /\ \A o \in Object : rect[o].valid <=> origin[o] = "positions" \/ copied[o]
  /\ DOMAIN rect = Object /\ DOMAIN given = Object
  /\ DOMAIN origin = Object /\ DOMAIN copied = Object

\* An operation that gives its object edges near those asked for keeps RectInv.
LEMMA BecomesNear ==
  ASSUME RectInv, NEW o \in Object, NEW r, NEW asked, NEW from, NEW copy,
         Becomes(o, r, asked, from, copy),
         Near(r, asked), r.valid <=> from = "positions" \/ copy
  PROVE  RectInv'
<1>1. /\ \A p \in Object : rect'[p] = IF p = o THEN r ELSE rect[p]
      /\ \A p \in Object : given'[p] = IF p = o THEN asked ELSE given[p]
      /\ DOMAIN rect' = Object /\ DOMAIN given' = Object
  BY DEF Becomes, RectInv
<1>2. /\ \A p \in Object : origin'[p] = IF p = o THEN from ELSE origin[p]
      /\ \A p \in Object : copied'[p] = IF p = o THEN copy ELSE copied[p]
      /\ DOMAIN origin' = Object /\ DOMAIN copied' = Object
  BY DEF Becomes, RectInv
<1>3. \A p \in Object : Near(rect'[p], given'[p])
  BY <1>1 DEF RectInv
<1>4. \A p \in Object : rect'[p].valid <=> origin'[p] = "positions" \/ copied'[p]
  BY <1>1, <1>2 DEF RectInv
<1> QED
  BY <1>1, <1>2, <1>3, <1>4 DEF RectInv

\* Every operation keeps the edges and what valid says.
LEMMA RectStep ==
  ASSUME RectInv, [RectNext]_rectVars
  PROVE  RectInv'
<1>1. ASSUME NEW o \in Object, FromPositions(o)
      PROVE  RectInv'
  <2>1. PICK t \in Coordinate, l \in Coordinate, b \in Coordinate, r \in Coordinate :
          LET edges == [top |-> t, left |-> l, bottom |-> b, right |-> r]
          IN Becomes(o, Built(edges, TRUE), edges, "positions", FALSE)
    BY <1>1 DEF FromPositions
  <2> DEFINE edges == [top |-> t, left |-> l, bottom |-> b, right |-> r]
  <2>2. Near(Built(edges, TRUE), edges) /\ Built(edges, TRUE).valid = TRUE
    BY RectConstants DEF Near, Built, Edges, Rectangle
  <2> QED
    BY <2>1, <2>2, BecomesNear
<1>2. ASSUME NEW o \in Object, NEW p \in Object, Copy(o, p)
      PROVE  RectInv'
  <2>1. Near(rect[p], given[p])
    BY DEF RectInv
  <2>2. Near(CopyOf(rect[p]), given[p]) /\ CopyOf(rect[p]).valid = TRUE
    BY <2>1 DEF Near, CopyOf, Built, Edges, Rectangle
  <2> QED
    BY <1>2, <2>2, BecomesNear DEF Copy
<1>3. ASSUME NEW o \in Object, NEW p \in Object, Assign(o, p)
      PROVE  RectInv'
  BY <1>3, BecomesNear DEF Assign, RectInv
<1>4. ASSUME NEW o \in Object, NEW e \in Edges, NEW x \in Coordinate, SetEdge(o, e, x)
      PROVE  RectInv'
  <2>1. PICK y \in Rounded(x) :
          Becomes(o, [rect[o] EXCEPT ![e] = y], [given[o] EXCEPT ![e] = x],
                  origin[o], copied[o])
    BY <1>4 DEF SetEdge
  <2>2. x \in Int /\ y \in Int /\ y \in x - 1..x + 1
    BY RectConstants DEF Rounded
  <2>3. Near(rect[o], given[o]) /\ (rect[o].valid <=> origin[o] = "positions" \/ copied[o])
    BY DEF RectInv
  <2>4. Near([rect[o] EXCEPT ![e] = y], [given[o] EXCEPT ![e] = x])
    <3>1. [rect[o] EXCEPT ![e] = y] \in Rectangle
      BY <2>2, <2>3 DEF Near, Edges, Rectangle
    <3>2. [given[o] EXCEPT ![e] = x] \in [Edges -> Coordinate]
      BY <2>2, <2>3 DEF Near
    <3>3. ASSUME NEW f \in Edges
          PROVE  [rect[o] EXCEPT ![e] = y][f] \in
                   [given[o] EXCEPT ![e] = x][f] - 1..[given[o] EXCEPT ![e] = x][f] + 1
      <4>1. /\ [given[o] EXCEPT ![e] = x][f] = IF f = e THEN x ELSE given[o][f]
            /\ [rect[o] EXCEPT ![e] = y][f] = IF f = e THEN y ELSE rect[o][f]
        BY <2>3 DEF Near, Edges, Rectangle
      <4>2. rect[o][f] \in given[o][f] - 1..given[o][f] + 1
        BY <2>3 DEF Near
      <4> QED
        BY <2>2, <4>1, <4>2
    <3> QED
      BY <3>1, <3>2, <3>3 DEF Near
  <2>5. [rect[o] EXCEPT ![e] = y].valid = rect[o].valid
    BY <2>3 DEF Near, Edges, Rectangle
  <2> QED
    <3>1. [rect[o] EXCEPT ![e] = y].valid <=> origin[o] = "positions" \/ copied[o]
      BY <2>3, <2>5
    <3> QED
      BY <2>1, <2>4, <3>1, BecomesNear
<1>5. CASE UNCHANGED rectVars
  BY <1>5 DEF rectVars, RectInv
<1> QED
  BY <1>1, <1>2, <1>3, <1>4, <1>5 DEF RectNext

-----------------------------------------------------------------------------
\* RectInv holds in every reachable state.
THEOREM RectInvariance == RectSpec => []RectInv
<1>1. RectInit => RectInv
  <2> SUFFICES ASSUME RectInit
               PROVE  RectInv
    OBVIOUS
  <2>1. Near(Built(Zero, FALSE), Zero) /\ Built(Zero, FALSE).valid = FALSE
    BY RectConstants DEF Near, Built, Zero, Edges, Rectangle
  <2> QED
    BY <2>1 DEF RectInit, RectInv
<1>2. RectInv /\ [RectNext]_rectVars => RectInv'
  BY RectStep
<1> QED
  BY <1>1, <1>2, PTL DEF RectSpec

\* Through any operations of any number of rectangles the edges stay near those
\* asked for, and a rectangle is valid that was given positions or is a copy.
THEOREM EdgesStayAsGiven == RectSpec => []EdgesAsGiven
<1>1. RectInv => EdgesAsGiven
  BY DEF RectInv, Near, EdgesAsGiven, EdgesNear, ValidIfGivenOrCopied
<1> QED
  BY <1>1, RectInvariance, PTL

\* Two rectangles that contain a position intersect, or touch along its meridian.
LEMMA SharedPositions == RectInv => SharedPosition
<1> SUFFICES ASSUME RectInv, NEW o \in Object, NEW p \in Object,
                    NEW lat \in Coordinate, NEW lon \in Coordinate,
                    Contains(rect[o], lat, lon), Contains(rect[p], lat, lon)
             PROVE  \/ Intersects(rect[o], rect[p])
                    \/ lon \in {rect[o].left, rect[o].right} \cap {rect[p].left, rect[p].right}
  BY DEF SharedPosition
<1>1. rect[o] \in Rectangle /\ rect[p] \in Rectangle /\ lat \in Int /\ lon \in Int
  BY RectConstants DEF RectInv, Near
<1>2. /\ rect[o].left \in Int /\ rect[o].right \in Int
      /\ rect[o].top \in Int /\ rect[o].bottom \in Int
      /\ rect[p].left \in Int /\ rect[p].right \in Int
      /\ rect[p].top \in Int /\ rect[p].bottom \in Int
  BY <1>1 DEF Rectangle
<1>3. /\ rect[o].left <= lon /\ lon <= rect[o].right
      /\ rect[o].bottom < lat /\ lat < rect[o].top
      /\ rect[p].left <= lon /\ lon <= rect[p].right
      /\ rect[p].bottom < lat /\ lat < rect[p].top
  BY <1>1, <1>2 DEF Contains
<1>4. rect[o].top > rect[p].bottom /\ rect[o].bottom < rect[p].top
  BY <1>1, <1>2, <1>3
<1>5. rect[o].left < rect[p].right \/ (lon = rect[o].left /\ lon = rect[p].right)
  BY <1>1, <1>2, <1>3
<1>6. rect[o].right > rect[p].left \/ (lon = rect[o].right /\ lon = rect[p].left)
  BY <1>1, <1>2, <1>3
<1> QED
  BY <1>4, <1>5, <1>6 DEF Intersects

\* The centre of an upright rectangle lies in it.
LEMMA CentersInside == RectInv => CenterInside
<1> SUFFICES ASSUME RectInv, NEW o \in Object, Upright(rect[o])
             PROVE  Contains(Half(rect[o]), Center(rect[o]).lat, Center(rect[o]).lon)
  BY DEF CenterInside
<1>1. rect[o] \in Rectangle
  BY DEF RectInv, Near
<1>2. /\ Half(rect[o]).top = 2 * rect[o].top /\ Half(rect[o]).left = 2 * rect[o].left
      /\ Half(rect[o]).bottom = 2 * rect[o].bottom
      /\ Half(rect[o]).right = 2 * rect[o].right
  BY DEF Half, Edges
<1> QED
  BY <1>1, <1>2 DEF Contains, Center, Upright, Rectangle

\* Upright rectangles intersect just where they share a position.
LEMMA MeetingRectangles == RectInv => MeetSomewhere
<1> SUFFICES ASSUME RectInv, NEW o \in Object, NEW p \in Object,
                    Upright(rect[o]), Upright(rect[p])
             PROVE  Intersects(rect[o], rect[p]) <=>
                      \E lat, lon \in Halves :
                        /\ Contains(Half(rect[o]), lat, lon)
                        /\ Contains(Half(rect[p]), lat, lon)
                        /\ lon \notin {2 * rect[o].left, 2 * rect[o].right,
                                       2 * rect[p].left, 2 * rect[p].right}
  BY DEF MeetSomewhere
<1>1. PICK a, b : a = rect[o] /\ b = rect[p]
  OBVIOUS
<1>2. /\ a.left \in Int /\ a.right \in Int /\ a.top \in Int /\ a.bottom \in Int
      /\ b.left \in Int /\ b.right \in Int /\ b.top \in Int /\ b.bottom \in Int
      /\ a.left < a.right /\ a.bottom < a.top /\ b.left < b.right /\ b.bottom < b.top
  BY <1>1 DEF RectInv, Near, Rectangle, Upright
<1>3. /\ Half(a).top = 2 * a.top /\ Half(a).left = 2 * a.left
      /\ Half(a).bottom = 2 * a.bottom /\ Half(a).right = 2 * a.right
      /\ Half(b).top = 2 * b.top /\ Half(b).left = 2 * b.left
      /\ Half(b).bottom = 2 * b.bottom /\ Half(b).right = 2 * b.right
  BY DEF Half, Edges
<1>4. ASSUME NEW q \in Object, NEW e \in Edges
      PROVE  2 * rect[q][e] + 1 \in Halves
  <2>1. /\ given[q][e] \in Coordinate
        /\ rect[q][e] \in given[q][e] - 1..given[q][e] + 1
    BY DEF RectInv, Near
  <2>2. given[q][e] \in Int
    BY <2>1, RectConstants
  <2>3. rect[q][e] \in {given[q][e] - 1, given[q][e], given[q][e] + 1}
    BY <2>1, <2>2
  <2>4. PICK x : x = rect[q][e]
    OBVIOUS
  <2>5. x \in UNION {{y - 1, y, y + 1} : y \in Coordinate}
    BY <2>1, <2>3, <2>4
  <2>6. 2 * x + 1 \in {2 * x, 2 * x + 1}
    OBVIOUS
  <2> QED
    BY <2>4, <2>5, <2>6, Zenon DEF Halves
<1>5. ASSUME Intersects(a, b)
      PROVE  \E lat, lon \in Halves :
               /\ Contains(Half(a), lat, lon) /\ Contains(Half(b), lat, lon)
               /\ lon \notin {2 * a.left, 2 * a.right, 2 * b.left, 2 * b.right}
  <2>1. /\ 2 * a.bottom + 1 \in Halves /\ 2 * b.bottom + 1 \in Halves
        /\ 2 * a.left + 1 \in Halves /\ 2 * b.left + 1 \in Halves
    BY <1>1, <1>4 DEF Edges
  <2>2. PICK lat \in {2 * a.bottom + 1, 2 * b.bottom + 1} :
          lat >= 2 * a.bottom + 1 /\ lat >= 2 * b.bottom + 1
    BY <1>2
  <2>3. PICK lon \in {2 * a.left + 1, 2 * b.left + 1} :
          lon >= 2 * a.left + 1 /\ lon >= 2 * b.left + 1
    BY <1>2
  <2>4. /\ a.left < b.right /\ a.right > b.left /\ a.top > b.bottom /\ a.bottom < b.top
    BY <1>5 DEF Intersects
  <2>5. lat < 2 * a.top /\ lat < 2 * b.top
    BY <1>2, <2>2, <2>4
  <2>6. lon < 2 * a.right /\ lon < 2 * b.right
    BY <1>2, <2>3, <2>4
  <2>7. Contains(Half(a), lat, lon) /\ Contains(Half(b), lat, lon)
    BY <1>2, <1>3, <2>2, <2>3, <2>5, <2>6 DEF Contains
  <2>8. lon \notin {2 * a.left, 2 * a.right, 2 * b.left, 2 * b.right}
    BY <1>2, <2>3, <2>6
  <2> QED
    BY <2>1, <2>2, <2>3, <2>7, <2>8
<1>6. ASSUME NEW lat \in Halves, NEW lon \in Halves,
             Contains(Half(a), lat, lon), Contains(Half(b), lat, lon),
             lon \notin {2 * a.left, 2 * a.right, 2 * b.left, 2 * b.right}
      PROVE  Intersects(a, b)
  <2>1. lat \in Int /\ lon \in Int
    BY RectConstants DEF Halves
  <2> QED
    BY <1>2, <1>3, <1>6, <2>1 DEF Contains, Intersects
<1> QED
  BY <1>1, <1>5, <1>6

\* contains, intersects and center agree, whatever rectangles the operations
\* make of each other (Rect::contains, intersects, center).
THEOREM PredicatesAlwaysAgree == RectSpec => []PredicatesAgree
<1>1. RectInv => PredicatesAgree
  BY SharedPositions, MeetingRectangles, CentersInside DEF PredicatesAgree
<1> QED
  BY <1>1, RectInvariance, PTL

-----------------------------------------------------------------------------
(* The keys of a chart.                                                    *)

\* The greatest of a set is its maximum.
LEMMA MaxIs ==
  ASSUME NEW S \in SUBSET Nat, NEW x \in S, \A y \in S : x >= y
  PROVE  Ext!Max(S) = x
<1>1. \A z \in S : (\A y \in S : z >= y) => z = x
  OBVIOUS
<1> QED
  BY <1>1 DEF Ext!Max

\* The least of a set is its minimum.
LEMMA MinIs ==
  ASSUME NEW S \in SUBSET Nat, NEW x \in S, \A y \in S : x <= y
  PROVE  Ext!Min(S) = x
<1>1. \A z \in S : (\A y \in S : z <= y) => z = x
  OBVIOUS
<1> QED
  BY <1>1 DEF Ext!Min

\* The keys of the first n charts, the last one of a name counting.
KeysUpTo(charts, n) ==
  [m \in {charts[i].fileName : i \in 1..n} |->
     charts[Ext!Max({i \in 1..n : charts[i].fileName = m})].key]

\* TakeChart adds those of one chart more.
LEMMA OneMoreKey ==
  ASSUME NEW charts, NEW n \in Nat
  PROVE  KeysUpTo(charts, n + 1) =
           With(KeysUpTo(charts, n), charts[n + 1].fileName, charts[n + 1].key)
<1> DEFINE Names(k) == {charts[i].fileName : i \in 1..k}
           Named(k, m) == {i \in 1..k : charts[i].fileName = m}
<1>1. PICK name : name = charts[n + 1].fileName
  OBVIOUS
<1>2. 1..n + 1 = 1..n \cup {n + 1} /\ n + 1 \notin 1..n
  OBVIOUS
<1>3. Names(n + 1) = Names(n) \cup {name}
  BY <1>1, <1>2
<1>4. Ext!Max(Named(n + 1, name)) = n + 1
  <2>1. n + 1 \in Named(n + 1, name) /\ \A i \in Named(n + 1, name) : i <= n + 1
    BY <1>1
  <2>2. Named(n + 1, name) \in SUBSET Nat
    OBVIOUS
  <2> HIDE DEF Named
  <2> QED
    BY <2>1, <2>2, MaxIs
<1>5. \A m : m # name => Named(n + 1, m) = Named(n, m)
  BY <1>1, <1>2
<1>6. KeysUpTo(charts, n + 1) =
        [m \in Names(n) \cup {name} |->
           IF m = name THEN charts[n + 1].key ELSE charts[Ext!Max(Named(n, m))].key]
  <2>1. ASSUME NEW m \in Names(n) \cup {name}
        PROVE  charts[Ext!Max(Named(n + 1, m))].key =
                 IF m = name THEN charts[n + 1].key ELSE charts[Ext!Max(Named(n, m))].key
    <3>1. CASE m = name
      <4> HIDE DEF Named
      <4> QED
        BY <1>4, <3>1
    <3>2. CASE m # name
      <4>1. Named(n + 1, m) = Named(n, m)
        BY <1>5, <3>2
      <4> HIDE DEF Named
      <4> QED
        BY <3>2, <4>1
    <3> QED
      BY <3>1, <3>2
  <2>2. KeysUpTo(charts, n + 1) = [m \in Names(n + 1) |-> charts[Ext!Max(Named(n + 1, m))].key]
    BY DEF KeysUpTo
  <2> HIDE DEF Names, Named
  <2> QED
    BY <1>3, <2>1, <2>2
<1>7. KeysUpTo(charts, n) = [m \in Names(n) |-> charts[Ext!Max(Named(n, m))].key]
  BY DEF KeysUpTo
<1> HIDE DEF Names, Named
<1> QED
  BY <1>1, <1>6, <1>7 DEF With

\* No charts make no keys.
LEMMA NoKeysYet ==
  ASSUME NEW charts
  PROVE  KeysUpTo(charts, 0) = NoKeys
<1>1. {charts[i].fileName : i \in 1..0} = {}
  OBVIOUS
<1> QED
  BY <1>1 DEF KeysUpTo, NoKeys

\* Any charts make some.
LEMMA SomeKeys ==
  ASSUME NEW charts, NEW n \in Nat, n > 0
  PROVE  KeysUpTo(charts, n) # NoKeys
<1>1. charts[1].fileName \in DOMAIN KeysUpTo(charts, n)
  BY DEF KeysUpTo
<1>2. DOMAIN NoKeys = {}
  BY DEF NoKeys
<1> QED
  BY <1>1, <1>2

\* A list that is well formed up to n, and no further, has the keys up to n.
LEMMA GoodUpTo ==
  ASSUME NEW charts, NEW n \in Nat, Len(charts) \in Nat, n <= Len(charts),
         \A j \in 1..n : WellFormed(charts[j]),
         n + 1 <= Len(charts) => ~WellFormed(charts[n + 1])
  PROVE  Good(charts) = 1..n /\ KeysOf(charts) = KeysUpTo(charts, n)
<1>1. ASSUME NEW i \in Good(charts)
      PROVE  i \in 1..n
  <2>1. i \in 1..Len(charts) /\ \A j \in 1..i : WellFormed(charts[j])
    BY DEF Good, WellFormed
  <2>2. ~(n + 1 \in 1..i)
    BY <2>1
  <2> QED
    BY <2>1, <2>2
<1>2. ASSUME NEW i \in 1..n
      PROVE  i \in Good(charts)
  BY DEF Good, WellFormed
<1>3. Good(charts) = 1..n
  BY <1>1, <1>2
<1> QED
  BY <1>3 DEF KeysOf, KeysUpTo

\* The lists whose files the loop has left have no key, and those of the file
\* it reads are well formed so far and have given the keys there are.
Fruitless(files) == \A f \in files : contents[f].xml => Good(contents[f].charts) = {}
Looking ==
  call = "readOesuKeys" /\ parsing = None =>
    lines = << >> /\ keys = NoKeys /\ Fruitless(File \ unseen)
Parsing ==
  parsing # None =>
    /\ call = "readOesuKeys" /\ lines = << >>
    /\ parsing \in File /\ contents[parsing].xml
    /\ Fruitless(File \ (unseen \cup {parsing}))
    /\ index - 1 <= Len(Charts) /\ \A j \in 1..index - 1 : WellFormed(Charts[j])
    /\ keys = KeysUpTo(Charts, index - 1)
Searching ==
  call = "readOesencKey" =>
    /\ keys = NoKeys /\ key = None /\ \A f \in File : ~contents[f].xml
    /\ index - 1 <= Len(lines) /\ \A j \in 1..index - 1 : ~Matches(lines[j])
KeyInv ==
  /\ call \in {"readOesuKeys", "readOesencKey", "returned"}
  /\ index \in Nat \ {0} /\ Len(lines) \in Nat
  /\ \A f \in File : Len(contents[f].charts) \in Nat
  /\ Looking /\ Parsing /\ Searching
  /\ call = "returned" => parsing = None /\ KeysAsListed

\* A file that is no key list, or one about to be parsed.
LEMMA NextFileKeeps ==
  ASSUME KeyInv, NEW f \in File, NextFile(f)
  PROVE  KeyInv'
<1>1. /\ call = "readOesuKeys" /\ parsing = None /\ f \in unseen
      /\ unseen' = unseen \ {f} /\ index' = 1
      /\ parsing' = IF contents[f].xml THEN f ELSE None
      /\ UNCHANGED <<contents, lines, call, keys, key>>
  BY DEF NextFile, result
<1>2. keys = NoKeys /\ lines = << >> /\ Fruitless(File \ unseen) /\ f # None
  BY <1>1, KeyListConstants DEF KeyInv, Looking
<1>3. CASE contents[f].xml
  <2>1. parsing' = f /\ parsing' # None
    BY <1>1, <1>2, <1>3
  <2>2. File \ (unseen' \cup {f}) \subseteq File \ unseen
    BY <1>1
  <2>3. Fruitless(File \ (unseen \cup {parsing}))'
    BY <1>1, <1>2, <2>1, <2>2 DEF Fruitless
  <2>4. keys' = KeysUpTo(Charts', 0)
    BY <1>1, <1>2, NoKeysYet
  <2>5. index' - 1 = 0 /\ Charts' = contents[f].charts /\ Len(contents[f].charts) \in Nat
    BY <1>1, <2>1 DEF Charts, KeyInv
  <2>6. Parsing'
    BY <1>1, <1>2, <1>3, <2>1, <2>3, <2>4, <2>5 DEF Parsing
  <2> QED
    BY <1>1, <2>1, <2>6 DEF KeyInv, Looking, Searching
<1>4. CASE ~contents[f].xml
  <2>1. parsing' = None
    BY <1>1, <1>4
  <2>2. File \ unseen' \subseteq (File \ unseen) \cup {f}
    BY <1>1
  <2>3. Fruitless(File \ unseen)'
    BY <1>1, <1>2, <1>4, <2>2 DEF Fruitless
  <2> QED
    BY <1>1, <1>2, <2>1, <2>3 DEF KeyInv, Looking, Parsing, Searching
<1> QED
  BY <1>3, <1>4

\* One more chart of a list adds its key, or finds the list damaged.
LEMMA TakeChartKeeps ==
  ASSUME KeyInv, TakeChart
  PROVE  KeyInv'
<1>1. PICK charts : charts = Charts
  OBVIOUS
<1>2. PICK n \in Nat : index = n + 1
  <2>1. index - 1 \in Nat /\ index = (index - 1) + 1
    BY DEF KeyInv
  <2> QED
    BY <2>1
<1>3. /\ parsing # None /\ index <= Len(charts) /\ WellFormed(charts[index])
      /\ keys' = With(keys, charts[index].fileName, charts[index].key)
      /\ index' = index + 1
      /\ UNCHANGED <<contents, lines, call, unseen, parsing, key>>
  BY <1>1 DEF TakeChart
<1>4. /\ call = "readOesuKeys" /\ lines = << >>
      /\ parsing \in File /\ contents[parsing].xml
      /\ Fruitless(File \ (unseen \cup {parsing}))
      /\ \A j \in 1..n : WellFormed(charts[j])
      /\ keys = KeysUpTo(charts, n)
  <2>1. index - 1 = n
    BY <1>2
  <2> QED
    BY <1>1, <1>3, <2>1 DEF KeyInv, Parsing
<1>5. Charts' = charts /\ Len(charts) \in Nat
  BY <1>1, <1>3, <1>4 DEF Charts, KeyInv
<1>6. index' - 1 = n + 1
  BY <1>2, <1>3
<1>7. keys' = KeysUpTo(charts, n + 1)
  BY <1>2, <1>3, <1>4, OneMoreKey
<1>8. \A j \in 1..n + 1 : WellFormed(charts[j])
  BY <1>2, <1>3, <1>4
<1>9. Fruitless(File \ (unseen \cup {parsing}))'
  BY <1>3, <1>4 DEF Fruitless
<1>10. Parsing'
  BY <1>2, <1>3, <1>4, <1>5, <1>6, <1>7, <1>8, <1>9 DEF Parsing
<1> QED
  BY <1>2, <1>3, <1>4, <1>10 DEF KeyInv, Looking, Searching

\* A list that was parsed to its end is the answer, if it has any keys.
LEMMA EndOfListKeeps ==
  ASSUME KeyInv, EndOfList
  PROVE  KeyInv'
<1>1. PICK charts : charts = Charts
  OBVIOUS
<1>2. PICK n \in Nat : index = n + 1
  <2>1. index - 1 \in Nat /\ index = (index - 1) + 1
    BY DEF KeyInv
  <2> QED
    BY <2>1
<1>3. /\ parsing # None /\ (n + 1 <= Len(charts) => ~WellFormed(charts[n + 1]))
      /\ parsing' = None
      /\ call' = IF keys = NoKeys THEN call ELSE "returned"
      /\ UNCHANGED <<contents, lines, unseen, index, keys, key>>
  BY <1>1, <1>2 DEF EndOfList, result
<1>4. PICK f \in File : f = parsing
  BY <1>3 DEF KeyInv, Parsing
<1>5. /\ call = "readOesuKeys" /\ lines = << >>
      /\ contents[f].xml /\ charts = contents[f].charts /\ Len(charts) \in Nat
      /\ Fruitless(File \ (unseen \cup {f}))
      /\ n <= Len(charts) /\ \A j \in 1..n : WellFormed(charts[j])
      /\ keys = KeysUpTo(charts, n)
  <2>1. index - 1 = n
    BY <1>2
  <2> QED
    BY <1>1, <1>3, <1>4, <2>1 DEF KeyInv, Parsing, Charts
<1>6. Good(charts) = 1..n /\ KeysOf(charts) = keys
  BY <1>3, <1>5, GoodUpTo
<1>7. CASE keys = NoKeys
  <2>1. n = 0
    <3>1. ASSUME n > 0
          PROVE  KeysUpTo(charts, n) # NoKeys
      BY <3>1, SomeKeys
    <3> QED
      BY <1>5, <1>7, <3>1
  <2>2. Good(contents[f].charts) = {}
    BY <1>5, <1>6, <2>1
  <2>3. Fruitless(File \ unseen)'
    BY <1>3, <1>5, <2>2 DEF Fruitless
  <2> QED
    BY <1>2, <1>3, <1>5, <1>7, <2>3 DEF KeyInv, Looking, Parsing, Searching
<1>8. CASE keys # NoKeys
  <2>1. call' = "returned"
    BY <1>3, <1>8
  <2>2. KeysOfOneList'
    <3>1. contents'[f].xml /\ keys' = KeysOf(contents'[f].charts)
      BY <1>3, <1>5, <1>6
    <3> QED
      BY <3>1 DEF KeysOfOneList
  <2>3. NoneOnlyIfNone' /\ FirstUserKey'
    BY <1>3, <1>5, <1>8 DEF NoneOnlyIfNone, FirstUserKey
  <2> QED
    BY <1>2, <1>3, <1>5, <2>1, <2>2, <2>3
      DEF KeyInv, KeysAsListed, Looking, Parsing, Searching
<1> QED
  BY <1>7, <1>8

\* When no file is left, none had a list.
LEMMA NoMoreFilesKeeps ==
  ASSUME KeyInv, NoMoreFiles
  PROVE  KeyInv'
<1>1. /\ call = "readOesuKeys" /\ parsing = None /\ unseen = {} /\ call' = "returned"
      /\ UNCHANGED <<contents, lines, unseen, parsing, index, keys, key>>
  BY DEF NoMoreFiles, result
<1>2. lines = << >> /\ keys = NoKeys /\ Fruitless(File)
  BY <1>1 DEF KeyInv, Looking
<1>3. KeysAsListed'
  BY <1>1, <1>2 DEF KeysAsListed, KeysOfOneList, NoneOnlyIfNone, FirstUserKey, Fruitless
<1> QED
  BY <1>1, <1>2, <1>3 DEF KeyInv, Looking, Parsing, Searching

\* What readOesencKey returns when it has seen that no line before index matches.
LEMMA FirstMatch ==
  ASSUME KeyInv, call = "readOesencKey", call' = "returned", UNCHANGED lines,
         \/ index <= Len(lines) /\ Matches(lines[index]) /\ key' = lines[index].value
         \/ index > Len(lines) /\ UNCHANGED key
  PROVE  FirstUserKey'
<1> DEFINE S == {i \in 1..Len(lines) :
                   lines[i].userKey /\ lines[i].value # None /\ ~lines[i].carriageReturn}
<1>1. S \in SUBSET Nat /\ \A i \in 1..Len(lines) : i \in S <=> Matches(lines[i])
  BY DEF Matches
<1>2. /\ index \in Nat /\ index >= 1 /\ Len(lines) \in Nat /\ key = None
      /\ \A j \in 1..index - 1 : ~Matches(lines[j])
  BY DEF KeyInv, Searching
<1>3. \A i \in S : i >= index
  BY <1>1, <1>2
<1>4. S \subseteq 1..Len(lines)
  OBVIOUS
<1>5. FirstUserKey' <=>
        (lines # << >> => key' = IF S = {} THEN None ELSE lines[Ext!Min(S)].value)
  <2>1. {i \in 1..Len(lines') :
            lines'[i].userKey /\ lines'[i].value # None /\ ~lines'[i].carriageReturn} = S
    OBVIOUS
  <2> HIDE DEF S
  <2> QED
    BY <2>1 DEF FirstUserKey
<1> HIDE DEF S
<1>6. CASE index <= Len(lines) /\ Matches(lines[index]) /\ key' = lines[index].value
  <2>1. index \in S
    BY <1>1, <1>2, <1>6
  <2>2. Ext!Min(S) = index
    BY <1>1, <1>3, <2>1, MinIs
  <2> QED
    BY <1>5, <1>6, <2>1, <2>2
<1>7. CASE index > Len(lines) /\ UNCHANGED key
  <2>1. S = {}
    BY <1>2, <1>3, <1>4, <1>7
  <2> QED
    BY <1>2, <1>5, <1>7, <2>1
<1> QED
  BY <1>6, <1>7

\* It returns no keys, and there are none in a directory it does not look at.
LEMMA SearchReturns ==
  ASSUME KeyInv, call = "readOesencKey", call' = "returned", FirstUserKey',
         UNCHANGED <<contents, lines, unseen, parsing, index, keys>>
  PROVE  KeyInv'
<1>1. keys = NoKeys /\ (\A f \in File : ~contents[f].xml) /\ parsing = None
  BY DEF KeyInv, Searching, Parsing
<1>2. KeysAsListed'
  BY <1>1 DEF KeysAsListed, KeysOfOneList, NoneOnlyIfNone
<1> QED
  BY <1>1, <1>2 DEF KeyInv, Looking, Parsing, Searching

\* The lines before the one looked at do not match.
LEMMA LinesKeep ==
  ASSUME KeyInv, NextLine \/ NoMoreLines
  PROVE  KeyInv'
<1>1. call = "readOesencKey" /\ UNCHANGED <<contents, lines, unseen, parsing, keys>>
  BY DEF NextLine, NoMoreLines, result
<1>2. CASE /\ index <= Len(lines) /\ Matches(lines[index])
           /\ call' = "returned" /\ key' = lines[index].value /\ UNCHANGED index
  <2>1. FirstUserKey'
    BY <1>1, <1>2, FirstMatch
  <2> QED
    BY <1>1, <1>2, <2>1, SearchReturns
<1>3. CASE index <= Len(lines) /\ ~Matches(lines[index])
           /\ index' = index + 1 /\ UNCHANGED <<call, key>>
  <2>1. /\ index \in Nat /\ index >= 1 /\ Len(lines) \in Nat
        /\ keys = NoKeys /\ key = None /\ parsing = None /\ \A f \in File : ~contents[f].xml
        /\ \A j \in 1..index - 1 : ~Matches(lines[j])
    BY <1>1 DEF KeyInv, Searching, Parsing
  <2>2. \A j \in 1..index' - 1 : ~Matches(lines[j])
    BY <1>3, <2>1
  <2>3. Searching'
    BY <1>1, <1>3, <2>1, <2>2 DEF Searching
  <2> QED
    BY <1>1, <1>3, <2>1, <2>3 DEF KeyInv, Looking, Parsing
<1>4. CASE NoMoreLines
  <2>1. index > Len(lines) /\ call' = "returned" /\ UNCHANGED <<index, key>>
    BY <1>4 DEF NoMoreLines, result
  <2>2. FirstUserKey'
    BY <1>1, <2>1, FirstMatch
  <2> QED
    BY <1>1, <2>1, <2>2, SearchReturns
<1> QED
  BY <1>2, <1>3, <1>4 DEF NextLine

\* Whatever lists lie in the directory, in whatever order it names them, and
\* whatever lines Chartinfo.txt has: the keys are those of one list, none only
\* if no list has one, and the user key is the first (readOesuKeys,
\* readOesencKey).
THEOREM KeysAreListed == KeySpec => []KeysAsListed
<1>1. KeyInit => KeyInv
  <2> SUFFICES ASSUME KeyInit
               PROVE  KeyInv
    OBVIOUS
  <2>1. keys = NoKeys /\ key = None /\ unseen = File /\ parsing = None /\ index = 1
    BY DEF KeyInit
  <2>2. CASE call = "readOesuKeys" /\ contents \in [File -> Content] /\ lines = << >>
    <3>1. \A f \in File : Len(contents[f].charts) \in Nat
      <4>1. ASSUME NEW c \in Content
            PROVE  Len(c.charts) \in Nat
        BY KeyListConstants DEF Content, Ext!SeqOf
      <4> QED
        BY <2>2, <4>1
    <3> QED
      BY <2>1, <2>2, <3>1 DEF KeyInv, Looking, Parsing, Searching, Fruitless
  <2>3. CASE /\ call = "readOesencKey" /\ lines \in Ext!SeqOf(Line, MaxLength)
             /\ contents = [f \in File |-> NoList]
    <3>1. Len(lines) \in Nat
      BY <2>3, KeyListConstants DEF Ext!SeqOf
    <3>2. \A f \in File : Len(contents[f].charts) \in Nat /\ ~contents[f].xml
      BY <2>3 DEF NoList
    <3> QED
      BY <2>1, <2>3, <3>1, <3>2 DEF KeyInv, Looking, Parsing, Searching
  <2> QED
    BY <2>2, <2>3 DEF KeyInit
<1>2. KeyInv /\ [KeyNext]_keyVars => KeyInv'
  <2> SUFFICES ASSUME KeyInv, [KeyNext]_keyVars
               PROVE  KeyInv'
    OBVIOUS
  <2>1. CASE UNCHANGED keyVars
    BY <2>1 DEF KeyInv, Looking, Parsing, Searching, Fruitless, Charts, KeysAsListed,
      KeysOfOneList, NoneOnlyIfNone, FirstUserKey, keyVars, result
  <2> QED
    BY <2>1, NextFileKeeps, TakeChartKeeps, EndOfListKeeps, NoMoreFilesKeeps, LinesKeep
      DEF KeyNext
<1>3. KeyInv => KeysAsListed
  BY DEF KeyInv, KeysAsListed, KeysOfOneList, NoneOnlyIfNone, FirstUserKey
<1> QED
  BY <1>1, <1>2, <1>3, PTL DEF KeySpec

-----------------------------------------------------------------------------
(* Types and attributes.                                                   *)

\* No two rows of a table have the same code, or the same name.
LEMMA AttributesApart ==
  ASSUME NEW row \in AttributeCodes, NEW other \in AttributeCodes
  PROVE  (row[1] = other[1] <=> row[2] = other[2]) /\ row[2] # "Unknown"
  BY DEF AttributeCodes
\* Nor do two rows of the other table.
LEMMA TypesApart ==
  ASSUME NEW row \in TypeCodes, NEW other \in TypeCodes
  PROVE  (row[1] = other[1] <=> row[2] = other[2]) /\ row[2] # "Unknown"
  BY DEF TypeCodes

\* So a code that is known is that of the row with its name.
LEMMA AttributeOfRow ==
  ASSUME NEW code
  PROVE  /\ \A row \in AttributeCodes : attributeFromTypeCode(code) = row[2] <=> code = row[1]
         /\ attributeFromTypeCode(code) # "Unknown" <=>
              \E row \in AttributeCodes : row[1] = code
<1>1. CASE \E row \in AttributeCodes : row[1] = code
  <2>1. PICK row \in AttributeCodes :
          row[1] = code /\ attributeFromTypeCode(code) = row[2]
    BY <1>1 DEF attributeFromTypeCode, Translated
  <2> QED
    BY <2>1, AttributesApart
<1>2. CASE ~\E row \in AttributeCodes : row[1] = code
  <2>1. attributeFromTypeCode(code) = "Unknown"
    BY <1>2 DEF attributeFromTypeCode, Translated
  <2> QED
    BY <1>2, <2>1, AttributesApart
<1> QED
  BY <1>1, <1>2

\* Two codes of one known type are one code.
LEMMA TypeOfCode ==
  ASSUME NEW code, NEW other, fromTypeCode(code) = fromTypeCode(other),
         fromTypeCode(code) # "Unknown"
  PROVE  code = other
<1>1. PICK row \in TypeCodes : row[1] = code /\ fromTypeCode(code) = row[2]
  BY DEF fromTypeCode, Translated
<1>2. PICK row2 \in TypeCodes : row2[1] = other /\ fromTypeCode(other) = row2[2]
  BY DEF fromTypeCode, Translated
<1> QED
  BY <1>1, <1>2, TypesApart

\* The records of features, and of the attributes of object o that are kept.
FeaturesIn(rs) == {i \in 1..Len(rs) : rs[i] \in FeatureRecord}
OwnIn(rs, o) ==
  {i \in Ranked(FeaturesIn(rs), o) + 1..Len(rs) : Rank(FeaturesIn(rs), i) = o}
Valued(rs, o) ==
  {i \in OwnIn(rs, o) : /\ attributeFromTypeCode(rs[i].code) # "Unknown"
                        /\ rs[i].valueType \in DOMAIN Alternative}
Naming(rs, o, a) == {i \in Valued(rs, o) : attributeFromTypeCode(rs[i].code) = a}
Last(S) == CHOOSE i \in S : \A j \in S : j <= i

\* The last of a set is the one that is not less than any.
LEMMA LastIs ==
  ASSUME NEW S \in SUBSET Nat, NEW x \in S, \A y \in S : y <= x
  PROVE  Last(S) = x
<1>1. \A z \in S : (\A y \in S : y <= z) => z = x
  OBVIOUS
<1> QED
  BY <1>1 DEF Last

\* An object has the type of its record, and the last value of each attribute.
Mirrors(object, rs, o) ==
  /\ Ranked(FeaturesIn(rs), o) \in FeaturesIn(rs)
  /\ object = [type |-> fromTypeCode(rs[Ranked(FeaturesIn(rs), o)].code),
               attributes |-> object.attributes]
  /\ object.attributes =
       [a \in {attributeFromTypeCode(rs[i].code) : i \in Valued(rs, o)} |->
          Variant(rs[Last(Naming(rs, o, a))])]

ObjectInv ==
  /\ records \in Seq(Record)
  /\ \E S : objects \in Seq(S)
  /\ Len(objects) = Cardinality(FeaturesIn(records))
  /\ \A o \in 1..Len(objects) : Mirrors(objects[o], records, o)

\* A record more: what its number is, and what the others stay.
LEMMA RecordAdded ==
  ASSUME NEW rs \in Seq(Record), NEW r \in Record
  PROVE  /\ Append(rs, r) \in Seq(Record) /\ Len(rs) \in Nat
         /\ Len(Append(rs, r)) = Len(rs) + 1
         /\ Append(rs, r)[Len(rs) + 1] = r
         /\ \A i \in 1..Len(rs) : Append(rs, r)[i] = rs[i]
         /\ FeaturesIn(Append(rs, r)) =
              IF r \in FeatureRecord THEN FeaturesIn(rs) \cup {Len(rs) + 1} ELSE FeaturesIn(rs)
<1>1. PICK s : s = Append(rs, r)
  OBVIOUS
<1>2. PICK N \in Nat : N = Len(rs)
  OBVIOUS
<1>3. /\ s \in Seq(Record) /\ Len(s) = N + 1 /\ s[N + 1] = r
      /\ \A i \in 1..N : s[i] = rs[i]
  BY <1>1, <1>2
<1>4. FeaturesIn(s) = IF r \in FeatureRecord THEN FeaturesIn(rs) \cup {N + 1} ELSE FeaturesIn(rs)
  <2>1. 1..N + 1 = 1..N \cup {N + 1} /\ N + 1 \notin 1..N
    OBVIOUS
  <2> QED
    BY <1>2, <1>3, <2>1 DEF FeaturesIn
<1> QED
  BY <1>1, <1>2, <1>3, <1>4

\* Ranks among the features, below a new record and at it.
LEMMA RanksStay ==
  ASSUME NEW N \in Nat, NEW F \in SUBSET (1..N)
  PROVE  /\ \A i \in 1..N : Rank(F \cup {N + 1}, i) = Rank(F, i)
         /\ Rank(F \cup {N + 1}, N + 1) = Cardinality(F) + 1
         /\ Rank(F, N + 1) = Cardinality(F)
<1>0. \A j \in F : j \in Nat /\ j <= N /\ j <= N + 1
  OBVIOUS
<1>1. \A i \in 1..N : {j \in F \cup {N + 1} : j <= i} = {j \in F : j <= i}
  BY <1>0
<1>2. {j \in F \cup {N + 1} : j <= N + 1} = F \cup {N + 1}
  <2>1. \A j \in F \cup {N + 1} : j <= N + 1
    BY <1>0
  <2> QED
    BY <2>1
<1>3. {j \in F : j <= N + 1} = F
  BY <1>0
<1>4. Cardinality(F \cup {N + 1}) = Cardinality(F) + 1
  <2>1. N + 1 \in Nat /\ N + 1 > N
    OBVIOUS
  <2> QED
    BY <2>1, OneRanked
<1> QED
  BY <1>1, <1>2, <1>3, <1>4 DEF Rank

\* An object keeps its values while its records and features stay.
LEMMA MirrorsStill ==
  ASSUME NEW rs \in Seq(Record), NEW r \in Record, NEW o, NEW object,
         NEW s, s = Append(rs, r),
         Mirrors(object, rs, o),
         Ranked(FeaturesIn(s), o) = Ranked(FeaturesIn(rs), o),
         Valued(s, o) = Valued(rs, o)
  PROVE  Mirrors(object, s, o)
<1>1. s = Append(rs, r)
  OBVIOUS
<1>2. /\ Len(rs) \in Nat /\ \A i \in 1..Len(rs) : s[i] = rs[i]
      /\ FeaturesIn(rs) \subseteq FeaturesIn(s)
  <2>1. FeaturesIn(rs) \subseteq FeaturesIn(s)
    BY <1>1, RecordAdded
  <2> QED
    BY <1>1, <2>1, RecordAdded
<1>3. PICK m : m = Ranked(FeaturesIn(rs), o)
  OBVIOUS
<1>4. m \in FeaturesIn(s) /\ m \in 1..Len(rs) /\ m \in FeaturesIn(rs)
  BY <1>2, <1>3 DEF Mirrors, FeaturesIn
<1>5. ASSUME NEW i \in Valued(rs, o)
      PROVE  i \in 1..Len(rs)
  BY <1>2, <1>3, <1>4 DEF Valued, OwnIn
<1>6. \A i \in Valued(rs, o) : s[i] = rs[i]
  BY <1>2, <1>5
<1>7. \A a : Naming(s, o, a) = Naming(rs, o, a)
  BY <1>1, <1>6 DEF Naming
<1>8. ASSUME NEW a \in {attributeFromTypeCode(rs[i].code) : i \in Valued(rs, o)}
      PROVE  s[Last(Naming(s, o, a))] = rs[Last(Naming(rs, o, a))]
  <2>1. Naming(rs, o, a) \subseteq Valued(rs, o) /\ Naming(rs, o, a) # {}
    BY DEF Naming
  <2>2. Naming(rs, o, a) \in SUBSET (0..Len(rs))
    BY <1>2, <1>5, <2>1
  <2>3. PICK x \in Naming(rs, o, a) : \A y \in Naming(rs, o, a) : x >= y
    BY <1>2, <2>1, <2>2, Greatest
  <2>4. Last(Naming(rs, o, a)) = x
    <3>1. /\ Naming(rs, o, a) \in SUBSET Nat
          /\ \A y \in Naming(rs, o, a) : y <= x
      BY <1>2, <2>2, <2>3
    <3> QED
      BY <3>1, LastIs
  <2> QED
    BY <1>6, <1>7, <2>1, <2>4
<1>9. {attributeFromTypeCode(s[i].code) : i \in Valued(s, o)} =
        {attributeFromTypeCode(rs[i].code) : i \in Valued(rs, o)}
  BY <1>1, <1>6
<1>10. object.attributes =
         [a \in {attributeFromTypeCode(s[i].code) : i \in Valued(s, o)} |->
            Variant(s[Last(Naming(s, o, a))])]
  <2>1. PICK D : D = {attributeFromTypeCode(rs[i].code) : i \in Valued(rs, o)}
    OBVIOUS
  <2>2. object.attributes = [a \in D |-> Variant(rs[Last(Naming(rs, o, a))])]
    BY <2>1 DEF Mirrors
  <2>3. \A a \in D : Variant(s[Last(Naming(s, o, a))]) = Variant(rs[Last(Naming(rs, o, a))])
    BY <1>8, <2>1
  <2> QED
    BY <1>9, <2>1, <2>2, <2>3
<1>11. s[Ranked(FeaturesIn(s), o)] = rs[Ranked(FeaturesIn(rs), o)]
  BY <1>1, <1>2, <1>3, <1>4
<1>12. object = [type |-> fromTypeCode(s[Ranked(FeaturesIn(s), o)].code),
                 attributes |-> object.attributes]
  BY <1>11 DEF Mirrors
<1> QED
  BY <1>3, <1>4, <1>10, <1>12 DEF Mirrors

\* A feature record begins an object, and is of no other.
LEMMA NewObjectKeeps ==
  ASSUME ObjectInv, NEW r \in FeatureRecord, NewObject(r)
  PROVE  ObjectInv'
<1>1. PICK rs, s : rs = records /\ s = records'
  OBVIOUS
<1>2. PICK S : objects \in Seq(S)
  BY DEF ObjectInv
<1>3. PICK K : K = Len(objects)
  OBVIOUS
<1>4. PICK new : new = [type |-> fromTypeCode(r.code), attributes |-> << >>]
  OBVIOUS
<1>5. /\ rs \in Seq(Record) /\ r \in Record /\ s = Append(rs, r)
      /\ objects' = Append(objects, new)
      /\ K \in Nat /\ K = Cardinality(FeaturesIn(rs))
      /\ \A o \in 1..K : Mirrors(objects[o], rs, o)
  BY <1>1, <1>2, <1>3, <1>4 DEF ObjectInv, NewObject, More, FeatureRecord
<1>6. PICK N \in Nat : N = Len(rs)
  BY <1>5
<1>7. PICK F, G : F = FeaturesIn(rs) /\ G = FeaturesIn(s)
  OBVIOUS
<1>8. /\ s \in Seq(Record) /\ Len(s) = N + 1 /\ s[N + 1] = r
      /\ \A i \in 1..N : s[i] = rs[i]
      /\ G = F \cup {N + 1}
  BY <1>5, <1>6, <1>7, RecordAdded
<1>9. F \in SUBSET (1..N) /\ K = Cardinality(F)
  BY <1>5, <1>6, <1>7 DEF FeaturesIn
<1>10. /\ Cardinality(G) = K + 1
       /\ \A k \in 1..K : Ranked(G, k) = Ranked(F, k)
       /\ Ranked(G, K + 1) = N + 1
  <2>1. N + 1 \in Nat /\ N + 1 > N
    OBVIOUS
  <2> QED
    BY <1>8, <1>9, <2>1, OneRanked
<1>11. /\ \A i \in 1..N : Rank(G, i) = Rank(F, i)
       /\ Rank(G, N + 1) = K + 1
  BY <1>8, <1>9, RanksStay
<1>12. ASSUME NEW o \in 1..K
       PROVE  Mirrors(objects[o], s, o)
  <2>1. PICK m \in 1..N : m = Ranked(F, o) /\ m = Ranked(G, o)
    BY <1>5, <1>7, <1>9, <1>10 DEF Mirrors
  <2>2. o # K + 1
    BY <1>5
  <2>3. OwnIn(s, o) = {i \in m + 1..N + 1 : Rank(G, i) = o}
    BY <1>7, <1>8, <2>1 DEF OwnIn
  <2>4. OwnIn(rs, o) = {i \in m + 1..N : Rank(F, i) = o}
    BY <1>6, <1>7, <2>1 DEF OwnIn
  <2>5. m + 1..N + 1 = (m + 1..N) \cup {N + 1} /\ \A i \in m + 1..N : i \in 1..N
    BY <2>1
  <2>6. OwnIn(s, o) = OwnIn(rs, o) /\ \A i \in OwnIn(rs, o) : i \in 1..N
    BY <1>11, <2>2, <2>3, <2>4, <2>5
  <2>7. Valued(s, o) = Valued(rs, o)
    BY <1>8, <2>6 DEF Valued
  <2>8. Ranked(FeaturesIn(s), o) = Ranked(FeaturesIn(rs), o) /\ Mirrors(objects[o], rs, o)
    BY <1>5, <1>7, <2>1
  <2> QED
    BY <1>5, <2>7, <2>8, MirrorsStill
<1>13. Mirrors(new, s, K + 1)
  <2>1. Ranked(G, K + 1) = N + 1 /\ N + 1 \in G
    BY <1>8, <1>10
  <2>2. OwnIn(s, K + 1) = {}
    <3>1. (N + 1) + 1..N + 1 = {}
      OBVIOUS
    <3> QED
      BY <1>7, <1>8, <2>1, <3>1 DEF OwnIn
  <2>3. Valued(s, K + 1) = {}
    BY <2>2 DEF Valued
  <2>4. {attributeFromTypeCode(s[i].code) : i \in Valued(s, K + 1)} = {}
    BY <2>3
  <2>5. << >> = [a \in {attributeFromTypeCode(s[i].code) : i \in Valued(s, K + 1)} |->
                   Variant(s[Last(Naming(s, K + 1, a))])]
    BY <2>4
  <2> QED
    BY <1>4, <1>7, <1>8, <2>1, <2>5 DEF Mirrors
<1>14. /\ objects' \in Seq(S \cup {new}) /\ Len(objects') = K + 1
       /\ \A o \in 1..K : objects'[o] = objects[o]
       /\ objects'[K + 1] = new
  <2>1. PICK T : T = S \cup {new}
    OBVIOUS
  <2>2. objects \in Seq(T) /\ new \in T
    BY <1>2, <2>1
  <2>3. /\ objects' \in Seq(T) /\ Len(objects') = Len(objects) + 1
        /\ objects'[Len(objects) + 1] = new
        /\ \A o \in 1..Len(objects) : objects'[o] = objects[o]
    BY <1>5, <2>2
  <2> QED
    BY <1>3, <2>1, <2>3
<1>15. \A o \in 1..Len(objects') : Mirrors(objects'[o], s, o)
  <2>1. \A o \in 1..K + 1 : o \in 1..K \/ o = K + 1
    BY <1>5
  <2> QED
    BY <1>12, <1>13, <1>14, <2>1
<1>16. \E T : objects' \in Seq(T)
  BY <1>14
<1> QED
  BY <1>1, <1>7, <1>8, <1>10, <1>14, <1>15, <1>16 DEF ObjectInv

\* An attribute record is one of the last object, and of no other.
Adds(rs, r, o) == /\ o = Cardinality(FeaturesIn(rs))
                  /\ attributeFromTypeCode(r.code) # "Unknown"
                  /\ r.valueType \in DOMAIN Alternative
\* A record at the end is one more attribute of the last object, or of none.
LEMMA OwnAttribute ==
  ASSUME NEW rs \in Seq(Record), NEW r, NEW s, Len(s) = Len(rs) + 1, s[Len(rs) + 1] = r,
         \A i \in 1..Len(rs) : s[i] = rs[i],
         FeaturesIn(s) = FeaturesIn(rs),
         NEW o, Ranked(FeaturesIn(rs), o) \in FeaturesIn(rs)
  PROVE  /\ \A i \in Valued(rs, o) : i \in 1..Len(rs) /\ s[i] = rs[i]
         /\ Adds(rs, r, o) => Valued(s, o) = Valued(rs, o) \cup {Len(rs) + 1}
         /\ ~Adds(rs, r, o) => Valued(s, o) = Valued(rs, o)
<1>1. PICK N \in Nat : N = Len(rs)
  OBVIOUS
<1>2. PICK F : F = FeaturesIn(rs)
  OBVIOUS
<1>3. /\ Len(s) = N + 1 /\ s[N + 1] = r /\ \A i \in 1..N : s[i] = rs[i]
      /\ FeaturesIn(s) = F
  BY <1>1, <1>2
<1>4. F \in SUBSET (1..N)
  BY <1>1, <1>2 DEF FeaturesIn
<1>5. Rank(F, N + 1) = Cardinality(F)
  BY <1>4, RanksStay
<1>6. PICK m \in 1..N : m = Ranked(F, o)
  BY <1>2, <1>4
<1>7. OwnIn(s, o) = {i \in m + 1..N + 1 : Rank(F, i) = o}
  BY <1>3, <1>6 DEF OwnIn
<1>8. OwnIn(rs, o) = {i \in m + 1..N : Rank(F, i) = o}
  BY <1>1, <1>2, <1>6 DEF OwnIn
<1>9. /\ m + 1..N + 1 = (m + 1..N) \cup {N + 1} /\ N + 1 \notin m + 1..N
      /\ \A i \in m + 1..N : i \in 1..N
  BY <1>6
<1>10. /\ OwnIn(s, o) = IF o = Cardinality(F) THEN OwnIn(rs, o) \cup {N + 1} ELSE OwnIn(rs, o)
       /\ \A i \in OwnIn(rs, o) : i \in 1..N
  BY <1>5, <1>7, <1>8, <1>9
<1>11. Valued(s, o) = IF /\ o = Cardinality(F)
                         /\ attributeFromTypeCode(r.code) # "Unknown"
                         /\ r.valueType \in DOMAIN Alternative
                      THEN Valued(rs, o) \cup {N + 1} ELSE Valued(rs, o)
  BY <1>3, <1>10 DEF Valued
<1>12. \A i \in Valued(rs, o) : i \in 1..N /\ s[i] = rs[i]
  BY <1>3, <1>10 DEF Valued
<1> QED
  BY <1>1, <1>2, <1>3, <1>11, <1>12 DEF Adds

\* The attributes of the other objects stay,
LEMMA OthersStay ==
  ASSUME NEW rs \in Seq(Record), NEW r, NEW s, Len(s) = Len(rs) + 1, s[Len(rs) + 1] = r,
         \A i \in 1..Len(rs) : s[i] = rs[i],
         FeaturesIn(s) = FeaturesIn(rs),
         NEW o, Ranked(FeaturesIn(rs), o) \in FeaturesIn(rs), ~Adds(rs, r, o)
  PROVE  Valued(s, o) = Valued(rs, o)
  BY OwnAttribute DEF Adds
\* and the last object has one more.
LEMMA LastGrows ==
  ASSUME NEW rs \in Seq(Record), NEW r, NEW s, Len(s) = Len(rs) + 1, s[Len(rs) + 1] = r,
         \A i \in 1..Len(rs) : s[i] = rs[i],
         FeaturesIn(s) = FeaturesIn(rs),
         NEW o, Ranked(FeaturesIn(rs), o) \in FeaturesIn(rs), Adds(rs, r, o)
  PROVE  /\ Valued(s, o) = Valued(rs, o) \cup {Len(rs) + 1}
         /\ \A i \in Valued(rs, o) : i \in 1..Len(rs) /\ s[i] = rs[i]
  BY OwnAttribute DEF Adds

\* A record with an unknown code or kind of value changes no object.
LEMMA IgnoreAttributeKeeps ==
  ASSUME ObjectInv, NEW r \in AttributeRecord, IgnoreAttribute(r)
  PROVE  ObjectInv'
<1>1. PICK rs, s : rs = records /\ s = records'
  OBVIOUS
<1>2. PICK S : objects \in Seq(S)
  BY DEF ObjectInv
<1>3. /\ rs \in Seq(Record) /\ r \in Record /\ s = Append(rs, r) /\ objects' = objects
      /\ Len(objects) = Cardinality(FeaturesIn(rs)) /\ Len(objects) \in Nat
      /\ \A o \in 1..Len(objects) : Mirrors(objects[o], rs, o)
  BY <1>1, <1>2 DEF ObjectInv, IgnoreAttribute, More, AttributeRecord
<1>4. /\ rs \in Seq(Record) /\ s \in Seq(Record)
      /\ Len(s) = Len(rs) + 1 /\ s[Len(rs) + 1] = r
      /\ \A i \in 1..Len(rs) : s[i] = rs[i]
      /\ FeaturesIn(s) = FeaturesIn(rs)
  <2>1. r \notin FeatureRecord
    BY DEF FeatureRecord, AttributeRecord
  <2> QED
    BY <1>3, <2>1, RecordAdded
<1>5. ASSUME NEW o \in 1..Len(objects)
      PROVE  Mirrors(objects[o], s, o)
  <2>1. Mirrors(objects[o], rs, o)
    BY <1>3
  <2>4. Ranked(FeaturesIn(rs), o) \in FeaturesIn(rs)
    BY <2>1 DEF Mirrors
  <2>2. objects # << >>
    BY <1>2
  <2>3. Valued(s, o) = Valued(rs, o)
    <3>1. ~Adds(rs, r, o)
      BY <2>2 DEF IgnoreAttribute, Adds
    <3> QED
      BY ONLY <1>4, <2>4, <3>1, OthersStay
  <2> QED
    BY <1>3, <1>4, <2>1, <2>3, MirrorsStill
<1> QED
  BY <1>1, <1>2, <1>3, <1>4, <1>5 DEF ObjectInv

\* A record of an attribute sets it in the last object, over its older value.
LEMMA SetAttributeKeeps ==
  ASSUME ObjectInv, NEW r \in AttributeRecord, SetAttribute(r)
  PROVE  ObjectInv'
<1>1. PICK rs, s : rs = records /\ s = records'
  OBVIOUS
<1>2. PICK S : objects \in Seq(S)
  BY DEF ObjectInv
<1>3. PICK K : K = Len(objects)
  OBVIOUS
<1>4. PICK a : a = attributeFromTypeCode(r.code)
  OBVIOUS
<1>5. PICK values : values = setAttribute(objects[K].attributes, a, Variant(r))
  OBVIOUS
<1>6. /\ rs \in Seq(Record) /\ r \in Record /\ s = Append(rs, r) /\ objects # << >>
      /\ K = Cardinality(FeaturesIn(rs)) /\ K \in Nat /\ K \in 1..K
      /\ \A o \in 1..K : Mirrors(objects[o], rs, o)
      /\ a # "Unknown" /\ r.valueType \in DOMAIN Alternative
      /\ objects' = [objects EXCEPT ![K].attributes = values]
  BY <1>1, <1>2, <1>3, <1>4, <1>5 DEF ObjectInv, SetAttribute, More, AttributeRecord
<1>7. PICK N \in Nat : N = Len(rs)
  BY <1>6
<1>8. /\ rs \in Seq(Record) /\ s \in Seq(Record)
      /\ Len(s) = Len(rs) + 1 /\ s[Len(rs) + 1] = r
      /\ \A i \in 1..Len(rs) : s[i] = rs[i]
      /\ FeaturesIn(s) = FeaturesIn(rs)
  <2>1. r \notin FeatureRecord
    BY DEF FeatureRecord, AttributeRecord
  <2> QED
    BY <1>6, <2>1, RecordAdded
<1>9. PICK new : new = [type |-> objects[K].type, attributes |-> values]
  OBVIOUS
<1>10. /\ \A o \in 1..K : objects'[o] = IF o = K THEN new ELSE objects[o]
       /\ DOMAIN objects' = 1..K
  <2>1. PICK x, y : objects[K] = [type |-> x, attributes |-> y]
    <3>1. Mirrors(objects[K], rs, K)
      BY <1>6
    <3> QED
      BY <3>1 DEF Mirrors
  <2>2. [objects[K] EXCEPT !.attributes = values] = new
    BY <1>9, <2>1
  <2>3. DOMAIN objects = 1..K /\ objects = [o \in 1..K |-> objects[o]]
    BY <1>2, <1>3
  <2>4. objects' = [objects EXCEPT ![K] = new]
    BY <1>6, <2>2
  <2> QED
    BY <1>6, <2>3, <2>4
<1>11. objects' \in Seq(S \cup {new}) /\ Len(objects') = K
  <2>1. PICK T : T = S \cup {new}
    OBVIOUS
  <2>2. \A o \in 1..K : objects'[o] \in T
    BY <1>2, <1>3, <1>10, <2>1
  <2>3. objects' \in [1..K -> T]
    <3>1. objects' = [o \in DOMAIN objects |-> objects'[o]]
      BY <1>6
    <3> QED
      BY <1>10, <2>2, <3>1
  <2>4. K \in Nat
    BY <1>6
  <2>5. objects' \in Seq(T)
    BY ONLY <2>3, <2>4
  <2>6. Len(objects') = K
    BY ONLY <2>3, <2>4
  <2> QED
    BY <2>1, <2>5, <2>6
<1>12. ASSUME NEW o \in 1..K, o # K
       PROVE  Mirrors(objects[o], s, o)
  <2>1. Mirrors(objects[o], rs, o)
    BY <1>6
  <2>3. Ranked(FeaturesIn(rs), o) \in FeaturesIn(rs)
    BY <2>1 DEF Mirrors
  <2>2. Valued(s, o) = Valued(rs, o)
    <3>1. ~Adds(rs, r, o)
      BY <1>6, <1>12 DEF Adds
    <3> QED
      BY ONLY <1>8, <2>3, <3>1, OthersStay
  <2> QED
    BY <1>6, <1>8, <2>1, <2>2, MirrorsStill
<1>13. PICK V, W : V = Valued(rs, K) /\ W = Valued(s, K)
  OBVIOUS
<1>14. Mirrors(objects[K], rs, K) /\ Ranked(FeaturesIn(rs), K) \in FeaturesIn(rs)
  BY <1>6 DEF Mirrors
<1>15. /\ s[N + 1] = r /\ W = V \cup {N + 1}
       /\ \A i \in V : i \in 1..N /\ s[i] = rs[i]
  <2>1. Adds(rs, r, K)
    BY <1>4, <1>6 DEF Adds
  <2> QED
    <3>1. /\ Valued(s, K) = Valued(rs, K) \cup {Len(rs) + 1}
          /\ \A i \in Valued(rs, K) : i \in 1..Len(rs) /\ s[i] = rs[i]
      BY ONLY <1>8, <1>14, <2>1, LastGrows
    <3> QED
      BY <1>7, <1>8, <1>13, <3>1
<1>16. {attributeFromTypeCode(s[i].code) : i \in W} =
         {attributeFromTypeCode(rs[i].code) : i \in V} \cup {a}
  BY <1>4, <1>15
<1>17. ASSUME NEW b
       PROVE  Naming(s, K, b) = IF b = a THEN Naming(rs, K, b) \cup {N + 1} ELSE Naming(rs, K, b)
  BY <1>4, <1>13, <1>15 DEF Naming
<1>18. Last(Naming(s, K, a)) = N + 1
  <2>1. Naming(rs, K, a) \subseteq 1..N
    BY <1>13, <1>15 DEF Naming
  <2>2. /\ Naming(s, K, a) \in SUBSET Nat /\ N + 1 \in Naming(s, K, a)
        /\ \A y \in Naming(s, K, a) : y <= N + 1
    BY <1>17, <2>1
  <2> QED
    BY <2>2, LastIs
<1>19. ASSUME NEW b \in {attributeFromTypeCode(rs[i].code) : i \in V}, b # a
       PROVE  s[Last(Naming(s, K, b))] = rs[Last(Naming(rs, K, b))]
  <2>1. Naming(rs, K, b) \subseteq V /\ Naming(rs, K, b) # {}
    BY <1>13 DEF Naming
  <2>2. Naming(rs, K, b) \in SUBSET (0..N) /\ Naming(rs, K, b) \in SUBSET Nat
    BY <1>15, <2>1
  <2>3. PICK x \in Naming(rs, K, b) : \A y \in Naming(rs, K, b) : x >= y
    BY <2>1, <2>2, Greatest
  <2>4. Last(Naming(rs, K, b)) = x
    <3>1. \A y \in Naming(rs, K, b) : y <= x
      BY <2>2, <2>3
    <3> QED
      BY <2>2, <3>1, LastIs
  <2>5. Naming(s, K, b) = Naming(rs, K, b)
    BY <1>17, <1>19
  <2> QED
    BY <1>15, <2>1, <2>4, <2>5
<1>20. values = [b \in {attributeFromTypeCode(s[i].code) : i \in W} |->
                   Variant(s[Last(Naming(s, K, b))])]
  <2>1. PICK D : D = {attributeFromTypeCode(rs[i].code) : i \in V}
    OBVIOUS
  <2>2. objects[K].attributes = [b \in D |-> Variant(rs[Last(Naming(rs, K, b))])]
    BY <1>13, <1>14, <2>1 DEF Mirrors
  <2>3. values = [b \in D \cup {a} |->
                    IF b = a THEN Variant(r) ELSE objects[K].attributes[b]]
    BY <1>5, <2>2 DEF setAttribute
  <2>4. ASSUME NEW b \in D \cup {a}
        PROVE  (IF b = a THEN Variant(r) ELSE objects[K].attributes[b]) =
                 Variant(s[Last(Naming(s, K, b))])
    <3>1. CASE b = a
      BY <1>15, <1>18, <3>1
    <3>2. CASE b # a
      <4>1. objects[K].attributes[b] = Variant(rs[Last(Naming(rs, K, b))])
        BY <2>2, <3>2
      <4>2. s[Last(Naming(s, K, b))] = rs[Last(Naming(rs, K, b))]
        BY <1>19, <2>1, <3>2
      <4> QED
        BY <3>2, <4>1, <4>2
    <3> QED
      BY <3>1, <3>2
  <2>5. values = [b \in D \cup {a} |-> Variant(s[Last(Naming(s, K, b))])]
    BY <2>3, <2>4
  <2> QED
    BY <1>16, <2>1, <2>5
<1>21. Mirrors(new, s, K)
  <2>1. PICK m : m = Ranked(FeaturesIn(rs), K)
    OBVIOUS
  <2>2. m \in 1..N /\ s[m] = rs[m]
    BY <1>6, <1>7, <1>14, <2>1, RecordAdded DEF FeaturesIn
  <2>3. new.type = fromTypeCode(s[m].code) /\ new.attributes = values
    <3>1. objects[K].type = fromTypeCode(rs[m].code)
      BY <1>14, <2>1 DEF Mirrors
    <3> QED
      BY <1>9, <2>2, <3>1
  <2>4. new = [type |-> fromTypeCode(s[m].code), attributes |-> new.attributes]
    BY <1>9, <2>3
  <2>5. new.attributes = [b \in {attributeFromTypeCode(s[i].code) : i \in Valued(s, K)} |->
                            Variant(s[Last(Naming(s, K, b))])]
    BY <1>13, <1>20, <2>3
  <2> QED
    BY <1>8, <1>14, <2>1, <2>4, <2>5 DEF Mirrors
<1>22. \A o \in 1..Len(objects') : Mirrors(objects'[o], s, o)
  BY <1>10, <1>11, <1>12, <1>21
<1>23. \E T : objects' \in Seq(T)
  BY <1>11
<1> QED
  BY <1>1, <1>6, <1>8, <1>11, <1>22, <1>23 DEF ObjectInv

\* The properties speak of the same records.
LEMMA SameRecords ==
  ASSUME records \in Seq(Record)
  PROVE  /\ Features = FeaturesIn(records)
         /\ \A o : FeatureOf(o) = Ranked(FeaturesIn(records), o)
         /\ \A o : FeatureOf(o) \in Features => Own(o) = OwnIn(records, o)
<1>1. PICK F : F = FeaturesIn(records)
  OBVIOUS
<1>2. Features = F
  BY <1>1 DEF Features, FeaturesIn
<1>3. PICK N \in Nat : N = Len(records)
  OBVIOUS
<1>4. F \in SUBSET (1..N)
  BY <1>1, <1>3 DEF FeaturesIn
<1>5. ASSUME NEW i \in 1..N
      PROVE  Cardinality(F \cap 1..i) = Rank(F, i)
  <2>1. \A j \in F : j \in 1..i <=> j <= i
    BY <1>4
  <2>2. F \cap 1..i = {j \in F : j <= i}
    BY <2>1
  <2> QED
    BY <2>2 DEF Rank
<1>6. ASSUME NEW o
      PROVE  FeatureOf(o) = Ranked(F, o)
  <2>1. \A i : (i \in F /\ Cardinality(F \cap 1..i) = o) <=> (i \in F /\ Rank(F, i) = o)
    BY <1>4, <1>5
  <2>2. (CHOOSE i : i \in F /\ Cardinality(F \cap 1..i) = o) =
          (CHOOSE i : i \in F /\ Rank(F, i) = o)
    BY <2>1
  <2> QED
    BY <1>2, <2>2 DEF FeatureOf, Ranked
<1>7. ASSUME NEW o, FeatureOf(o) \in Features
      PROVE  Own(o) = OwnIn(records, o)
  <2>1. PICK m \in 1..N : m = FeatureOf(o) /\ m = Ranked(F, o)
    BY <1>2, <1>4, <1>6, <1>7
  <2>2. \A i \in m + 1..N : Cardinality(F \cap 1..i) = Rank(F, i)
    BY <1>5
  <2> QED
    BY <1>1, <1>2, <1>3, <2>1, <2>2 DEF Own, OwnIn
<1> QED
  BY <1>1, <1>2, <1>6, <1>7

\* What the mirrored attributes answer.
LEMMA MirrorsAnswer ==
  ASSUME ObjectInv, NEW o \in 1..Len(objects), NEW row \in AttributeCodes
  PROVE  LET S == {i \in Own(o) : /\ records[i].code = row[1]
                                  /\ records[i].valueType \in {0, 2, 4}}
             last == records[CHOOSE i \in S : \A j \in S : j <= i]
             T == CASE last.valueType = 0 -> "uint32_t" [] last.valueType = 2 -> "float"
                    [] last.valueType = 4 -> "string"
         IN IF S = {} THEN row[2] \notin attributeList(o)
            ELSE /\ row[2] \in attributeList(o)
                 /\ attribute(o, row[2], T) =
                      {IF T = "float" THEN Narrow[last.value] ELSE last.value}
                 /\ \A U \in {"uint32_t", "float", "string"} \ {T} :
                      attribute(o, row[2], U) = {}
<1> DEFINE S == {i \in Own(o) : /\ records[i].code = row[1]
                                /\ records[i].valueType \in {0, 2, 4}}
           last == records[CHOOSE i \in S : \A j \in S : j <= i]
           T == CASE last.valueType = 0 -> "uint32_t" [] last.valueType = 2 -> "float"
                  [] last.valueType = 4 -> "string"
<1>1. PICK N \in Nat : N = Len(records)
  BY DEF ObjectInv
<1>2. Mirrors(objects[o], records, o) /\ records \in Seq(Record)
  BY DEF ObjectInv
<1>3. PICK m \in 1..N : m = Ranked(FeaturesIn(records), o)
  BY <1>1, <1>2 DEF Mirrors, FeaturesIn
<1>4. Own(o) = OwnIn(records, o) /\ \A i \in OwnIn(records, o) : i \in 1..N
  <2>1. FeatureOf(o) \in Features
    BY <1>2, SameRecords DEF Mirrors
  <2>2. Own(o) = OwnIn(records, o)
    BY <1>2, <2>1, SameRecords
  <2>3. \A i \in m + 1..N : i \in 1..N
    BY <1>3
  <2> QED
    BY <1>1, <1>3, <2>2, <2>3 DEF OwnIn
<1>5. DOMAIN Alternative = {0, 2, 4}
  BY DEF Alternative
<1>6. S = Naming(records, o, row[2])
  <2>1. row[2] # "Unknown"
    BY AttributesApart
  <2>2. \A i \in Own(o) : attributeFromTypeCode(records[i].code) = row[2] <=>
                            records[i].code = row[1]
    BY AttributeOfRow
  <2> QED
    BY <1>4, <1>5, <2>1, <2>2 DEF Naming, Valued
<1>7. S \in SUBSET (0..N) /\ S \in SUBSET Nat
  BY <1>4
<1>8. attributeList(o) = {attributeFromTypeCode(records[i].code) : i \in Valued(records, o)}
  BY <1>2 DEF attributeList, Mirrors
<1>9. row[2] \in attributeList(o) <=> S # {}
  BY <1>6, <1>8 DEF Naming
<1>10. ASSUME S # {}
       PROVE  /\ attribute(o, row[2], T) =
                   {IF T = "float" THEN Narrow[last.value] ELSE last.value}
              /\ \A U \in {"uint32_t", "float", "string"} \ {T} : attribute(o, row[2], U) = {}
  <2>1. PICK x \in S : \A y \in S : x >= y
    BY <1>7, <1>10, Greatest
  <2>2. x \in Nat /\ \A y \in S : y <= x /\ y \in Nat
    BY <1>7, <2>1
  <2>3. (CHOOSE i \in S : \A j \in S : j <= i) = x
    <3> HIDE DEF S
    <3>1. Last(S) = x
      BY <1>7, <2>1, <2>2, LastIs
    <3> QED
      BY <3>1 DEF Last
  <2>4. PICK r : r = records[x] /\ r = last
    BY <2>3
  <2>5. r.valueType \in {0, 2, 4}
    BY <2>1, <2>4
  <2>6. objects[o].attributes[row[2]] = Variant(r)
    <3> HIDE DEF S
    <3>1. Last(Naming(records, o, row[2])) = x
      BY <1>6, <2>3 DEF Last
    <3>2. row[2] \in {attributeFromTypeCode(records[i].code) : i \in Valued(records, o)}
      BY <1>8, <1>9, <1>10
    <3> QED
      BY <1>2, <2>4, <3>1, <3>2 DEF Mirrors
  <2>7. PICK v : v = objects[o].attributes[row[2]]
    OBVIOUS
  <2>8. /\ T \in {"uint32_t", "float", "string"} /\ v.type = T
        /\ v.value = IF T = "float" THEN Narrow[last.value] ELSE last.value
    <3> HIDE DEF S, last
    <3> QED
      BY <2>4, <2>5, <2>6, <2>7 DEF Variant, Alternative
  <2> HIDE DEF S, last, T
  <2>9. \A U : attribute(o, row[2], U) = {objects[o].attributes[b].value :
                 b \in {b \in {row[2]} : objects[o].attributes[b].type = U}}
    <3>1. attributeList(o) \cap {row[2]} = {row[2]}
      BY <1>9, <1>10
    <3> QED
      BY <3>1 DEF attribute
  <2>10. attribute(o, row[2], T) = {v.value}
    BY <2>7, <2>8, <2>9
  <2>11. \A U : U # T => attribute(o, row[2], U) = {}
    BY <2>7, <2>8, <2>9
  <2> QED
    BY <2>8, <2>10, <2>11
<1> HIDE DEF S, last, T
<1>11. IF S = {} THEN row[2] \notin attributeList(o)
       ELSE /\ row[2] \in attributeList(o)
            /\ attribute(o, row[2], T) =
                 {IF T = "float" THEN Narrow[last.value] ELSE last.value}
            /\ \A U \in {"uint32_t", "float", "string"} \ {T} : attribute(o, row[2], U) = {}
  BY <1>9, <1>10
<1> QED
  BY <1>11 DEF S, last, T

\* An object lists one attribute for each code its records have.
LEMMA MirrorsCount ==
  ASSUME ObjectInv, NEW o \in 1..Len(objects)
  PROVE  Cardinality(attributeList(o)) =
           Cardinality({records[i].code : i \in
             {j \in Own(o) : /\ \E row \in AttributeCodes : row[1] = records[j].code
                             /\ records[j].valueType \in {0, 2, 4}}})
<1>1. PICK N \in Nat : N = Len(records)
  BY DEF ObjectInv
<1>2. Mirrors(objects[o], records, o) /\ records \in Seq(Record)
  BY DEF ObjectInv
<1>3. PICK m \in 1..N : m = Ranked(FeaturesIn(records), o)
  BY <1>1, <1>2 DEF Mirrors, FeaturesIn
<1>4. Own(o) = OwnIn(records, o)
  <2>1. FeatureOf(o) \in Features
    BY <1>2, SameRecords DEF Mirrors
  <2> QED
    BY <1>2, <2>1, SameRecords
<1>5. PICK V : V = Valued(records, o)
  OBVIOUS
<1>6. IsFiniteSet(V)
  <2>1. V \in SUBSET (1..N)
    <3>1. \A i \in m + 1..N : i \in 1..N
      BY <1>3
    <3> QED
      BY <1>1, <1>3, <1>5, <3>1 DEF Valued, OwnIn
  <2>2. IsFiniteSet(1..N)
    BY FS_Interval
  <2> QED
    BY <2>1, <2>2, FS_Subset
<1>7. {j \in Own(o) : /\ \E row \in AttributeCodes : row[1] = records[j].code
                      /\ records[j].valueType \in {0, 2, 4}} = V
  <2>1. DOMAIN Alternative = {0, 2, 4}
    BY DEF Alternative
  <2>2. \A j \in Own(o) : attributeFromTypeCode(records[j].code) # "Unknown" <=>
                            \E row \in AttributeCodes : row[1] = records[j].code
    BY AttributeOfRow
  <2> QED
    BY <1>4, <1>5, <2>1, <2>2 DEF Valued
<1>8. PICK codes : codes = {records[i].code : i \in V}
  OBVIOUS
<1>9. IsFiniteSet(codes)
  <2>1. PICK g : g = [i \in V |-> records[i].code]
    OBVIOUS
  <2>2. g \in [V -> codes] /\ \A c \in codes : \E i \in V : g[i] = c
    BY <1>8, <2>1
  <2> QED
    BY <1>6, <2>2, FiniteImage
<1>10. attributeList(o) = {attributeFromTypeCode(c) : c \in codes}
  <2>1. attributeList(o) = {attributeFromTypeCode(records[i].code) : i \in V}
    BY <1>2, <1>5 DEF attributeList, Mirrors
  <2> QED
    BY <1>8, <2>1
<1>11. \A c \in codes : \E row \in AttributeCodes : row[1] = c /\ attributeFromTypeCode(c) = row[2]
  <2>1. \A i \in V : attributeFromTypeCode(records[i].code) # "Unknown"
    BY <1>5 DEF Valued
  <2> QED
    BY <1>8, <2>1, AttributeOfRow
<1>12. \A c, d \in codes : attributeFromTypeCode(c) = attributeFromTypeCode(d) => c = d
  BY <1>11, AttributesApart
<1>13. PICK f : f = [c \in codes |-> attributeFromTypeCode(c)]
  OBVIOUS
<1>14. /\ f \in [codes -> attributeList(o)]
       /\ \A t \in attributeList(o) : \E c \in codes : f[c] = t
       /\ \A c, d \in codes : f[c] = f[d] => c = d
  BY <1>10, <1>12, <1>13
<1>15. Cardinality(attributeList(o)) = Cardinality(codes)
  BY <1>9, <1>14, FiniteImage
<1> QED
  BY <1>7, <1>8, <1>15

\* ObjectInv holds in every reachable state.
THEOREM ObjectInvariance == ObjectSpec => []ObjectInv
<1>1. ObjectInit => ObjectInv
  <2> SUFFICES ASSUME ObjectInit
               PROVE  ObjectInv
    OBVIOUS
  <2>1. records = << >> /\ objects = << >>
    BY DEF ObjectInit
  <2>2. FeaturesIn(records) = {} /\ Cardinality(FeaturesIn(records)) = 0
    <3>1. FeaturesIn(records) = {}
      BY <2>1 DEF FeaturesIn
    <3> QED
      BY <3>1, FS_EmptySet
  <2>3. records \in Seq(Record) /\ objects \in Seq({}) /\ Len(objects) = 0
    BY <2>1
  <2> QED
    BY <2>2, <2>3 DEF ObjectInv
<1>2. ObjectInv /\ [ObjectNext]_objectVars => ObjectInv'
  <2> SUFFICES ASSUME ObjectInv, [ObjectNext]_objectVars
               PROVE  ObjectInv'
    OBVIOUS
  <2>1. CASE UNCHANGED objectVars
    BY <2>1 DEF ObjectInv, objectVars
  <2> QED
    BY <2>1, NewObjectKeeps, IgnoreAttributeKeeps, SetAttributeKeeps DEF ObjectNext
<1> QED
  BY <1>1, <1>2, PTL DEF ObjectSpec

\* Whatever records a chart has: an object answers for its own, with the last
\* value of an attribute and by the getter of its type, and no two codes share
\* a type or an attribute (S57::attribute, fromTypeCode, ChartFile::ingest200).
THEOREM ObjectsMirrorRecords == ObjectSpec => []ObjectsAsRecorded
<1>1. ObjectInv => LastValueAnswers
  BY MirrorsAnswer, Zenon DEF LastValueAnswers
<1>2. ObjectInv => CodesKeptApart
  <2> SUFFICES ASSUME ObjectInv
               PROVE  CodesKeptApart
    OBVIOUS
  <2>1. Len(objects) = Cardinality(Features)
    BY SameRecords DEF ObjectInv
  <2>2. ASSUME NEW o \in 1..Len(objects), NEW p \in 1..Len(objects),
               objects[o].type = objects[p].type, objects[o].type # "Unknown"
        PROVE  records[FeatureOf(o)].code = records[FeatureOf(p)].code
    <3>1. ASSUME NEW q \in 1..Len(objects)
          PROVE  objects[q].type = fromTypeCode(records[FeatureOf(q)].code)
      <4>1. Mirrors(objects[q], records, q)
        BY DEF ObjectInv
      <4>2. PICK x, y : /\ objects[q] = [type |-> x, attributes |-> y]
                        /\ x = fromTypeCode(records[Ranked(FeaturesIn(records), q)].code)
        BY <4>1 DEF Mirrors
      <4>3. FeatureOf(q) = Ranked(FeaturesIn(records), q)
        BY SameRecords DEF ObjectInv
      <4> QED
        BY <4>2, <4>3
    <3> QED
      BY <2>2, <3>1, TypeOfCode
  <2> QED
    BY <2>1, <2>2, MirrorsCount DEF CodesKeptApart
<1>3. ObjectInv => ObjectsAsRecorded
  BY <1>1, <1>2 DEF ObjectsAsRecorded
<1> QED
  BY <1>3, ObjectInvariance, PTL
=============================================================================
