----------------------------- MODULE S57Lines_proofs -----------------------------
(***************************************************************************)
(* For objects of any size: elements in order make one line, none is lost, *)
(* rings stay apart; only bridges are drawn twice; and a line is the same, *)
(* backwards, from its other end.                                          *)
(***************************************************************************)
EXTENDS S57Lines, SequenceTheorems, Lemmas

LineString == Seq(Element) \ {<< >>}

\* What is drawn is the line strings, as far as they are drawn.
DrawnAsJoined ==
  \A i \in 1..Len(geometries) :
    geometries[i] = Geometry(lineStrings[i], vectorEdges, connectedNodes)

IInv ==
  /\ LinesTypeOK
  /\ ChainIsOneLine
  /\ ElementsKept
  /\ RunsStayApart
  /\ DrawnTwiceOnlyIfBridging
  /\ DrawnAsJoined

\* What a line string is after an element was put at its end.
LEMMA Lengthened ==
  ASSUME NEW string \in LineString, NEW e \in Element
  PROVE  /\ Append(string, e) \in LineString
         /\ Len(Append(string, e)) = Len(string) + 1
         /\ Append(string, e)[Len(string) + 1] = e
         /\ \A k \in 1..Len(string) : Append(string, e)[k] = string[k]
         /\ Len(string) \in Nat \ {0}
BY DEF LineString

\* Joining an element lengthens the line strings it fits, or starts one.
Lengthens(strings, joined, e) ==
  /\ Len(joined) = Len(strings)
  /\ \E i \in 1..Len(strings) : Fits(strings[i], e)
  /\ \A i \in 1..Len(strings) :
       joined[i] = IF Fits(strings[i], e) THEN Append(strings[i], e) ELSE strings[i]
Starts(strings, joined, e) ==
  /\ Len(joined) = Len(strings) + 1
  /\ joined[Len(strings) + 1] = <<e>>
  /\ \A i \in 1..Len(strings) : joined[i] = strings[i]

\* Join does one or the other.
LEMMA Joined ==
  ASSUME NEW strings \in Seq(LineString), NEW e \in Element
  PROVE  /\ Join(strings, e) \in Seq(LineString)
         /\ \/ Lengthens(strings, Join(strings, e), e)
            \/ Starts(strings, Join(strings, e), e)
<1>1. <<e>> \in LineString
  BY DEF LineString
<1>2. ASSUME NEW i \in 1..Len(strings)
      PROVE  /\ strings[i] \in LineString
             /\ Append(strings[i], e) \in LineString
  BY Lengthened
<1>3. CASE \E i \in 1..Len(strings) : Fits(strings[i], e)
  <2> DEFINE longer(i) ==
        IF Fits(strings[i], e) THEN Append(strings[i], e) ELSE strings[i]
  <2>1. Join(strings, e) = [i \in 1..Len(strings) |-> longer(i)]
    BY <1>3 DEF Join
  <2>2. \A i \in 1..Len(strings) : longer(i) \in LineString
    BY <1>2
  <2> HIDE DEF longer
  <2>3. /\ Join(strings, e) \in Seq(LineString)
        /\ Len(Join(strings, e)) = Len(strings)
        /\ \A i \in 1..Len(strings) : Join(strings, e)[i] = longer(i)
    BY <2>1, <2>2
  <2> QED
    BY <1>3, <2>3 DEF Lengthens, longer
<1>4. CASE ~ \E i \in 1..Len(strings) : Fits(strings[i], e)
  <2>1. Join(strings, e) = Append(strings, <<e>>)
    BY <1>4 DEF Join
  <2> QED
    BY <2>1, <1>1 DEF Starts
<1> QED
  BY <1>3, <1>4

\* ElementsKept, said of one element at a time.
Among(x, string) == \E k \in 1..Len(string) : string[k] = x
InLines(x, strings) == \E i \in 1..Len(strings) : Among(x, strings[i])

\* The elements kept, one by one.
LEMMA KeptElementwise ==
  ASSUME NEW string, NEW strings
  PROVE  {string[k] : k \in 1..Len(string)} =
           UNION {{strings[i][k] : k \in 1..Len(strings[i])} : i \in 1..Len(strings)}
         <=> \A x : Among(x, string) <=> InLines(x, strings)
<1> DEFINE E(s) == {s[k] : k \in 1..Len(s)}
<1>1. \A x, s : x \in E(s) <=> Among(x, s)
  BY DEF Among
<1> HIDE DEF E
<1>2. \A x : x \in UNION {E(strings[i]) : i \in 1..Len(strings)}
                <=> InLines(x, strings)
  BY <1>1 DEF InLines
<1>3. E(string) = UNION {E(strings[i]) : i \in 1..Len(strings)}
        <=> \A x : Among(x, string) <=> InLines(x, strings)
  BY <1>1, <1>2
<1> QED
  BY <1>3 DEF E

\* The same of the next state.
LEMMA KeptAfterStep ==
  ASSUME \A x : Among(x, elements') <=> InLines(x, lineStrings')
  PROVE  ElementsKept'
BY KeptElementwise DEF ElementsKept

\* Where no element was looked at there is no line.
LEMMA NoLines ==
  ASSUME LinesTypeOK, ElementsKept, elements = << >>
  PROVE  lineStrings = << >>
<1> USE DEF LinesTypeOK
<1>1. \A i \in 1..Len(lineStrings) : FALSE
  <2> SUFFICES ASSUME NEW i \in 1..Len(lineStrings)
               PROVE  FALSE
    OBVIOUS
  <2>1. lineStrings[i] \in Seq(Element) \ {<< >>}
    OBVIOUS
  <2>2. Among(lineStrings[i][1], lineStrings[i])
    <3>1. 1 \in 1..Len(lineStrings[i])
      BY <2>1
    <3> QED
      BY <3>1 DEF Among
  <2>3. InLines(lineStrings[i][1], lineStrings)
    BY <2>2 DEF InLines
  <2>4. Among(lineStrings[i][1], elements)
    BY ONLY <2>3, ElementsKept, KeptElementwise DEF ElementsKept
  <2> QED
    BY <2>4 DEF Among
<1> QED
  BY <1>1

\* Elements in order go on with the one line there is.
LEMMA ChainStep ==
  ASSUME LinesTypeOK, ChainIsOneLine, ElementsKept,
         NEW e \in Element, JoinElement(e)
  PROVE  ChainIsOneLine'
<1> SUFFICES ASSUME Chained(elements')
             PROVE  lineStrings' = <<elements'>>
  BY DEF ChainIsOneLine
<1>1. elements' = Append(elements, e) /\ lineStrings' = Join(lineStrings, e)
  BY DEF JoinElement
<1>2. CASE elements = << >>
  <2>1. lineStrings = << >>
    BY <1>2, NoLines
  <2>2. \A i \in 1..Len(lineStrings) : FALSE
    BY <2>1
  <2>3. lineStrings' = Append(<< >>, <<e>>)
    BY <1>1, <2>1, <2>2 DEF Join
  <2> QED
    BY <1>1, <1>2, <2>3
<1>3. CASE elements # << >>
  <2>1. Len(elements) \in Nat \ {0} /\ elements \in Seq(Element)
    BY <1>3 DEF LinesTypeOK
  <2>2. /\ Len(elements') = Len(elements) + 1
        /\ elements'[Len(elements) + 1] = e
        /\ \A k \in 1..Len(elements) : elements'[k] = elements[k]
    BY <1>1, <2>1
  <2>3. Chained(elements)
    <3>1. ASSUME NEW k \in 2..Len(elements)
          PROVE  /\ k \in 2..Len(elements')
                 /\ elements'[k] = elements[k]
                 /\ elements'[k - 1] = elements[k - 1]
      BY <2>1, <2>2
    <3> QED
      BY <3>1 DEF Chained
  <2>4. lineStrings = <<elements>>
    BY <1>3, <2>3 DEF ChainIsOneLine
  <2>5. Fits(elements, e)
    <3>1. Len(elements) + 1 \in 2..Len(elements')
      BY <2>1, <2>2
    <3>2. elements'[Len(elements) + 1].startConnectedNode =
            elements'[Len(elements)].endConnectedNode
      BY <2>1, <3>1 DEF Chained
    <3> QED
      BY <2>1, <2>2, <3>2 DEF Fits, Continues
  <2>6. Len(lineStrings) = 1 /\ lineStrings[1] = elements
    BY <2>4
  <2>7. lineStrings' = [i \in 1..1 |->
                         IF Fits(lineStrings[i], e) THEN Append(lineStrings[i], e)
                         ELSE lineStrings[i]]
    BY <1>1, <2>5, <2>6 DEF Join
  <2>8. lineStrings' = [i \in 1..1 |-> elements']
    BY <1>1, <2>5, <2>6, <2>7
  <2> QED
    BY <2>8
<1> QED
  BY <1>2, <1>3

\* The element joined is in some line string, and no other one comes or goes.
LEMMA KeptStep ==
  ASSUME LinesTypeOK, ElementsKept, NEW e \in Element, JoinElement(e)
  PROVE  ElementsKept'
<1>1. elements' = Append(elements, e) /\ lineStrings' = Join(lineStrings, e)
  BY DEF JoinElement
<1>2. lineStrings \in Seq(LineString)
  BY DEF LinesTypeOK, LineString
<1>3. \A i \in 1..Len(lineStrings) : lineStrings[i] \in LineString
  BY <1>2
<1>4. \A x : InLines(x, lineStrings') <=> InLines(x, lineStrings) \/ x = e
  <2>1. CASE Lengthens(lineStrings, lineStrings', e)
    <3>1. ASSUME NEW i \in 1..Len(lineStrings), NEW x
          PROVE  Among(x, lineStrings'[i])
                   <=> \/ Among(x, lineStrings[i])
                       \/ Fits(lineStrings[i], e) /\ x = e
      <4>1. CASE Fits(lineStrings[i], e)
        <5>1. lineStrings'[i] = Append(lineStrings[i], e)
          BY <2>1, <4>1 DEF Lengthens
        <5>2. /\ Len(Append(lineStrings[i], e)) = Len(lineStrings[i]) + 1
              /\ Append(lineStrings[i], e)[Len(lineStrings[i]) + 1] = e
              /\ \A k \in 1..Len(lineStrings[i]) :
                   Append(lineStrings[i], e)[k] = lineStrings[i][k]
              /\ Len(lineStrings[i]) \in Nat
          BY <1>3, Lengthened
        <5> QED
          BY <4>1, <5>1, <5>2 DEF Among
      <4>2. CASE ~Fits(lineStrings[i], e)
        BY <2>1, <4>2 DEF Lengthens
      <4> QED
        BY <4>1, <4>2
    <3>2. /\ Len(lineStrings') = Len(lineStrings)
          /\ \E i \in 1..Len(lineStrings) : Fits(lineStrings[i], e)
      BY <2>1 DEF Lengthens
    <3> TAKE x
    <3>3. ASSUME InLines(x, lineStrings')
          PROVE  InLines(x, lineStrings) \/ x = e
      BY <3>1, <3>2, <3>3 DEF InLines
    <3>4. ASSUME InLines(x, lineStrings)
          PROVE  InLines(x, lineStrings')
      BY <3>1, <3>2, <3>4 DEF InLines
    <3>5. ASSUME x = e
          PROVE  InLines(x, lineStrings')
      BY <3>1, <3>2, <3>5 DEF InLines
    <3> QED
      BY <3>3, <3>4, <3>5
  <2>2. CASE Starts(lineStrings, lineStrings', e)
    <3>1. /\ Len(lineStrings) \in Nat
          /\ Len(lineStrings') = Len(lineStrings) + 1
          /\ lineStrings'[Len(lineStrings) + 1] = <<e>>
          /\ \A i \in 1..Len(lineStrings) : lineStrings'[i] = lineStrings[i]
      BY <1>2, <2>2 DEF Starts
    <3>2. \A x : Among(x, <<e>>) <=> x = e
      BY DEF Among
    <3>3. \A i : i \in 1..Len(lineStrings') <=>
                   i \in 1..Len(lineStrings) \/ i = Len(lineStrings) + 1
      BY <3>1
    <3> QED
      BY <3>1, <3>2, <3>3 DEF InLines
  <2> QED
    BY <1>1, <1>2, <2>1, <2>2, Joined
<1>5. \A x : Among(x, elements') <=> Among(x, elements) \/ x = e
  <2>1. elements \in Seq(Element)
    BY DEF LinesTypeOK
  <2>2. PICK n \in Nat : n = Len(elements)
    BY <2>1
  <2>3. /\ Len(elements') = n + 1 /\ elements'[n + 1] = e
        /\ \A k \in 1..n : elements'[k] = elements[k]
    BY <1>1, <2>1, <2>2
  <2>4. \A k : k \in 1..n + 1 <=> k \in 1..n \/ k = n + 1
    OBVIOUS
  <2> QED
    BY ONLY <2>2, <2>3, <2>4 DEF Among
<1>6. \A x : Among(x, elements) <=> InLines(x, lineStrings)
  BY KeptElementwise DEF ElementsKept
<1>7. \A x : Among(x, elements') <=> InLines(x, lineStrings')
  BY <1>4, <1>5, <1>6
<1> QED
  BY <1>7, KeptAfterStep

\* The nodes of an element that was not there before.
LEMMA NewNodes ==
  ASSUME LinesTypeOK, NEW e \in Element, JoinElement(e), SimplePaths'
  PROVE  /\ SimplePaths
         /\ \A x : Among(x, elements) =>
              /\ e.startConnectedNode # x.startConnectedNode
              /\ e.endConnectedNode # x.endConnectedNode
         /\ \A x, y : Among(x, elements) /\ Among(y, elements)
                      /\ x.endConnectedNode = y.endConnectedNode => x = y
<1>1. PICK n \in Nat : n = Len(elements)
  BY DEF LinesTypeOK
<1>2. /\ Len(elements') = n + 1 /\ elements'[n + 1] = e
      /\ \A k \in 1..n : elements'[k] = elements[k]
  BY <1>1 DEF LinesTypeOK, JoinElement
<1>3. \A i, j \in 1..n + 1 : i # j =>
        /\ elements'[i].startConnectedNode # elements'[j].startConnectedNode
        /\ elements'[i].endConnectedNode # elements'[j].endConnectedNode
  BY <1>2 DEF SimplePaths
<1>4. \A k \in 1..n : k \in 1..n + 1 /\ k # n + 1 /\ n + 1 \in 1..n + 1
  OBVIOUS
<1>5. \A i, j \in 1..n : i # j =>
        /\ elements[i].startConnectedNode # elements[j].startConnectedNode
        /\ elements[i].endConnectedNode # elements[j].endConnectedNode
  BY <1>2, <1>3, <1>4
<1>6. \A i \in 1..n : /\ e.startConnectedNode # elements[i].startConnectedNode
                      /\ e.endConnectedNode # elements[i].endConnectedNode
  BY <1>2, <1>3, <1>4
<1> QED
  BY <1>1, <1>5, <1>6 DEF SimplePaths, Among

\* What line string i' holds at k: what it held, or at its end the element.
LEMMA HeldAfterJoin ==
  ASSUME LinesTypeOK, NEW e \in Element, JoinElement(e),
         NEW i \in 1..Len(lineStrings'), NEW k \in 1..Len(lineStrings'[i])
  PROVE  \/ /\ i \in 1..Len(lineStrings) /\ k \in 1..Len(lineStrings[i])
            /\ lineStrings'[i][k] = lineStrings[i][k]
            /\ lineStrings'[i][1] = lineStrings[i][1]
         \/ /\ i \in 1..Len(lineStrings) /\ Fits(lineStrings[i], e)
            /\ lineStrings'[i][k] = e
            /\ lineStrings'[i][1] = lineStrings[i][1]
         \/ i = Len(lineStrings) + 1 /\ lineStrings'[i][k] = e
<1>1. lineStrings' = Join(lineStrings, e) /\ lineStrings \in Seq(LineString)
  BY DEF JoinElement, LinesTypeOK, LineString
<1>2. Lengthens(lineStrings, lineStrings', e) \/ Starts(lineStrings, lineStrings', e)
  BY <1>1, Joined
<1>3. ASSUME NEW j \in 1..Len(lineStrings)
      PROVE  /\ lineStrings[j] \in LineString
             /\ 1 \in 1..Len(lineStrings[j])
  BY <1>1 DEF LineString
<1>4. CASE i \in 1..Len(lineStrings) /\ lineStrings'[i] = lineStrings[i]
  BY <1>4
<1>5. CASE /\ i \in 1..Len(lineStrings) /\ Fits(lineStrings[i], e)
           /\ lineStrings'[i] = Append(lineStrings[i], e)
  <2>1. /\ Len(lineStrings'[i]) = Len(lineStrings[i]) + 1
        /\ lineStrings'[i][Len(lineStrings[i]) + 1] = e
        /\ \A l \in 1..Len(lineStrings[i]) : lineStrings'[i][l] = lineStrings[i][l]
        /\ Len(lineStrings[i]) \in Nat \ {0}
    BY <1>3, <1>5, Lengthened
  <2>2. k \in 1..Len(lineStrings[i]) \/ k = Len(lineStrings[i]) + 1
    BY <2>1
  <2> QED
    BY <1>3, <1>5, <2>1, <2>2
<1>6. CASE i = Len(lineStrings) + 1 /\ lineStrings'[i] = <<e>>
  BY <1>6
<1>7. \/ i \in 1..Len(lineStrings)
      \/ Starts(lineStrings, lineStrings', e) /\ i = Len(lineStrings) + 1
  BY <1>1, <1>2 DEF Lengthens, Starts
<1> QED
  BY <1>2, <1>4, <1>5, <1>6, <1>7 DEF Lengthens, Starts

\* An element drawn twice connects two lines.
LEMMA BridgingStep ==
  ASSUME LinesTypeOK, ElementsKept, DrawnTwiceOnlyIfBridging,
         NEW e \in Element, JoinElement(e)
  PROVE  DrawnTwiceOnlyIfBridging'
<1> SUFFICES ASSUME SimplePaths',
                    NEW i \in 1..Len(lineStrings'), NEW j \in 1..Len(lineStrings'),
                    NEW k \in 1..Len(lineStrings'[i]), NEW l \in 1..Len(lineStrings'[j]),
                    i < j, lineStrings'[i][k] = lineStrings'[j][l]
             PROVE  \/ LeadsInto(lineStrings'[i], lineStrings'[i][k])
                    \/ LeadsInto(lineStrings'[j], lineStrings'[i][k])
  BY DEF DrawnTwiceOnlyIfBridging
<1>1. SimplePaths
  BY NewNodes
<1>2. ASSUME NEW m \in 1..Len(lineStrings), NEW o \in 1..Len(lineStrings[m])
      PROVE  Among(lineStrings[m][o], elements)
  <2>1. InLines(lineStrings[m][o], lineStrings)
    BY DEF InLines, Among
  <2> QED
    BY <2>1, KeptElementwise DEF ElementsKept
<1>3. ASSUME NEW m \in 1..Len(lineStrings)
      PROVE  1 \in 1..Len(lineStrings[m]) /\ Len(lineStrings[m]) \in 1..Len(lineStrings[m])
  BY DEF LinesTypeOK
<1>4. ~Among(e, elements)
  BY NewNodes
<1>5. /\ Len(lineStrings) \in Nat /\ Len(lineStrings') \in Nat
      /\ Len(lineStrings') <= Len(lineStrings) + 1
  <2>1. lineStrings' = Join(lineStrings, e) /\ lineStrings \in Seq(LineString)
    BY DEF JoinElement, LinesTypeOK, LineString
  <2>2. Lengthens(lineStrings, lineStrings', e) \/ Starts(lineStrings, lineStrings', e)
    BY <2>1, Joined
  <2> QED
    BY <2>1, <2>2 DEF Lengthens, Starts
<1>6. i \in 1..Len(lineStrings)
  BY <1>5
<1>7. /\ lineStrings'[i][1] = lineStrings[i][1]
      /\ \/ k \in 1..Len(lineStrings[i]) /\ lineStrings'[i][k] = lineStrings[i][k]
         \/ Fits(lineStrings[i], e) /\ lineStrings'[i][k] = e
  BY <1>5, <1>6, HeldAfterJoin
<1>8. CASE k \in 1..Len(lineStrings[i]) /\ lineStrings'[i][k] = lineStrings[i][k]
  <2>1. lineStrings'[j][l] # e
    BY <1>2, <1>4, <1>6, <1>8
  <2>2. /\ j \in 1..Len(lineStrings) /\ l \in 1..Len(lineStrings[j])
        /\ lineStrings'[j][l] = lineStrings[j][l]
        /\ lineStrings'[j][1] = lineStrings[j][1]
    BY <2>1, HeldAfterJoin
  <2>3. \/ LeadsInto(lineStrings[i], lineStrings[i][k])
        \/ LeadsInto(lineStrings[j], lineStrings[i][k])
    BY <1>1, <1>6, <1>8, <2>2 DEF DrawnTwiceOnlyIfBridging
  <2> QED
    BY <1>7, <1>8, <2>2, <2>3 DEF LeadsInto
<1>9. CASE Fits(lineStrings[i], e) /\ lineStrings'[i][k] = e
  <2>1. \/ /\ j \in 1..Len(lineStrings) /\ Fits(lineStrings[j], e)
           /\ lineStrings'[j][1] = lineStrings[j][1]
        \/ j = Len(lineStrings) + 1
    <3>1. lineStrings'[j][l] = e
      BY <1>9
    <3>2. ~(j \in 1..Len(lineStrings) /\ l \in 1..Len(lineStrings[j])
            /\ lineStrings'[j][l] = lineStrings[j][l])
      BY <1>2, <1>4, <3>1
    <3> QED
      BY <3>2, HeldAfterJoin
  <2>2. j \in 1..Len(lineStrings)
    \* A string was lengthened, so none was started.
    <3>1. lineStrings' = Join(lineStrings, e) /\ lineStrings \in Seq(LineString)
      BY DEF JoinElement, LinesTypeOK, LineString
    <3>2. Len(lineStrings') = Len(lineStrings)
      BY <1>6, <1>9, <3>1 DEF Join
    <3> QED
      BY <3>2
  <2>3. CASE LeadsInto(lineStrings[i], e) \/ LeadsInto(lineStrings[j], e)
    BY <1>5, <1>7, <1>9, <2>1, <2>2, <2>3 DEF LeadsInto
  <2>4. CASE ~LeadsInto(lineStrings[i], e) /\ ~LeadsInto(lineStrings[j], e)
    <3>1. Continues(lineStrings[i], e) /\ Continues(lineStrings[j], e)
      BY <1>5, <1>9, <2>1, <2>2, <2>4 DEF Fits
    <3>2. PICK x, y : x = lineStrings[i][Len(lineStrings[i])]
                      /\ y = lineStrings[j][Len(lineStrings[j])]
      OBVIOUS
    <3>3. Among(x, elements) /\ Among(y, elements)
      BY <1>2, <1>3, <1>6, <2>2, <3>2
    <3>4. x.endConnectedNode = e.startConnectedNode
          /\ y.endConnectedNode = e.startConnectedNode
      BY <3>1, <3>2 DEF Continues
    <3>5. x = y
      BY <3>3, <3>4, NewNodes
    <3>6. LeadsInto(lineStrings[i], x) \/ LeadsInto(lineStrings[j], x)
      BY <1>1, <1>3, <1>6, <2>2, <3>2, <3>5 DEF DrawnTwiceOnlyIfBridging
    <3>7. \E m \in 1..Len(lineStrings) :
            e.startConnectedNode = lineStrings[m][1].startConnectedNode
      BY <1>6, <2>2, <3>4, <3>6 DEF LeadsInto
    <3> QED
      BY <1>2, <1>3, <3>7, NewNodes
  <2> QED
    BY <2>3, <2>4
<1> QED
  BY <1>7, <1>8, <1>9

\* A piece of a sequence, when the sequence is lengthened behind it.
LEMMA PieceKept ==
  ASSUME NEW S, NEW s \in Seq(S), NEW t \in Seq(S), NEW a \in Nat \ {0}, NEW b \in Int,
         b <= Len(s), Len(s) <= Len(t), \A k \in 1..Len(s) : t[k] = s[k]
  PROVE  SubSeq(t, a, b) = SubSeq(s, a, b)
<1>1. \A k \in a..b : s[k] \in S /\ t[k] \in S /\ t[k] = s[k]
  OBVIOUS
<1>2. /\ SubSeq(s, a, b) \in Seq(S)
      /\ Len(SubSeq(s, a, b)) = IF a <= b THEN b - a + 1 ELSE 0
      /\ \A i \in 1..b - a + 1 : SubSeq(s, a, b)[i] = s[a + i - 1]
  BY ONLY <1>1, SubSeqProperties, a \in Int, b \in Int
<1>3. /\ SubSeq(t, a, b) \in Seq(S)
      /\ Len(SubSeq(t, a, b)) = IF a <= b THEN b - a + 1 ELSE 0
      /\ \A i \in 1..b - a + 1 : SubSeq(t, a, b)[i] = t[a + i - 1]
  BY ONLY <1>1, SubSeqProperties, a \in Int, b \in Int
<1>4. \A i \in 1..Len(SubSeq(t, a, b)) : i \in 1..b - a + 1 /\ a + i - 1 \in a..b
  BY <1>3
<1>5. \A i \in 1..Len(SubSeq(t, a, b)) : SubSeq(t, a, b)[i] = SubSeq(s, a, b)[i]
  BY <1>1, <1>2, <1>3, <1>4
<1> QED
  BY ONLY <1>2, <1>3, <1>5, SeqEqual

\* A piece up to the end, when an element is put behind it.
LEMMA PieceLengthened ==
  ASSUME NEW S, NEW s \in Seq(S), NEW t \in Seq(S), NEW N \in Nat, N = Len(s),
         Len(t) = N + 1, \A k \in 1..N : t[k] = s[k], NEW a \in 1..N + 1
  PROVE  /\ SubSeq(t, a, N + 1) = Append(SubSeq(s, a, N), t[N + 1])
         /\ SubSeq(s, a, N) \in Seq(S)
         /\ Len(SubSeq(s, a, N)) = N - a + 1
         /\ a <= N => SubSeq(s, a, N)[N - a + 1] = s[N]
<1>1. /\ \A k \in a..N : s[k] \in S /\ t[k] = s[k]
      /\ \A k \in a..N + 1 : t[k] \in S
      /\ a \in Int /\ N \in Int /\ N + 1 \in Int
  OBVIOUS
<1>2. /\ SubSeq(s, a, N) \in Seq(S)
      /\ Len(SubSeq(s, a, N)) = N - a + 1
      /\ \A i \in 1..N - a + 1 : SubSeq(s, a, N)[i] = s[a + i - 1]
  <2>1. /\ SubSeq(s, a, N) \in Seq(S)
        /\ Len(SubSeq(s, a, N)) = IF a <= N THEN N - a + 1 ELSE 0
        /\ \A i \in 1..N - a + 1 : SubSeq(s, a, N)[i] = s[a + i - 1]
    BY ONLY <1>1, SubSeqProperties
  <2>2. a <= N \/ N - a + 1 = 0
    OBVIOUS
  <2> QED
    BY <2>1, <2>2
<1>3. PICK n \in Int : n = N + 1
  OBVIOUS
<1>4. /\ SubSeq(t, a, n) \in Seq(S)
      /\ Len(SubSeq(t, a, n)) = IF a <= n THEN n - a + 1 ELSE 0
      /\ \A i \in 1..n - a + 1 : SubSeq(t, a, n)[i] = t[a + i - 1]
  BY ONLY <1>1, <1>3, SubSeqProperties
<1>5. PICK u : u = Append(SubSeq(s, a, N), t[N + 1])
  OBVIOUS
<1>6. /\ u \in Seq(S)
      /\ Len(u) = N - a + 2
      /\ u[N - a + 2] = t[N + 1]
      /\ \A i \in 1..N - a + 1 : u[i] = SubSeq(s, a, N)[i]
  <2>1. t[N + 1] \in S /\ (N - a + 1) + 1 = N - a + 2
    BY <1>1
  <2> QED
    BY ONLY <1>2, <1>5, <2>1
<1>7. Len(SubSeq(t, a, n)) = N - a + 2
  BY <1>3, <1>4
<1>8. ASSUME NEW i \in 1..N - a + 2
      PROVE  SubSeq(t, a, n)[i] = u[i]
  <2>1. SubSeq(t, a, n)[i] = t[a + i - 1]
    <3>1. i \in 1..n - a + 1
      BY <1>3
    <3> QED
      BY <3>1, <1>4
  <2>2. CASE i = N - a + 2
    <3>1. a + i - 1 = N + 1
      BY <2>2
    <3> QED
      BY <1>6, <2>1, <2>2, <3>1
  <2>3. CASE i \in 1..N - a + 1
    <3>1. a + i - 1 \in a..N
      BY <2>3
    <3> QED
      BY <1>1, <1>2, <1>6, <2>1, <2>3, <3>1
  <2>4. i \in 1..N - a + 1 \/ i = N - a + 2
    OBVIOUS
  <2> QED
    BY <2>2, <2>3, <2>4
<1>9. SubSeq(t, a, n) = u
  BY ONLY <1>4, <1>6, <1>7, <1>8, SeqEqual
<1>10. a <= N => SubSeq(s, a, N)[N - a + 1] = s[N]
  <2> HAVE a <= N
  <2>1. N - a + 1 \in 1..N - a + 1 /\ a + (N - a + 1) - 1 = N
    OBVIOUS
  <2> QED
    BY <1>2, <2>1
<1> QED
  BY <1>2, <1>3, <1>5, <1>9, <1>10

\* The runs of s that begin at the places F.
Run(s, F, i) ==
  SubSeq(s, Ranked(F, i), IF i = Cardinality(F) THEN Len(s) ELSE Ranked(F, i + 1) - 1)

\* Runs are those of elements that begin at Begins.
LEMMA RunsNow ==
  ASSUME LinesTypeOK
  PROVE  /\ Begins \in SUBSET (1..Len(elements)) /\ Cardinality(Begins) \in Nat
         /\ Runs = [i \in 1..Cardinality(Begins) |-> Run(elements, Begins, i)]
<1>1. \A i : Begin(i) = Ranked(Begins, i)
  BY DEF Begin, Ranked, Rank
<1>2. PICK n : n = Cardinality(Begins)
  OBVIOUS
<1>3. Begins \in SUBSET (1..Len(elements)) /\ n \in Nat
  <2>1. IsFiniteSet(1..Len(elements)) /\ Begins \subseteq 1..Len(elements)
    BY FS_Interval DEF Begins, LinesTypeOK
  <2> QED
    BY <1>2, <2>1, FS_Subset, FS_CardinalityType
<1>4. Runs = [i \in 1..n |-> Run(elements, Begins, i)]
  <2>1. \A i : SubSeq(elements, Begin(i),
                     IF i = n THEN Len(elements) ELSE Begin(i + 1) - 1)
              = Run(elements, Begins, i)
    BY <1>1, <1>2 DEF Run
  <2> QED
    BY <1>2, <2>1 DEF Runs
<1> QED
  BY <1>2, <1>3, <1>4

\* The same of the next state.
LEMMA RunsNext ==
  ASSUME LinesTypeOK'
  PROVE  /\ Begins' \in SUBSET (1..Len(elements')) /\ Cardinality(Begins') \in Nat
         /\ Runs' = [i \in 1..Cardinality(Begins') |-> Run(elements', Begins', i)]
<1>1. \A i : Begin(i)' = Ranked(Begins', i)
  BY DEF Begin, Ranked, Rank
<1>2. PICK n : n = Cardinality(Begins')
  OBVIOUS
<1>3. Begins' \in SUBSET (1..Len(elements')) /\ n \in Nat
  <2>1. IsFiniteSet(1..Len(elements')) /\ Begins' \subseteq 1..Len(elements')
    BY FS_Interval DEF Begins, LinesTypeOK
  <2> QED
    BY <1>2, <2>1, FS_Subset, FS_CardinalityType
<1>4. Runs' = [i \in 1..n |-> Run(elements', Begins', i)]
  <2>1. \A i : SubSeq(elements', Begin(i)',
                     IF i = n THEN Len(elements') ELSE Begin(i + 1)' - 1)
              = Run(elements', Begins', i)
    BY <1>1, <1>2 DEF Run
  <2> QED
    BY <1>2, <2>1 DEF Runs
<1> QED
  BY <1>2, <1>3, <1>4

\* t is s with one more element.
OneMore(s, t, N) == Len(s) = N /\ Len(t) = N + 1 /\ \A k \in 1..N : t[k] = s[k]

\* An element that continues the last run is put at its end.
LEMMA RunGoesOn ==
  ASSUME NEW S, NEW s \in Seq(S), NEW t \in Seq(S), NEW N \in Nat, OneMore(s, t, N),
         NEW F \in SUBSET (1..N), NEW n \in Nat \ {0}, n = Cardinality(F)
  PROVE  /\ \A i \in 1..n - 1 : Run(t, F, i) = Run(s, F, i)
         /\ Run(t, F, n) = Append(Run(s, F, n), t[N + 1])
         /\ Run(s, F, n) \in Seq(S) /\ Len(Run(s, F, n)) \in Nat \ {0}
         /\ Run(s, F, n)[Len(Run(s, F, n))] = s[N]
<1>0. N = Len(s) /\ Len(t) = N + 1 /\ \A k \in 1..N : t[k] = s[k]
  BY DEF OneMore
<1>1. \A i \in 1..n : Ranked(F, i) \in 1..N
  BY MemberRanked
<1>2. ASSUME NEW i \in 1..n - 1
      PROVE  Run(t, F, i) = Run(s, F, i)
  <2>1. PICK a, b : a = Ranked(F, i) /\ b = Ranked(F, i + 1) - 1
    OBVIOUS
  <2>2. i # n /\ i \in 1..n /\ i + 1 \in 1..n
    OBVIOUS
  <2>3. a \in Nat \ {0} /\ b \in Int /\ b <= N /\ N <= Len(t)
    BY <1>0, <1>1, <2>1, <2>2
  <2>4. SubSeq(t, a, b) = SubSeq(s, a, b)
    BY <1>0, <2>3, PieceKept
  <2> QED
    BY <2>1, <2>2, <2>4 DEF Run
<1>3. PICK a : a = Ranked(F, n)
  OBVIOUS
<1>4. a \in 1..N
  BY <1>1, <1>3
<1>5. Run(t, F, n) = SubSeq(t, a, N + 1) /\ Run(s, F, n) = SubSeq(s, a, N)
  BY <1>0, <1>3 DEF Run
<1>6. /\ SubSeq(t, a, N + 1) = Append(SubSeq(s, a, N), t[N + 1])
      /\ SubSeq(s, a, N) \in Seq(S)
      /\ Len(SubSeq(s, a, N)) = N - a + 1
      /\ SubSeq(s, a, N)[N - a + 1] = s[N]
  <2>1. a \in 1..N + 1 /\ a <= N
    BY <1>4
  <2> QED
    BY <1>0, <2>1, PieceLengthened
<1>7. N - a + 1 \in Nat \ {0}
  BY <1>4
<1> QED
  BY <1>2, <1>5, <1>6, <1>7

\* The runs of t that begin at G are those of s that begin at F and one more.
OneMoreRun(s, t, N, F, G, n) ==
  /\ Cardinality(G) = n + 1
  /\ \A i \in 1..n : Run(t, G, i) = Run(s, F, i)
  /\ Run(t, G, n + 1) = <<t[N + 1]>>

\* An element that does not begins a run of its own.
LEMMA RunBegins ==
  ASSUME NEW S, NEW s \in Seq(S), NEW t \in Seq(S), NEW N \in Nat, OneMore(s, t, N),
         NEW F \in SUBSET (1..N), NEW n \in Nat, n = Cardinality(F),
         NEW G, G = F \cup {N + 1}
  PROVE  OneMoreRun(s, t, N, F, G, n)
<1>0. N = Len(s) /\ Len(t) = N + 1 /\ \A k \in 1..N : t[k] = s[k]
  BY DEF OneMore
<1>1. \A i \in 1..n : Ranked(F, i) \in 1..N
  BY MemberRanked
<1>2. PICK m \in Nat : m = N + 1
  OBVIOUS
<1>3. G = F \cup {m}
  BY <1>2
<1>4. /\ Cardinality(G) = n + 1
      /\ \A i \in 1..n : Ranked(G, i) = Ranked(F, i)
      /\ Ranked(G, n + 1) = m
  <2>1. m > N
    BY <1>2
  <2>2. /\ IsFiniteSet(F) /\ Cardinality(F) \in Nat
        /\ Cardinality(F \cup {m}) = Cardinality(F) + 1
        /\ \A k \in 1..Cardinality(F) : Ranked(F \cup {m}, k) = Ranked(F, k)
        /\ Ranked(F \cup {m}, Cardinality(F) + 1) = m
    BY ONLY <2>1, OneRanked, m \in Nat, N \in Nat, F \in SUBSET (1..N)
  <2> QED
    BY <1>3, <2>2
<1>5. ASSUME NEW i \in 1..n
      PROVE  Run(t, G, i) = Run(s, F, i)
  <2>1. PICK a : a = Ranked(F, i)
    OBVIOUS
  <2>2. PICK b : b = (IF i = n THEN N ELSE Ranked(F, i + 1) - 1)
    OBVIOUS
  <2>3. a \in Nat \ {0} /\ b \in Int /\ b <= N /\ N <= Len(t)
    <3>1. i = n \/ i + 1 \in 1..n
      OBVIOUS
    <3> QED
      BY <1>0, <1>1, <2>1, <2>2, <3>1
  <2>4. Run(t, G, i) = SubSeq(t, a, b)
    <3>1. i # n + 1 /\ Ranked(G, i) = a
      <4>1. i # n + 1
        OBVIOUS
      <4> QED
        BY ONLY <1>4, <2>1, <4>1, i \in 1..n
    <3>2. Ranked(G, i + 1) - 1 = b
      <4>1. CASE i = n
        BY <1>2, <1>4, <2>2, <4>1
      <4>2. CASE i # n
        <5>1. i + 1 \in 1..n
          BY <4>2
        <5> QED
          BY <1>4, <2>2, <4>2, <5>1
      <4> QED
        BY <4>1, <4>2
    <3> QED
      BY <1>4, <3>1, <3>2 DEF Run
  <2>5. Run(s, F, i) = SubSeq(s, a, b)
    BY <1>0, <2>1, <2>2 DEF Run
  <2>6. SubSeq(t, a, b) = SubSeq(s, a, b)
    BY <1>0, <2>3, PieceKept
  <2> QED
    BY <2>4, <2>5, <2>6
<1>6. Run(t, G, n + 1) = <<t[m]>>
  <2>1. Run(t, G, n + 1) = SubSeq(t, m, m)
    BY <1>0, <1>2, <1>4 DEF Run
  <2>2. /\ SubSeq(t, m, m) \in Seq(S) /\ Len(SubSeq(t, m, m)) = 1
        /\ SubSeq(t, m, m)[1] = t[m]
    <3>1. \A k \in m..m : t[k] \in S
      BY <1>0, <1>2
    <3>2. /\ SubSeq(t, m, m) \in Seq(S)
          /\ Len(SubSeq(t, m, m)) = IF m <= m THEN m - m + 1 ELSE 0
          /\ \A i \in 1..m - m + 1 : SubSeq(t, m, m)[i] = t[m + i - 1]
      BY ONLY <3>1, SubSeqProperties, m \in Int
    <3>3. m - m + 1 = 1 /\ m + 1 - 1 = m /\ m <= m /\ 1 \in 1..1
      OBVIOUS
    <3> QED
      BY <3>2, <3>3
  <2>3. SubSeq(t, m, m) = <<t[m]>>
    <3>1. PICK u, x : u = SubSeq(t, m, m) /\ x = t[m]
      OBVIOUS
    <3>2. u \in Seq(S) /\ Len(u) = 1 /\ u[1] = x
      BY <2>2, <3>1
    <3>3. x \in S
      BY <1>0, <1>2, <3>1
    <3>4. <<x>> \in Seq(S) /\ Len(<<x>>) = 1 /\ <<x>>[1] = x
      BY <3>3
    <3>5. \A i \in 1..1 : i = 1
      OBVIOUS
    <3>6. u = <<x>>
      BY ONLY <3>2, <3>4, <3>5, SeqEqual
    <3> QED
      BY <3>1, <3>6
  <2> QED
    BY <2>1, <2>3
<1> QED
  BY <1>2, <1>3, <1>4, <1>5, <1>6 DEF OneMoreRun

\* What a string's nodes are, and that a longer string has them too.
LEMMA NodesGrow ==
  ASSUME NEW string \in LineString, NEW e \in Element
  PROVE  /\ NodesOf(string) \subseteq NodesOf(Append(string, e))
         /\ e.startConnectedNode \in NodesOf(Append(string, e))
         /\ e.endConnectedNode \in NodesOf(Append(string, e))
         /\ NodesOf(string) # {}
         /\ Fits(string, e) => \/ e.startConnectedNode \in NodesOf(string)
                              \/ e.endConnectedNode \in NodesOf(string)
<1>1. PICK n, t : n = Len(string) /\ t = Append(string, e)
  OBVIOUS
<1>2. /\ Len(t) = n + 1 /\ t[n + 1] = e /\ n \in Nat \ {0}
      /\ \A k \in 1..n : t[k] = string[k]
  BY <1>1, Lengthened
<1>3. /\ n + 1 \in 1..n + 1 /\ 1 \in 1..n /\ n \in 1..n
      /\ \A k \in 1..n : k \in 1..n + 1
  BY <1>2
<1>4. \A k \in 1..n : /\ string[k].startConnectedNode \in NodesOf(string)
                      /\ string[k].endConnectedNode \in NodesOf(string)
  BY <1>1 DEF NodesOf
<1>5. \A k \in 1..n + 1 : /\ t[k].startConnectedNode \in NodesOf(t)
                          /\ t[k].endConnectedNode \in NodesOf(t)
  BY <1>2 DEF NodesOf
<1>6. NodesOf(string) \subseteq NodesOf(t)
  <2> SUFFICES ASSUME NEW v \in NodesOf(string)
               PROVE  v \in NodesOf(t)
    OBVIOUS
  <2>1. PICK k \in 1..n : \/ v = string[k].startConnectedNode
                          \/ v = string[k].endConnectedNode
    BY <1>1 DEF NodesOf
  <2> QED
    BY <1>2, <1>3, <1>5, <2>1
<1>7. /\ e.startConnectedNode \in NodesOf(t) /\ e.endConnectedNode \in NodesOf(t)
  BY <1>2, <1>3, <1>5
<1>8. Fits(string, e) => \/ e.startConnectedNode \in NodesOf(string)
                         \/ e.endConnectedNode \in NodesOf(string)
  BY <1>1, <1>3, <1>4 DEF Fits, Continues, LeadsInto
<1>9. NodesOf(string) # {}
  BY <1>3, <1>4
<1> QED
  BY <1>1, <1>6, <1>7, <1>8, <1>9

\* Strings that share no node with each other.
Apart(strings) ==
  \A i, j \in 1..Len(strings) :
    NodesOf(strings[i]) \cap NodesOf(strings[j]) # {} => i = j

\* What is apart at last was apart before.
LEMMA ApartBefore ==
  ASSUME NEW r, NEW u, Len(r) \in Nat, Len(u) \in Nat, Len(r) <= Len(u), Apart(u),
         \A i \in 1..Len(r) : NodesOf(r[i]) \subseteq NodesOf(u[i])
  PROVE  Apart(r)
<1>1. \A i \in 1..Len(r) : i \in 1..Len(u)
  OBVIOUS
<1> QED
  BY <1>1 DEF Apart

\* Among such strings an element goes to the one whose nodes it has.
LEMMA JoinsItsOwn ==
  ASSUME NEW r \in Seq(LineString), NEW u, NEW e \in Element, NEW n \in 1..Len(r),
         u = [i \in 1..Len(r) |-> IF i = n THEN Append(r[n], e) ELSE r[i]],
         Continues(r[n], e), Apart(u)
  PROVE  Join(r, e) = u
<1>1. \A i \in 1..Len(r) : r[i] \in LineString
  OBVIOUS
<1>2. Len(u) = Len(r)
  OBVIOUS
<1>3. ASSUME NEW i \in 1..Len(r), i # n
      PROVE  ~Fits(r[i], e)
  <2>1. u[i] = r[i] /\ u[n] = Append(r[n], e)
    BY <1>3
  <2>2. /\ e.startConnectedNode \in NodesOf(u[n])
        /\ e.endConnectedNode \in NodesOf(u[n])
        /\ Fits(u[i], e) => \/ e.startConnectedNode \in NodesOf(u[i])
                           \/ e.endConnectedNode \in NodesOf(u[i])
    BY <1>1, <2>1, NodesGrow
  <2>3. NodesOf(u[i]) \cap NodesOf(u[n]) = {}
    BY <1>2, <1>3 DEF Apart
  <2> QED
    BY <2>1, <2>2, <2>3
<1>4. Fits(r[n], e)
  BY DEF Fits
<1>5. Join(r, e) = [i \in 1..Len(r) |-> IF Fits(r[i], e) THEN Append(r[i], e) ELSE r[i]]
  BY <1>4 DEF Join
<1>6. \A i \in 1..Len(r) : (IF Fits(r[i], e) THEN Append(r[i], e) ELSE r[i])
                              = IF i = n THEN Append(r[n], e) ELSE r[i]
  BY <1>3, <1>4
<1> QED
  BY <1>5, <1>6

\* An element with nodes that none of them has starts a string.
LEMMA JoinsNone ==
  ASSUME NEW r \in Seq(LineString), NEW u, NEW e \in Element,
         u = Append(r, <<e>>), Apart(u)
  PROVE  Join(r, e) = u
<1>1. PICK N \in Nat : N = Len(r)
  OBVIOUS
<1>2. /\ Len(u) = N + 1 /\ u[N + 1] = <<e>>
      /\ \A i \in 1..N : u[i] = r[i]
  <2>1. <<e>> \in LineString
    BY DEF LineString
  <2> QED
    BY <1>1, <2>1
<1>3. ASSUME NEW i \in 1..N
      PROVE  ~Fits(r[i], e)
  <2>1. Fits(r[i], e) => \/ e.startConnectedNode \in NodesOf(r[i])
                         \/ e.endConnectedNode \in NodesOf(r[i])
    BY <1>1, NodesGrow
  <2>2. e.startConnectedNode \in NodesOf(<<e>>) /\ e.endConnectedNode \in NodesOf(<<e>>)
    <3>1. Len(<<e>>) = 1 /\ <<e>>[1] = e /\ 1 \in 1..1
      OBVIOUS
    <3> QED
      BY <3>1 DEF NodesOf
  <2>3. NodesOf(u[i]) \cap NodesOf(u[N + 1]) = {}
    <3>1. i \in 1..N + 1 /\ N + 1 \in 1..N + 1 /\ i # N + 1
      OBVIOUS
    <3> QED
      BY <1>2, <3>1 DEF Apart
  <2> QED
    BY <1>2, <2>1, <2>2, <2>3
<1> QED
  BY <1>1, <1>3 DEF Join

\* Runs that share no node are the line strings, before and after an element.
LEMMA RunsStep ==
  ASSUME LinesTypeOK, LinesTypeOK', ElementsKept, RunsStayApart,
         NEW e \in Element, JoinElement(e)
  PROVE  RunsStayApart'
<1> SUFFICES ASSUME Apart(Runs')
             PROVE  lineStrings' = Runs'
  BY DEF RunsStayApart, Apart
<1>1. PICK s, t, F, N : s = elements /\ t = elements' /\ F = Begins /\ N = Len(s)
  OBVIOUS
<1>2. /\ s \in Seq(Element) /\ t \in Seq(Element) /\ N \in Nat
      /\ Len(t) = N + 1 /\ t[N + 1] = e /\ \A k \in 1..N : t[k] = s[k]
  BY <1>1 DEF LinesTypeOK, JoinElement
<1>3. PICK n \in Nat : n = Cardinality(F)
  BY <1>1, RunsNow
<1>4. F \in SUBSET (1..N) /\ Runs = [i \in 1..n |-> Run(s, F, i)]
  BY <1>1, <1>3, RunsNow
<1>5. Runs' = [i \in 1..Cardinality(Begins') |-> Run(t, Begins', i)]
  BY <1>1, RunsNext
<1>6. lineStrings' = Join(lineStrings, e)
  BY DEF JoinElement
<1>7. Apart(Runs) => lineStrings = Runs
  <2>1. CASE elements = << >>
    <3>1. F = {}
      BY <1>1, <1>4, <2>1
    <3>2. n = 0
      BY <1>3, <3>1, FS_EmptySet
    <3>3. Runs = << >>
      BY <1>4, <3>2
    <3> QED
      BY <2>1, <3>3, NoLines
  <2>2. CASE elements # << >>
    BY <2>2 DEF RunsStayApart, Apart
  <2> QED
    BY <2>1, <2>2
<1>8. lineStrings \in Seq(LineString)
  BY DEF LinesTypeOK, LineString
<1>9. N \in 1..N => (N + 1 \in Begins' <=> N + 1 \in {1} \/ ~Chained(<<s[N], e>>))
  <2> HAVE N \in 1..N
  <2>1. /\ N + 1 \in 1..N + 1 /\ (N + 1) - 1 = N
        /\ elements'[N + 1] = e /\ elements'[N] = s[N] /\ Len(elements') = N + 1
    BY <1>1, <1>2
  <2> QED
    BY <2>1 DEF Begins
<1>10. \A k \in 1..N : k \in Begins' <=> k \in F
  <2> TAKE k \in 1..N
  <2>1. /\ k \in 1..N + 1 /\ Len(elements') = N + 1 /\ Len(elements) = N
        /\ elements'[k] = elements[k]
        /\ k # 1 => k - 1 \in 1..N /\ elements'[k - 1] = elements[k - 1]
    BY <1>1, <1>2
  <2> QED
    BY <1>1, <2>1 DEF Begins
<1>11. Begins' \in SUBSET (1..N + 1)
  BY <1>1, <1>2, RunsNext
<1>12. CASE N # 0 /\ Chained(<<s[N], e>>)
  <2>1. Begins' = F
    <3>1. N \in 1..N /\ N + 1 # 1
      BY <1>2, <1>12
    <3>2. N + 1 \notin Begins'
      BY <1>9, <1>12, <3>1
    <3>3. \A k \in 1..N + 1 : k \in 1..N \/ k = N + 1
      BY <1>2
    <3> QED
      BY <1>4, <1>10, <1>11, <3>2, <3>3
  <2>2. n # 0
    <3>1. 1 \in F
      BY <1>1, <1>2, <1>12 DEF Begins
    <3>2. IsFiniteSet(F)
      <4>1. IsFiniteSet(1..N)
        BY <1>2, FS_Interval
      <4> QED
        BY <1>4, <4>1, FS_Subset
    <3> QED
      BY <1>3, <3>1, <3>2, FS_EmptySet
  <2>3. /\ \A i \in 1..n - 1 : Run(t, F, i) = Run(s, F, i)
        /\ Run(t, F, n) = Append(Run(s, F, n), e)
        /\ Run(s, F, n) \in Seq(Element) /\ Len(Run(s, F, n)) \in Nat \ {0}
        /\ Run(s, F, n)[Len(Run(s, F, n))] = s[N]
    <3>1. OneMore(s, t, N) /\ F \in SUBSET (1..N) /\ n = Cardinality(F) /\ n \in Nat \ {0}
      BY <1>1, <1>2, <1>3, <1>4, <2>2 DEF OneMore
    <3>2. Run(t, F, n) = Append(Run(s, F, n), t[N + 1])
      BY ONLY <1>2, <3>1, RunGoesOn
    <3>3. \A i \in 1..n - 1 : Run(t, F, i) = Run(s, F, i)
      BY ONLY <1>2, <3>1, RunGoesOn
    <3>4. /\ Run(s, F, n) \in Seq(Element) /\ Len(Run(s, F, n)) \in Nat \ {0}
          /\ Run(s, F, n)[Len(Run(s, F, n))] = s[N]
      BY ONLY <1>2, <3>1, RunGoesOn
    <3> QED
      BY <1>2, <3>2, <3>3, <3>4
  <2>4. Runs' = [i \in 1..n |-> IF i = n THEN Append(Runs[n], e) ELSE Runs[i]]
    <3>1. \A i \in 1..n : Run(t, F, i) = IF i = n THEN Append(Runs[n], e) ELSE Runs[i]
      BY <1>4, <2>2, <2>3
    <3> QED
      BY <1>3, <1>5, <2>1, <3>1
  <2>5. n \in 1..n /\ Len(Runs) = n /\ Len(Runs') = n
    BY <1>4, <2>2, <2>4
  <2>6. Runs[n] = Run(s, F, n) /\ Runs[n] \in LineString
    <3>1. Runs[n] = Run(s, F, n)
      BY <1>4, <2>5
    <3> QED
      BY <2>3, <3>1 DEF LineString
  <2>7. Apart(Runs)
    <3>1. \A i \in 1..n : NodesOf(Runs[i]) \subseteq NodesOf(Runs'[i])
      <4>1. NodesOf(Runs[n]) \subseteq NodesOf(Append(Runs[n], e))
        BY <2>6, NodesGrow
      <4> QED
        BY <2>4, <4>1
    <3>2. PICK r, u : r = Runs /\ u = Runs'
      OBVIOUS
    <3>3. Apart(r)
      <4>1. Apart(u)
        BY <3>2
      <4> QED
        BY <2>5, <3>1, <3>2, <4>1, ApartBefore
    <3> QED
      BY <3>2, <3>3
  <2>8. Continues(Runs[n], e)
    <3>1. Chained(<<s[N], e>>)
      BY <1>12
    <3>2. e.startConnectedNode = s[N].endConnectedNode
      BY <3>1 DEF Chained
    <3> QED
      BY <2>3, <2>6, <3>2 DEF Continues
  <2>9. PICK r, u : r = Runs /\ u = Runs'
    OBVIOUS
  <2>10. /\ r \in Seq(LineString) /\ n \in 1..Len(r) /\ Continues(r[n], e)
         /\ u = [i \in 1..Len(r) |-> IF i = n THEN Append(r[n], e) ELSE r[i]]
         /\ lineStrings = r /\ Apart(u)
    BY <1>7, <1>8, <2>4, <2>5, <2>7, <2>8, <2>9
  <2>11. Join(r, e) = u
    BY ONLY <2>10, JoinsItsOwn, e \in Element
  <2> QED
    BY <1>6, <2>9, <2>10, <2>11
<1>13. CASE ~(N # 0 /\ Chained(<<s[N], e>>))
  <2>1. Begins' = F \cup {N + 1}
    <3>1. N + 1 \in Begins'
      <4>1. CASE N = 0
        BY <1>1, <1>2, <4>1 DEF Begins
      <4>2. CASE N # 0
        <5>1. N \in 1..N /\ ~Chained(<<s[N], e>>)
          BY <1>2, <1>13, <4>2
        <5> QED
          BY <1>9, <5>1
      <4> QED
        BY <4>1, <4>2
    <3>2. \A k \in 1..N + 1 : k \in 1..N \/ k = N + 1
      BY <1>2
    <3> QED
      BY <1>4, <1>10, <1>11, <3>1, <3>2
  <2>2. /\ Cardinality(Begins') = n + 1
        /\ \A i \in 1..n : Run(t, Begins', i) = Run(s, F, i)
        /\ Run(t, Begins', n + 1) = <<e>>
    <3>1. OneMore(s, t, N) /\ F \in SUBSET (1..N) /\ n = Cardinality(F) /\ n \in Nat
      BY <1>1, <1>2, <1>3, <1>4 DEF OneMore
    <3>2. PICK G : G = Begins'
      OBVIOUS
    <3>3. G = F \cup {N + 1}
      BY <2>1, <3>2
    <3>4. OneMoreRun(s, t, N, F, G, n)
      BY ONLY <1>2, <3>1, <3>3, RunBegins
    <3> QED
      BY <1>2, <3>2, <3>4 DEF OneMoreRun
  <2>3. PICK r, u : r = Runs /\ u = Runs'
    OBVIOUS
  <2>4. /\ Len(r) = n /\ Len(u) = n + 1 /\ u[n + 1] = <<e>>
        /\ \A i \in 1..n : u[i] = r[i]
        /\ u = [i \in 1..n + 1 |-> IF i = n + 1 THEN <<e>> ELSE r[i]]
        /\ Apart(u)
    <3>1. \A i \in 1..n + 1 : i \in 1..n \/ i = n + 1
      OBVIOUS
    <3>2. \A i \in 1..n + 1 : Run(t, Begins', i) = IF i = n + 1 THEN <<e>> ELSE r[i]
      BY <1>4, <2>2, <2>3, <3>1
    <3>3. u = [i \in 1..n + 1 |-> IF i = n + 1 THEN <<e>> ELSE r[i]]
      BY <1>5, <2>2, <2>3, <3>2
    <3>4. Len(r) = n
      BY <1>4, <2>3
    <3> QED
      BY <2>3, <3>3, <3>4
  <2>5. Apart(r)
    <3>1. \A i \in 1..n : NodesOf(r[i]) \subseteq NodesOf(u[i])
      BY <2>4
    <3> QED
      BY <2>4, <3>1, ApartBefore
  <2>6. r \in Seq(LineString) /\ lineStrings = r
    BY <1>7, <1>8, <2>3, <2>5
  <2>7. u = Append(r, <<e>>)
    BY ONLY <2>4, <2>6
  <2>8. Join(r, e) = u
    BY ONLY <2>4, <2>6, <2>7, JoinsNone, e \in Element
  <2> QED
    BY <1>6, <2>3, <2>6, <2>8
<1> QED
  BY <1>12, <1>13

\* Drawing changes neither the elements nor the line strings.
LEMMA Unmoved ==
  ASSUME ChainIsOneLine, ElementsKept,
         RunsStayApart, DrawnTwiceOnlyIfBridging,
         elements' = elements, lineStrings' = lineStrings
  PROVE  /\ ChainIsOneLine' /\ ElementsKept'
         /\ RunsStayApart' /\ DrawnTwiceOnlyIfBridging'
<1>1. ChainIsOneLine'
  BY DEF ChainIsOneLine, Chained
<1>2. ElementsKept'
  <2>1. \A x : Among(x, elements) <=> InLines(x, lineStrings)
    BY KeptElementwise DEF ElementsKept
  <2>2. \A x : Among(x, elements') <=> InLines(x, lineStrings')
    BY <2>1
  <2> QED
    BY <2>2, KeptAfterStep
<1>3. RunsStayApart'
  <2>1. Begins' = Begins
    BY DEF Begins
  <2>2. \A i : Begin(i)' = Begin(i)
    BY <2>1 DEF Begin
  <2>3. Runs' = Runs
    BY <2>1, <2>2 DEF Runs
  <2> QED
    BY <2>3 DEF RunsStayApart
<1>4. DrawnTwiceOnlyIfBridging'
  <2>1. SimplePaths' <=> SimplePaths
    BY DEF SimplePaths
  <2> QED
    BY <2>1 DEF DrawnTwiceOnlyIfBridging
<1> QED
  BY <1>1, <1>2, <1>3, <1>4

-----------------------------------------------------------------------------
\* FlattenSeq goes through a sequence and keeps what it has so far.
IsFlat(f, s, n) == f = [i \in 1..n |-> IF i = 1 THEN s[i] ELSE f[i - 1] \o s[i]]

\* There is such a function for every sequence.
LEMMA FlatExists ==
  ASSUME NEW s, NEW n \in Nat
  PROVE  \E f : IsFlat(f, s, n)
<1> DEFINE T == {m \in Nat : \E f : IsFlat(f, s, m)}
<1>1. 0 \in T
  <2>1. PICK f : f = [i \in 1..0 |-> s[i]]
    OBVIOUS
  <2>2. f = [i \in 1..0 |-> IF i = 1 THEN s[i] ELSE f[i - 1] \o s[i]]
    BY <2>1
  <2> QED
    BY <2>2 DEF IsFlat
<1>2. ASSUME NEW m \in Nat, NEW f, IsFlat(f, s, m)
      PROVE  \E g : IsFlat(g, s, m + 1)
  <2> DEFINE more(h, i) == IF i = 1 THEN s[i] ELSE h[i - 1] \o s[i]
  <2>1. PICK g : g = [i \in 1..m + 1 |-> IF i \in 1..m THEN f[i] ELSE more(f, i)]
    OBVIOUS
  <2>2. f = [i \in 1..m |-> more(f, i)]
    BY <1>2 DEF IsFlat
  <2>3. ASSUME NEW i \in 1..m + 1
        PROVE  g[i] = more(f, i)
    <3> HIDE DEF more
    <3> QED
      BY <2>1, <2>2
  <2>4. ASSUME NEW i \in 1..m + 1
        PROVE  more(f, i) = more(g, i)
    <3>1. CASE i = 1
      BY <3>1
    <3>2. CASE i # 1
      <4>1. i - 1 \in 1..m /\ i - 1 \in 1..m + 1
        BY <3>2
      <4>2. g[i - 1] = f[i - 1]
        <5> HIDE DEF more
        <5> QED
          BY <2>1, <4>1
      <4> QED
        BY <4>2
    <3> QED
      BY <3>1, <3>2
  <2>5. g = [i \in 1..m + 1 |-> more(g, i)]
    <3>1. \A i \in 1..m + 1 : g[i] = more(g, i)
      BY <2>3, <2>4
    <3> HIDE DEF more
    <3> QED
      BY <2>1, <3>1
  <2> QED
    BY <2>5 DEF IsFlat
<1>3. \A m \in T : m + 1 \in T
  BY <1>2
<1> HIDE DEF T
<1>4. T = Nat
  <2>1. T \in SUBSET Nat
    BY DEF T
  <2> QED
    BY <1>1, <1>3, <2>1, Induction
<1> QED
  BY <1>4 DEF T

\* Two functions have the same sequences at 1..n.
Agree(S, f, g, n) == \A i \in 1..n : f[i] \in Seq(S) /\ g[i] = f[i]

\* What it has so far is a sequence, and depends only on what it went through.
LEMMA FlatSoFar ==
  ASSUME NEW S, NEW s, NEW t, NEW n \in Nat, NEW m \in Nat, n <= m,
         Agree(S, s, t, n), NEW f, NEW g, IsFlat(f, s, n), IsFlat(g, t, m)
  PROVE  Agree(S, f, g, n)
<1> DEFINE T == {i \in Nat : i \in 1..n => f[i] \in Seq(S) /\ g[i] = f[i]}
<1>1. /\ \A i \in 1..n : f[i] = IF i = 1 THEN s[i] ELSE f[i - 1] \o s[i]
      /\ \A i \in 1..n : g[i] = IF i = 1 THEN t[i] ELSE g[i - 1] \o t[i]
  <2>1. \A i \in 1..n : i \in 1..m
    OBVIOUS
  <2>2. f = [i \in 1..n |-> IF i = 1 THEN s[i] ELSE f[i - 1] \o s[i]]
    BY DEF IsFlat
  <2>3. g = [i \in 1..m |-> IF i = 1 THEN t[i] ELSE g[i - 1] \o t[i]]
    BY DEF IsFlat
  <2>4. \A i \in 1..n : f[i] = IF i = 1 THEN s[i] ELSE f[i - 1] \o s[i]
    BY ONLY <2>2, Zenon
  <2>5. \A i \in 1..m : g[i] = IF i = 1 THEN t[i] ELSE g[i - 1] \o t[i]
    BY ONLY <2>3, Zenon
  <2> QED
    BY ONLY <2>1, <2>4, <2>5
<1>2. 0 \in T
  OBVIOUS
<1>3. ASSUME NEW i \in Nat, i \in 1..n => f[i] \in Seq(S) /\ g[i] = f[i],
             i + 1 \in 1..n
      PROVE  f[i + 1] \in Seq(S) /\ g[i + 1] = f[i + 1]
  <2>1. s[i + 1] \in Seq(S) /\ t[i + 1] = s[i + 1]
    BY <1>3 DEF Agree
  <2>2. CASE i = 0
    <3>1. f[1] = s[1] /\ g[1] = t[1] /\ i + 1 = 1
      BY <1>1, <1>3, <2>2
    <3> QED
      BY <2>1, <3>1
  <2>3. CASE i # 0
    <3>1. i \in 1..n /\ i + 1 # 1 /\ (i + 1) - 1 = i
      BY <1>3, <2>3
    <3>2. f[i] \in Seq(S) /\ g[i] = f[i]
      BY <1>3, <3>1
    <3>3. PICK j : j = i + 1
      OBVIOUS
    <3>4. j \in 1..n /\ j # 1 /\ j - 1 = i
      BY <1>3, <3>1, <3>3
    <3>5. f[j] = f[j - 1] \o s[j] /\ g[j] = g[j - 1] \o t[j]
      BY ONLY <1>1, <3>4
    <3>6. f[j] = f[i] \o s[j] /\ g[j] = f[i] \o s[j]
      BY ONLY <2>1, <3>2, <3>3, <3>4, <3>5
    <3>7. f[i] \o s[j] \in Seq(S)
      BY ONLY <2>1, <3>2, <3>3, ConcatProperties
    <3> QED
      BY <3>3, <3>6, <3>7
  <2> QED
    BY <2>2, <2>3
<1>4. \A i \in T : i + 1 \in T
  BY <1>3
<1>5. T \in SUBSET Nat
  OBVIOUS
<1> HIDE DEF T
<1>6. T = Nat
  BY <1>2, <1>4, <1>5, Induction
<1> QED
  BY <1>6 DEF T, Agree

\* So another sequence at the end comes at the end.
LEMMA FlattenAppend ==
  ASSUME NEW S, NEW s \in Seq(Seq(S)), NEW x \in Seq(S)
  PROVE  /\ FlattenSeq(<< >>) = << >>
         /\ FlattenSeq(s) \in Seq(S)
         /\ FlattenSeq(Append(s, x)) = FlattenSeq(s) \o x
<1>1. FlattenSeq(<< >>) = << >>
  BY DEF FlattenSeq
<1>2. ASSUME NEW r, Len(r) \in Nat \ {0}
      PROVE  \E f : IsFlat(f, r, Len(r)) /\ FlattenSeq(r) = f[Len(r)]
  <2> DEFINE f == CHOOSE f : IsFlat(f, r, Len(r))
  <2>1. IsFlat(f, r, Len(r))
    BY <1>2, FlatExists
  <2>2. FlattenSeq(r) = f[Len(r)]
    BY <1>2, Zenon DEF FlattenSeq, IsFlat
  <2> QED
    BY <2>1, <2>2
<1>3. PICK t, n : t = Append(s, x) /\ n = Len(s)
  OBVIOUS
<1>4. /\ t \in Seq(Seq(S)) /\ Len(t) = n + 1 /\ t[n + 1] = x /\ n \in Nat
      /\ \A i \in 1..n : t[i] = s[i] /\ s[i] \in Seq(S)
  BY <1>3
<1>5. PICK g : IsFlat(g, t, n + 1) /\ FlattenSeq(t) = g[n + 1]
  BY <1>2, <1>4
<1>6. g[n + 1] = IF n + 1 = 1 THEN t[n + 1] ELSE g[(n + 1) - 1] \o t[n + 1]
  <2>1. g = [i \in 1..n + 1 |-> IF i = 1 THEN t[i] ELSE g[i - 1] \o t[i]]
    BY <1>5 DEF IsFlat
  <2>2. n + 1 \in 1..n + 1
    BY <1>4
  <2> QED
    BY ONLY <2>1, <2>2, Zenon
<1>7. CASE n = 0
  <2>1. s = << >>
    <3>1. Len(s) = 0
      BY <1>3, <1>7
    <3> QED
      BY ONLY <3>1, EmptySeq, s \in Seq(Seq(S))
  <2>2. FlattenSeq(t) = x
    BY <1>4, <1>5, <1>6, <1>7
  <2>3. << >> \o x = x /\ << >> \in Seq(S)
    BY ConcatEmptySeq
  <2> QED
    BY <1>1, <1>3, <2>1, <2>2, <2>3
<1>8. CASE n # 0
  <2>1. PICK f : IsFlat(f, s, n) /\ FlattenSeq(s) = f[n]
    BY <1>2, <1>3, <1>4, <1>8
  <2>2. n \in 1..n /\ n <= n + 1 /\ n + 1 \in Nat /\ (n + 1) - 1 = n /\ n + 1 # 1
    BY <1>4, <1>8
  <2>3. f[n] \in Seq(S) /\ g[n] = f[n]
    <3>1. PICK m \in Nat : m = n + 1
      BY <1>4
    <3>2. /\ n \in Nat /\ n <= m /\ IsFlat(f, s, n) /\ IsFlat(g, t, m)
          /\ Agree(S, s, t, n)
      BY <1>4, <1>5, <2>1, <2>2, <3>1 DEF Agree
    <3>3. Agree(S, f, g, n)
      BY ONLY <3>2, FlatSoFar, m \in Nat
    <3> QED
      BY <2>2, <3>3 DEF Agree
  <2>4. FlattenSeq(t) = g[n] \o x
    BY ONLY <1>4, <1>5, <1>6, <2>2
  <2> QED
    BY <1>1, <1>3, <2>1, <2>3, <2>4
<1> QED
  BY <1>4, <1>7, <1>8

\* What holds of the empty sequence, and of a longer one when it does of the
\* shorter, holds of every sequence.
LEMMA SequenceInduction ==
  ASSUME NEW S, NEW T \in SUBSET Seq(S), << >> \in T,
         \A s \in T, x \in S : Append(s, x) \in T
  PROVE  T = Seq(S)
<1> DEFINE U == {n \in Nat : \A s \in Seq(S) : Len(s) = n => s \in T}
<1>1. 0 \in U
  BY EmptySeq
<1>2. ASSUME NEW n \in Nat, \A s \in Seq(S) : Len(s) = n => s \in T,
             NEW t \in Seq(S), Len(t) = n + 1
      PROVE  t \in T
  <2>1. PICK r : r = [i \in 1..n |-> t[i]]
    OBVIOUS
  <2>2. /\ r \in Seq(S) /\ Len(r) = n /\ t[n + 1] \in S
        /\ \A i \in 1..n : r[i] = t[i]
    BY <1>2, <2>1
  <2>3. PICK x, u : x = t[n + 1] /\ u = Append(r, x)
    OBVIOUS
  <2>4. u \in T
    BY <1>2, <2>2, <2>3
  <2>5. /\ u \in Seq(S) /\ Len(u) = n + 1 /\ u[n + 1] = x
        /\ \A i \in 1..n : u[i] = r[i]
    BY ONLY <2>2, <2>3, n \in Nat
  <2>6. ASSUME NEW i \in 1..n + 1
        PROVE  t[i] = u[i]
    <3>1. i \in 1..n \/ i = n + 1
      OBVIOUS
    <3> QED
      BY <2>2, <2>3, <2>5, <3>1
  <2>7. t = u
    BY ONLY <1>2, <2>5, <2>6, SeqEqual
  <2> QED
    BY <2>4, <2>7
<1>3. ASSUME NEW n \in U
      PROVE  n + 1 \in U
  <2>1. n \in Nat /\ \A s \in Seq(S) : Len(s) = n => s \in T
    OBVIOUS
  <2>2. \A t \in Seq(S) : Len(t) = n + 1 => t \in T
    BY ONLY <1>2, <2>1
  <2> QED
    BY <2>1, <2>2
<1>4. U \in SUBSET Nat
  OBVIOUS
<1> HIDE DEF U
<1>5. U = Nat
  BY <1>1, <1>3, <1>4, Induction
<1>6. ASSUME NEW s \in Seq(S)
      PROVE  s \in T
  <2>1. Len(s) \in U
    BY <1>5
  <2> QED
    BY <2>1 DEF U
<1> QED
  BY <1>6

\* And another one at the start comes at the start.
LEMMA FlattenFirst ==
  ASSUME NEW S, NEW x \in Seq(S), NEW s \in Seq(Seq(S))
  PROVE  FlattenSeq(<<x>> \o s) = x \o FlattenSeq(s)
<1>1. <<x>> \in Seq(Seq(S)) /\ << >> \in Seq(Seq(S))
  OBVIOUS
<1> DEFINE T == {t \in Seq(Seq(S)) : FlattenSeq(<<x>> \o t) = x \o FlattenSeq(t)}
<1>2. << >> \in T
  <2>1. FlattenSeq(Append(<< >>, x)) = FlattenSeq(<< >>) \o x
    BY ONLY <1>1, FlattenAppend, x \in Seq(S)
  <2>2. FlattenSeq(<< >>) = << >>
    BY ONLY <1>1, FlattenAppend, x \in Seq(S)
  <2>3. /\ << >> \o x = x /\ x \o << >> = x
        /\ <<x>> \o << >> = <<x>> /\ Append(<< >>, x) = <<x>>
    BY <1>1, ConcatEmptySeq
  <2> QED
    BY <1>1, <2>1, <2>2, <2>3
<1>3. ASSUME NEW t \in Seq(Seq(S)), FlattenSeq(<<x>> \o t) = x \o FlattenSeq(t),
             NEW y \in Seq(S)
      PROVE  FlattenSeq(<<x>> \o Append(t, y)) = x \o FlattenSeq(Append(t, y))
  <2>1. <<x>> \o Append(t, y) = Append(<<x>> \o t, y)
    BY <1>1
  <2>2. <<x>> \o t \in Seq(Seq(S))
    BY <1>1
  <2>3. FlattenSeq(Append(<<x>> \o t, y)) = FlattenSeq(<<x>> \o t) \o y
    BY ONLY <2>2, FlattenAppend, y \in Seq(S)
  <2>4. FlattenSeq(Append(t, y)) = FlattenSeq(t) \o y /\ FlattenSeq(t) \in Seq(S)
    BY ONLY FlattenAppend, y \in Seq(S), t \in Seq(Seq(S))
  <2>5. (x \o FlattenSeq(t)) \o y = x \o (FlattenSeq(t) \o y)
    BY ONLY <2>4, ConcatAssociative, x \in Seq(S), y \in Seq(S)
  <2> QED
    BY ONLY <1>3, <2>1, <2>3, <2>4, <2>5
<1>4. T \in SUBSET Seq(Seq(S)) /\ \A t \in T, y \in Seq(S) : Append(t, y) \in T
  <2>1. ASSUME NEW t \in T, NEW y \in Seq(S)
        PROVE  Append(t, y) \in T
    <3>1. t \in Seq(Seq(S)) /\ FlattenSeq(<<x>> \o t) = x \o FlattenSeq(t)
      OBVIOUS
    <3>2. Append(t, y) \in Seq(Seq(S))
      BY ONLY <3>1, y \in Seq(S)
    <3> QED
      BY <1>3, <3>1, <3>2
  <2> QED
    BY <2>1
<1> HIDE DEF T
<1>5. T = Seq(Seq(S))
  BY <1>2, <1>4, SequenceInduction
<1> QED
  BY <1>5 DEF T

\* A sequence put together, backwards.
LEMMA Backwards ==
  ASSUME NEW S, NEW s \in Seq(S), NEW t \in Seq(S)
  PROVE  /\ Reverse(s) \in Seq(S) /\ Reverse(Reverse(s)) = s
         /\ Reverse(s \o t) = Reverse(t) \o Reverse(s)
<1>1. ASSUME NEW r \in Seq(S)
      PROVE  /\ Reverse(r) \in Seq(S) /\ Len(Reverse(r)) = Len(r)
             /\ \A i \in 1..Len(r) : Reverse(r)[i] = r[Len(r) - i + 1]
  <2>1. \A i \in 1..Len(r) : Len(r) - i + 1 \in 1..Len(r)
    OBVIOUS
  <2>2. \A i \in 1..Len(r) : r[Len(r) - i + 1] \in S
    BY <2>1
  <2>3. Reverse(r) = [i \in 1..Len(r) |-> r[Len(r) - i + 1]]
    BY DEF Reverse
  <2> QED
    BY <2>2, <2>3
<1>2. PICK m, n : m = Len(s) /\ n = Len(t)
  OBVIOUS
<1>3. m \in Nat /\ n \in Nat
  BY <1>2
<1>4. Reverse(Reverse(s)) = s
  <2>1. PICK u : u = Reverse(Reverse(s))
    OBVIOUS
  <2>2. /\ u \in Seq(S) /\ Len(u) = m
        /\ \A i \in 1..m : u[i] = Reverse(s)[m - i + 1]
    BY <1>1, <1>2, <2>1
  <2>3. \A i \in 1..m : m - i + 1 \in 1..m /\ m - (m - i + 1) + 1 = i
    BY <1>3
  <2>4. \A i \in 1..m : u[i] = s[i]
    BY <1>1, <1>2, <2>2, <2>3
  <2>5. u = s
    BY ONLY <1>2, <2>2, <2>4, SeqEqual, s \in Seq(S)
  <2> QED
    BY <2>1, <2>5
<1>5. PICK c : c = s \o t
  OBVIOUS
<1>6. /\ c \in Seq(S) /\ Len(c) = m + n
      /\ \A i \in 1..m + n : c[i] = IF i <= m THEN s[i] ELSE t[i - m]
  BY ONLY <1>2, <1>5, ConcatProperties, s \in Seq(S), t \in Seq(S)
<1>7. PICK a, b, d : a = Reverse(c) /\ b = Reverse(t) /\ d = Reverse(s)
  OBVIOUS
<1>8. /\ a \in Seq(S) /\ Len(a) = m + n
      /\ \A i \in 1..m + n : a[i] = c[m + n - i + 1]
  <2>1. /\ Reverse(c) \in Seq(S) /\ Len(Reverse(c)) = Len(c)
        /\ \A i \in 1..Len(c) : Reverse(c)[i] = c[Len(c) - i + 1]
    BY <1>1, <1>6
  <2> QED
    <3>1. Len(c) = m + n
      BY <1>6
    <3>2. a = Reverse(c)
      BY <1>7
    <3>3. PICK l : l = m + n
      OBVIOUS
    <3>4. a \in Seq(S) /\ Len(a) = l /\ \A i \in 1..l : a[i] = c[l - i + 1]
      BY ONLY <2>1, <3>1, <3>2, <3>3
    <3> QED
      BY ONLY <1>3, <3>3, <3>4
<1>9. /\ b \in Seq(S) /\ Len(b) = n /\ \A i \in 1..n : b[i] = t[n - i + 1]
      /\ d \in Seq(S) /\ Len(d) = m /\ \A i \in 1..m : d[i] = s[m - i + 1]
  BY <1>1, <1>2, <1>7
<1>10. PICK e : e = b \o d
  OBVIOUS
<1>11. /\ e \in Seq(S) /\ Len(e) = n + m
       /\ \A i \in 1..n + m : e[i] = IF i <= n THEN b[i] ELSE d[i - n]
  <2>1. b \in Seq(S) /\ d \in Seq(S) /\ Len(b) = n /\ Len(d) = m
    BY ONLY <1>9
  <2>2. /\ b \o d \in Seq(S) /\ Len(b \o d) = Len(b) + Len(d)
        /\ \A i \in 1..Len(b) + Len(d) :
             (b \o d)[i] = IF i <= Len(b) THEN b[i] ELSE d[i - Len(b)]
    BY ONLY <2>1, ConcatProperties
  <2> QED
    BY ONLY <1>10, <2>1, <2>2
<1>12. ASSUME NEW i \in 1..m + n
       PROVE  a[i] = e[i]
  <2>1. PICK p : p = m + n - i + 1
    OBVIOUS
  <2>2. a[i] = c[p] /\ p \in 1..m + n /\ i \in 1..n + m
    BY <1>3, <1>8, <2>1
  <2>3. /\ c[p] = IF p <= m THEN s[p] ELSE t[p - m]
        /\ e[i] = IF i <= n THEN b[i] ELSE d[i - n]
    BY ONLY <1>6, <1>11, <2>2
  <2>4. CASE i <= n
    <3>1. ~(p <= m) /\ p - m = n - i + 1 /\ i \in 1..n
      BY ONLY <1>3, <2>1, <2>4, i \in 1..m + n
    <3>2. b[i] = t[n - i + 1]
      BY ONLY <1>9, <3>1
    <3> QED
      BY ONLY <2>2, <2>3, <2>4, <3>1, <3>2
  <2>5. CASE ~(i <= n)
    <3>1. PICK q : q = i - n
      OBVIOUS
    <3>2. p <= m /\ q \in 1..m /\ m - q + 1 = p
      BY ONLY <1>3, <2>1, <2>5, <3>1, i \in 1..m + n
    <3>3. d[q] = s[p]
      <4>1. d[q] = s[m - q + 1]
        BY ONLY <1>9, <3>2
      <4> QED
        BY ONLY <3>2, <4>1
    <3> QED
      BY ONLY <2>2, <2>3, <2>5, <3>1, <3>2, <3>3
  <2> QED
    BY <2>4, <2>5
<1>13. a = e
  <2>1. Len(a) = Len(e) /\ \A i \in 1..Len(a) : a[i] = e[i]
    BY <1>3, <1>8, <1>11, <1>12
  <2> QED
    BY ONLY <1>8, <1>11, <2>1, SeqEqual
<1> QED
  BY <1>1, <1>4, <1>5, <1>7, <1>10, <1>13

\* What an element adds to a line: its first node and its edge.
Place == Position \cup Node
Way(e, edges, nodes) ==
  NodePosition(e.startConnectedNode, nodes) \o EdgePositions(e, edges)
Ways(string, edges, nodes) == [k \in 1..Len(string) |-> Way(string[k], edges, nodes)]
\* An element from its other end, as in Mirror.
Turned(e) ==
  [startConnectedNode |-> e.endConnectedNode,
   endConnectedNode |-> e.startConnectedNode,
   edgeVector |-> e.edgeVector,
   direction |-> IF e.direction = "Forward" THEN "Reverse" ELSE "Forward"]

\* They are sequences of places, and the edge turns with the element.
LEMMA WayOfElement ==
  ASSUME NEW edges \in SUBSET Edge, NEW nodes \in SUBSET Node, NEW e \in LineElement
  PROVE  /\ \A n \in Node : NodePosition(n, nodes) \in Seq(Place)
         /\ EdgePositions(e, edges) \in Seq(Place)
         /\ Way(e, edges, nodes) \in Seq(Place)
         /\ Turned(e) \in LineElement
         /\ EdgePositions(Turned(e), edges) = Reverse(EdgePositions(e, edges))
         /\ e.startConnectedNode \in Node /\ e.endConnectedNode \in Node
<1>1. /\ e.startConnectedNode \in Node /\ e.endConnectedNode \in Node
      /\ e.edgeVector \in Edge \cup {NoEdge} /\ e.direction \in {"Forward", "Reverse"}
  BY DEF LineElement
<1>2. ASSUME NEW n \in Node
      PROVE  NodePosition(n, nodes) \in Seq(Place)
  <2>1. n \in Place
    BY DEF Place
  <2> QED
    BY <2>1 DEF NodePosition
<1>3. Turned(e) \in LineElement
  BY <1>1 DEF Turned, LineElement
<1>4. << >> \in Seq(Place) /\ Reverse(<< >>) = << >>
  BY DEF Reverse
<1>5. CASE e.edgeVector \notin edges
  BY <1>1, <1>2, <1>3, <1>4, <1>5, ConcatProperties DEF EdgePositions, Way, Turned
<1>6. CASE e.edgeVector \in edges
  <2>1. PICK q : q = EdgePoints[e.edgeVector]
    OBVIOUS
  <2>2. q \in Seq(Place)
    <3>1. e.edgeVector \in Edge
      BY <1>6
    <3>2. q \in Seq(Position)
      BY <2>1, <3>1, LinesConstants
    <3>3. Position \subseteq Place
      BY DEF Place
    <3> QED
      BY ONLY <3>2, <3>3, SeqMonotonic
  <2>3. Reverse(q) \in Seq(Place) /\ Reverse(Reverse(q)) = q
    BY ONLY <2>2, Backwards
  <2>4. EdgePositions(e, edges) = IF e.direction = "Reverse" THEN Reverse(q) ELSE q
    BY <1>6, <2>1 DEF EdgePositions
  <2>5. Turned(e).edgeVector = e.edgeVector
        /\ Turned(e).direction = IF e.direction = "Forward" THEN "Reverse" ELSE "Forward"
    BY DEF Turned
  <2>6. EdgePositions(Turned(e), edges) =
          IF e.direction = "Forward" THEN Reverse(q) ELSE q
    BY <1>1, <1>6, <2>1, <2>5 DEF EdgePositions
  <2>7. /\ EdgePositions(e, edges) \in Seq(Place)
        /\ EdgePositions(Turned(e), edges) = Reverse(EdgePositions(e, edges))
    <3>1. CASE e.direction = "Forward"
      BY ONLY <2>2, <2>4, <2>6, <3>1
    <3>2. CASE e.direction = "Reverse"
      BY ONLY <2>3, <2>4, <2>6, <3>2
    <3> QED
      BY <1>1, <3>1, <3>2
  <2>8. NodePosition(e.startConnectedNode, nodes) \in Seq(Place)
    BY <1>1, <1>2
  <2>9. Way(e, edges, nodes) \in Seq(Place)
    BY ONLY <2>7, <2>8, ConcatProperties DEF Way
  <2> QED
    BY <1>1, <1>2, <1>3, <2>7, <2>9
<1> QED
  BY <1>5, <1>6

\* The ways along a line, and the line that they make.
AreWays(w, q, edges, nodes) ==
  /\ w \in Seq(Seq(Place)) /\ Len(w) = Len(q)
  /\ \A k \in 1..Len(q) : w[k] = Way(q[k], edges, nodes)
MakeLine(w, q, edges, nodes) ==
  LET end == NodePosition(q[Len(q)].endConnectedNode, nodes)
  IN /\ FlattenSeq(w) \in Seq(Place) /\ end \in Seq(Place)
     /\ Geometry(q, edges, nodes) = FlattenSeq(w) \o end
     /\ Geometry(q, edges, nodes) \in Seq(Place)

\* A geometry is the ways of its elements, and the node at its end.
LEMMA GeometryOfWays ==
  ASSUME NEW edges \in SUBSET Edge, NEW nodes \in SUBSET Node,
         NEW q \in Seq(LineElement), q # << >>, NEW w, w = Ways(q, edges, nodes)
  PROVE  AreWays(w, q, edges, nodes) /\ MakeLine(w, q, edges, nodes)
<1>1. Len(q) \in Nat \ {0} /\ \A k \in 1..Len(q) : q[k] \in LineElement
  BY EmptySeq
<1>2. /\ w \in Seq(Seq(Place)) /\ Len(w) = Len(q)
      /\ \A k \in 1..Len(q) : w[k] = Way(q[k], edges, nodes)
  <2>1. \A k \in 1..Len(q) : Way(q[k], edges, nodes) \in Seq(Place)
    BY <1>1, WayOfElement
  <2>2. w = [k \in 1..Len(q) |-> Way(q[k], edges, nodes)]
    BY DEF Ways
  <2> QED
    BY ONLY <1>1, <2>1, <2>2
<1>3. << >> \in Seq(Place)
  OBVIOUS
<1>4. FlattenSeq(w) \in Seq(Place)
  BY ONLY <1>2, <1>3, FlattenAppend
<1>5. q[Len(q)] \in LineElement
  BY <1>1
<1>6. NodePosition(q[Len(q)].endConnectedNode, nodes) \in Seq(Place)
  BY <1>5, WayOfElement
<1>7. Geometry(q, edges, nodes) =
        FlattenSeq(w) \o NodePosition(q[Len(q)].endConnectedNode, nodes)
  BY DEF Geometry, Ways, Way
<1>8. Geometry(q, edges, nodes) \in Seq(Place)
  BY ONLY <1>4, <1>6, <1>7, ConcatProperties
<1> QED
  BY <1>2, <1>4, <1>6, <1>7, <1>8 DEF AreWays, MakeLine

\* Four sequences of places put together, by the middle or by pairs.
Regroups(f, a, b, c) == (f \o (a \o b)) \o c = (f \o a) \o (b \o c)
\* Either way they are the same.
LEMMA Regrouped ==
  \A f, a, b, c \in Seq(Place) : Regroups(f, a, b, c)
<1> SUFFICES ASSUME NEW f \in Seq(Place), NEW a \in Seq(Place),
                    NEW b \in Seq(Place), NEW c \in Seq(Place)
             PROVE  (f \o (a \o b)) \o c = (f \o a) \o (b \o c)
  BY DEF Regroups
<1>1. f \o a \in Seq(Place)
  BY ConcatProperties
<1>2. (f \o a) \o b = f \o (a \o b)
  BY ConcatAssociative
<1>3. ((f \o a) \o b) \o c = (f \o a) \o (b \o c)
  BY <1>1, ConcatAssociative
<1> QED
  BY <1>2, <1>3

\* An element that continues a line lengthens what is drawn at its end.
LEMMA GeometryGoesOn ==
  ASSUME NEW edges \in SUBSET Edge, NEW nodes \in SUBSET Node,
         NEW q \in Seq(LineElement), q # << >>, NEW e \in LineElement,
         e.startConnectedNode = q[Len(q)].endConnectedNode
  PROVE  Geometry(Append(q, e), edges, nodes) =
           Geometry(q, edges, nodes)
             \o (EdgePositions(e, edges) \o NodePosition(e.endConnectedNode, nodes))
<1>1. PICK r, n : r = Append(q, e) /\ n = Len(q)
  OBVIOUS
<1>2. /\ r \in Seq(LineElement) /\ r # << >> /\ Len(r) = n + 1 /\ n \in Nat
      /\ r[n + 1] = e /\ \A k \in 1..n : r[k] = q[k]
  BY <1>1
<1>3. PICK w, v, y : /\ w = Ways(q, edges, nodes) /\ v = Ways(r, edges, nodes)
                     /\ y = Way(e, edges, nodes)
  OBVIOUS
<1>4. AreWays(w, q, edges, nodes) /\ MakeLine(w, q, edges, nodes)
  <2>1. w = Ways(q, edges, nodes)
    BY <1>3
  <2> QED
    BY ONLY <2>1, GeometryOfWays, q \in Seq(LineElement), q # << >>,
            edges \in SUBSET Edge, nodes \in SUBSET Node
<1>5. AreWays(v, r, edges, nodes) /\ MakeLine(v, r, edges, nodes)
  <2>1. v = Ways(r, edges, nodes) /\ r \in Seq(LineElement) /\ r # << >>
    BY <1>2, <1>3
  <2> QED
    BY ONLY <2>1, GeometryOfWays, edges \in SUBSET Edge, nodes \in SUBSET Node
<1>w. /\ w \in Seq(Seq(Place)) /\ Len(w) = n
      /\ \A k \in 1..n : w[k] = Way(q[k], edges, nodes)
  BY <1>1, <1>4 DEF AreWays
<1>v. /\ v \in Seq(Seq(Place)) /\ Len(v) = n + 1
      /\ \A k \in 1..n + 1 : v[k] = Way(r[k], edges, nodes)
  BY <1>2, <1>5 DEF AreWays
<1>6. y \in Seq(Place)
  BY <1>3, WayOfElement
<1>7. v = Append(w, y)
  <2>1. PICK u : u = Append(w, y)
    OBVIOUS
  <2>2. /\ u \in Seq(Seq(Place)) /\ Len(u) = n + 1 /\ u[n + 1] = y
        /\ \A k \in 1..n : u[k] = w[k]
    BY ONLY <1>2, <1>w, <1>6, <2>1
  <2>3. ASSUME NEW k \in 1..n + 1
        PROVE  v[k] = u[k]
    <3>1. CASE k \in 1..n
      BY <1>2, <1>w, <1>v, <2>2, <3>1
    <3>2. CASE k = n + 1
      BY <1>2, <1>3, <1>v, <2>2, <3>2
    <3> QED
      BY <1>2, <3>1, <3>2
  <2>4. v = u
    <3>1. Len(v) = Len(u) /\ \A k \in 1..Len(v) : v[k] = u[k]
      BY <1>v, <2>2, <2>3
    <3> QED
      BY ONLY <1>v, <2>2, <3>1, SeqEqual
  <2> QED
    BY <2>1, <2>4
<1>8. PICK f, a, b, c : /\ f = FlattenSeq(w)
                        /\ a = NodePosition(e.startConnectedNode, nodes)
                        /\ b = EdgePositions(e, edges)
                        /\ c = NodePosition(e.endConnectedNode, nodes)
  OBVIOUS
<1>9. /\ f \in Seq(Place) /\ a \in Seq(Place) /\ b \in Seq(Place) /\ c \in Seq(Place)
      /\ y = a \o b
  <2>1. f \in Seq(Place)
    BY <1>8, <1>4 DEF MakeLine
  <2>2. a \in Seq(Place) /\ b \in Seq(Place) /\ c \in Seq(Place)
    BY <1>8, WayOfElement
  <2>3. y = a \o b
    BY <1>3, <1>8 DEF Way
  <2> QED
    BY <2>1, <2>2, <2>3
<1>10. FlattenSeq(v) = f \o y
  BY ONLY <1>w, <1>6, <1>7, <1>8, FlattenAppend
<1>11. Geometry(q, edges, nodes) = f \o a
  BY <1>1, <1>8, <1>4 DEF MakeLine
<1>12. Geometry(r, edges, nodes) = FlattenSeq(v) \o c
  <2>1. Geometry(r, edges, nodes) =
          FlattenSeq(v) \o NodePosition(r[Len(r)].endConnectedNode, nodes)
    BY <1>5 DEF MakeLine
  <2> QED
    BY <1>2, <1>8, <2>1
<1>13. (f \o (a \o b)) \o c = (f \o a) \o (b \o c)
  <2>1. f \in Seq(Place) /\ a \in Seq(Place) /\ b \in Seq(Place) /\ c \in Seq(Place)
    BY ONLY <1>9
  <2>2. Regroups(f, a, b, c)
    BY ONLY <2>1, Regrouped
  <2> QED
    BY ONLY <2>2 DEF Regroups
<1> QED
  BY <1>1, <1>8, <1>9, <1>10, <1>11, <1>12, <1>13

\* An element before a line comes first of what is drawn.
LEMMA GeometryBegins ==
  ASSUME NEW edges \in SUBSET Edge, NEW nodes \in SUBSET Node,
         NEW q \in Seq(LineElement), q # << >>, NEW e \in LineElement
  PROVE  Geometry(<<e>> \o q, edges, nodes) =
           Way(e, edges, nodes) \o Geometry(q, edges, nodes)
<1>1. PICK r, n : r = <<e>> \o q /\ n = Len(q)
  OBVIOUS
<1>2. /\ r \in Seq(LineElement) /\ r # << >> /\ Len(r) = n + 1 /\ n \in Nat \ {0}
      /\ r[1] = e /\ \A k \in 1..n : r[k + 1] = q[k]
  <2>1. <<e>> \in Seq(LineElement) /\ Len(<<e>>) = 1 /\ <<e>>[1] = e
    OBVIOUS
  <2>2. /\ r \in Seq(LineElement) /\ Len(r) = Len(<<e>>) + Len(q)
        /\ \A i \in 1..Len(<<e>>) + Len(q) :
             r[i] = IF i <= Len(<<e>>) THEN <<e>>[i] ELSE q[i - Len(<<e>>)]
    BY ONLY <1>1, <2>1, ConcatProperties, q \in Seq(LineElement)
  <2>3. n \in Nat \ {0}
    BY <1>1, EmptySeq
  <2>4. Len(r) = n + 1 /\ \A i \in 1..n + 1 : r[i] = IF i <= 1 THEN e ELSE q[i - 1]
    BY ONLY <1>1, <2>1, <2>2, <2>3
  <2>5. r # << >>
    BY <2>3, <2>4
  <2>6. 1 \in 1..n + 1 /\ \A k \in 1..n : /\ k + 1 \in 1..n + 1
                                           /\ ~(k + 1 <= 1) /\ (k + 1) - 1 = k
    BY <2>3
  <2> QED
    BY ONLY <2>2, <2>3, <2>4, <2>5, <2>6
<1>3. PICK w, v, y : /\ w = Ways(q, edges, nodes) /\ v = Ways(r, edges, nodes)
                     /\ y = Way(e, edges, nodes)
  OBVIOUS
<1>4. AreWays(w, q, edges, nodes) /\ MakeLine(w, q, edges, nodes)
  <2>1. w = Ways(q, edges, nodes)
    BY <1>3
  <2> QED
    BY ONLY <2>1, GeometryOfWays, q \in Seq(LineElement), q # << >>,
            edges \in SUBSET Edge, nodes \in SUBSET Node
<1>5. AreWays(v, r, edges, nodes) /\ MakeLine(v, r, edges, nodes)
  <2>1. v = Ways(r, edges, nodes) /\ r \in Seq(LineElement) /\ r # << >>
    BY <1>2, <1>3
  <2> QED
    BY ONLY <2>1, GeometryOfWays, edges \in SUBSET Edge, nodes \in SUBSET Node
<1>w. /\ w \in Seq(Seq(Place)) /\ Len(w) = n
      /\ \A k \in 1..n : w[k] = Way(q[k], edges, nodes)
  BY <1>1, <1>4 DEF AreWays
<1>v. /\ v \in Seq(Seq(Place)) /\ Len(v) = n + 1
      /\ \A k \in 1..n + 1 : v[k] = Way(r[k], edges, nodes)
  BY <1>2, <1>5 DEF AreWays
<1>6. y \in Seq(Place)
  BY <1>3, WayOfElement
<1>7. v = <<y>> \o w
  <2>1. PICK u : u = <<y>> \o w
    OBVIOUS
  <2>2. /\ u \in Seq(Seq(Place)) /\ Len(u) = n + 1
        /\ \A i \in 1..n + 1 : u[i] = IF i <= 1 THEN y ELSE w[i - 1]
    <3>1. <<y>> \in Seq(Seq(Place)) /\ Len(<<y>>) = 1 /\ <<y>>[1] = y
      BY <1>6
    <3>2. /\ u \in Seq(Seq(Place)) /\ Len(u) = Len(<<y>>) + Len(w)
          /\ \A i \in 1..Len(<<y>>) + Len(w) :
               u[i] = IF i <= Len(<<y>>) THEN <<y>>[i] ELSE w[i - Len(<<y>>)]
      BY ONLY <1>w, <2>1, <3>1, ConcatProperties
    <3> QED
      BY ONLY <1>2, <1>w, <3>1, <3>2
  <2>3. ASSUME NEW k \in 1..n + 1
        PROVE  v[k] = u[k]
    <3>1. CASE k = 1
      BY <1>2, <1>3, <1>v, <2>2, <3>1
    <3>2. CASE k # 1
      <4>1. PICK j : j = k - 1
        OBVIOUS
      <4>2. j \in 1..n /\ k = j + 1 /\ ~(k <= 1)
        BY <1>2, <3>2, <4>1
      <4>3. u[k] = w[j]
        BY <2>2, <4>1, <4>2
      <4>4. w[j] = Way(q[j], edges, nodes) /\ r[k] = q[j]
        BY <1>2, <1>w, <4>2
      <4> QED
        BY <1>v, <4>3, <4>4
    <3> QED
      BY <3>1, <3>2
  <2>4. v = u
    <3>1. Len(v) = Len(u) /\ \A k \in 1..Len(v) : v[k] = u[k]
      BY <1>v, <2>2, <2>3
    <3> QED
      BY ONLY <1>v, <2>2, <3>1, SeqEqual
  <2> QED
    BY <2>1, <2>4
<1>8. PICK f, c : f = FlattenSeq(w) /\ c = NodePosition(q[n].endConnectedNode, nodes)
  OBVIOUS
<1>9. f \in Seq(Place) /\ c \in Seq(Place) /\ Geometry(q, edges, nodes) = f \o c
  BY <1>1, <1>8, <1>4 DEF MakeLine
<1>10. FlattenSeq(v) = y \o f
  BY ONLY <1>w, <1>6, <1>7, <1>8, FlattenFirst
<1>11. Geometry(r, edges, nodes) = FlattenSeq(v) \o c
  <2>1. Geometry(r, edges, nodes) =
          FlattenSeq(v) \o NodePosition(r[Len(r)].endConnectedNode, nodes)
    BY <1>5 DEF MakeLine
  <2>2. r[Len(r)] = q[n]
    BY <1>2
  <2> QED
    BY <1>8, <2>1, <2>2
<1>12. (y \o f) \o c = y \o (f \o c)
  BY ONLY <1>6, <1>9, ConcatAssociative
<1> QED
  BY <1>1, <1>3, <1>9, <1>10, <1>11, <1>12

\* The last element of a line is the first of the line from its other end.
LEMMA MirrorGoesOn ==
  ASSUME NEW q \in Seq(LineElement), NEW e \in LineElement
  PROVE  /\ Mirror(q) \in Seq(LineElement) /\ Len(Mirror(q)) = Len(q)
         /\ Mirror(Append(q, e)) = <<Turned(e)>> \o Mirror(q)
<1>1. ASSUME NEW r \in Seq(LineElement)
      PROVE  /\ Mirror(r) \in Seq(LineElement) /\ Len(Mirror(r)) = Len(r)
             /\ \A k \in 1..Len(r) : Mirror(r)[k] = Turned(r[Len(r) + 1 - k])
  <2>1. Mirror(r) = [k \in 1..Len(r) |-> Turned(r[Len(r) + 1 - k])]
    BY DEF Mirror, Turned
  <2>2. ASSUME NEW k \in 1..Len(r)
        PROVE  Turned(r[Len(r) + 1 - k]) \in LineElement
    <3>1. r[Len(r) + 1 - k] \in LineElement
      <4>1. Len(r) + 1 - k \in 1..Len(r)
        OBVIOUS
      <4> QED
        BY <4>1
    <3> QED
      BY <3>1, WayOfElement
  <2> QED
    BY <2>1, <2>2
<1>2. PICK r, n : r = Append(q, e) /\ n = Len(q)
  OBVIOUS
<1>3. /\ r \in Seq(LineElement) /\ Len(r) = n + 1 /\ n \in Nat
      /\ r[n + 1] = e /\ \A k \in 1..n : r[k] = q[k]
  BY <1>2
<1>4. PICK m, l, y : m = Mirror(q) /\ l = Mirror(r) /\ y = Turned(e)
  OBVIOUS
<1>5. /\ m \in Seq(LineElement) /\ Len(m) = n
      /\ \A k \in 1..n : m[k] = Turned(q[n + 1 - k])
  BY <1>1, <1>2, <1>4
<1>6. /\ l \in Seq(LineElement) /\ Len(l) = n + 1
      /\ \A k \in 1..n + 1 : l[k] = Turned(r[(n + 1) + 1 - k])
  <2>1. /\ Mirror(r) \in Seq(LineElement) /\ Len(Mirror(r)) = Len(r)
        /\ \A k \in 1..Len(r) : Mirror(r)[k] = Turned(r[Len(r) + 1 - k])
    BY <1>1, <1>3
  <2> QED
    BY <1>3, <1>4, <2>1
<1>7. y \in LineElement
  BY <1>4, WayOfElement
<1>8. PICK u : u = <<y>> \o m
  OBVIOUS
<1>9. /\ u \in Seq(LineElement) /\ Len(u) = n + 1
      /\ \A i \in 1..n + 1 : u[i] = IF i <= 1 THEN y ELSE m[i - 1]
  <2>1. <<y>> \in Seq(LineElement) /\ Len(<<y>>) = 1 /\ <<y>>[1] = y
    BY <1>7
  <2>2. /\ u \in Seq(LineElement) /\ Len(u) = Len(<<y>>) + Len(m)
        /\ \A i \in 1..Len(<<y>>) + Len(m) :
             u[i] = IF i <= Len(<<y>>) THEN <<y>>[i] ELSE m[i - Len(<<y>>)]
    BY ONLY <1>5, <1>8, <2>1, ConcatProperties
  <2> QED
    BY ONLY <1>3, <1>5, <2>1, <2>2
<1>10. ASSUME NEW k \in 1..n + 1
       PROVE  l[k] = u[k]
  <2>1. CASE k = 1
    <3>1. (n + 1) + 1 - k = n + 1 /\ k <= 1
      BY <1>3, <2>1
    <3> QED
      BY <1>3, <1>4, <1>6, <1>9, <3>1
  <2>2. CASE k # 1
    <3>1. PICK j : j = k - 1
      OBVIOUS
    <3>2. /\ j \in 1..n /\ ~(k <= 1) /\ n + 1 - j \in 1..n
          /\ (n + 1) + 1 - k = n + 1 - j
      BY <1>3, <2>2, <3>1
    <3>3. u[k] = m[j] /\ l[k] = Turned(r[n + 1 - j])
      BY <1>6, <1>9, <3>1, <3>2
    <3> QED
      BY <1>3, <1>5, <3>2, <3>3
  <2> QED
    BY <2>1, <2>2
<1>11. l = u
  <2>1. Len(l) = Len(u) /\ \A k \in 1..Len(l) : l[k] = u[k]
    BY <1>6, <1>9, <1>10
  <2> QED
    BY ONLY <1>6, <1>9, <2>1, SeqEqual
<1>12. Mirror(q) \in Seq(LineElement) /\ Len(Mirror(q)) = Len(q)
  BY <1>1
<1> QED
  BY <1>2, <1>4, <1>8, <1>11, <1>12

\* One element, backwards.
LEMMA ElementBackwards ==
  ASSUME NEW edges \in SUBSET Edge, NEW nodes \in SUBSET Node, NEW e \in LineElement
  PROVE  /\ Geometry(<<e>>, edges, nodes) =
              Way(e, edges, nodes) \o NodePosition(e.endConnectedNode, nodes)
         /\ Geometry(<<Turned(e)>>, edges, nodes) =
              Reverse(Geometry(<<e>>, edges, nodes))
         /\ Reverse(EdgePositions(e, edges) \o NodePosition(e.endConnectedNode, nodes))
              = Way(Turned(e), edges, nodes)
<1>1. PICK a, b, c : /\ a = NodePosition(e.startConnectedNode, nodes)
                     /\ b = EdgePositions(e, edges)
                     /\ c = NodePosition(e.endConnectedNode, nodes)
  OBVIOUS
<1>2. a \in Seq(Place) /\ b \in Seq(Place) /\ c \in Seq(Place)
  BY <1>1, WayOfElement
<1>3. Reverse(a) = a /\ Reverse(c) = c
  BY <1>1 DEF NodePosition, Reverse
<1>4. Reverse(b) \in Seq(Place) /\ Reverse(b \o c) = Reverse(c) \o Reverse(b)
  BY ONLY <1>2, Backwards
<1>5. Way(e, edges, nodes) = a \o b
  BY <1>1 DEF Way
<1>6. Way(Turned(e), edges, nodes) = c \o Reverse(b)
  <2>1. EdgePositions(Turned(e), edges) = Reverse(b)
    BY <1>1, WayOfElement
  <2>2. Turned(e).startConnectedNode = e.endConnectedNode
    BY DEF Turned
  <2> QED
    BY <1>1, <2>1, <2>2 DEF Way
<1>7. ASSUME NEW x \in LineElement
      PROVE  Geometry(<<x>>, edges, nodes) =
               Way(x, edges, nodes) \o NodePosition(x.endConnectedNode, nodes)
  <2>1. PICK q, w : q = <<x>> /\ w = Ways(q, edges, nodes)
    OBVIOUS
  <2>2. q \in Seq(LineElement) /\ q # << >> /\ Len(q) = 1 /\ q[1] = x
    BY <2>1
  <2>3. AreWays(w, q, edges, nodes) /\ MakeLine(w, q, edges, nodes)
    <3>1. w = Ways(q, edges, nodes)
      BY <2>1
    <3> QED
      BY ONLY <2>2, <3>1, GeometryOfWays, edges \in SUBSET Edge, nodes \in SUBSET Node
  <2>4. PICK y : y = Way(x, edges, nodes)
    OBVIOUS
  <2>5. y \in Seq(Place) /\ << >> \in Seq(Seq(Place))
    <3>1. Way(x, edges, nodes) \in Seq(Place)
      BY ONLY WayOfElement, x \in LineElement,
              edges \in SUBSET Edge, nodes \in SUBSET Node
    <3> QED
      BY <2>4, <3>1
  <2>6. w = Append(<< >>, y)
    <3>1. w \in Seq(Seq(Place)) /\ Len(w) = 1 /\ w[1] = y
      BY <2>2, <2>3, <2>4 DEF AreWays
    <3>2. PICK u : u = Append(<< >>, y)
      OBVIOUS
    <3>3. u \in Seq(Seq(Place)) /\ Len(u) = 1 /\ u[1] = y
      BY <2>5, <3>2
    <3>4. \A i \in 1..1 : w[i] = u[i]
      BY <3>1, <3>3
    <3>5. w = u
      BY ONLY <3>1, <3>3, <3>4, SeqEqual
    <3> QED
      BY <3>2, <3>5
  <2>7. FlattenSeq(w) = y
    <3>1. FlattenSeq(w) = FlattenSeq(<< >>) \o y /\ FlattenSeq(<< >>) = << >>
      BY ONLY <2>5, <2>6, FlattenAppend
    <3>2. << >> \o y = y
      BY ONLY <2>5, ConcatEmptySeq
    <3> QED
      BY ONLY <3>1, <3>2
  <2> QED
    BY <2>1, <2>2, <2>3, <2>4, <2>7 DEF MakeLine
<1>8. Geometry(<<e>>, edges, nodes) = (a \o b) \o c
  BY <1>1, <1>5, <1>7
<1>9. Geometry(<<Turned(e)>>, edges, nodes) = (c \o Reverse(b)) \o a
  <2>1. Turned(e) \in LineElement
    BY WayOfElement
  <2>2. Turned(e).endConnectedNode = e.startConnectedNode
    BY DEF Turned
  <2>3. Geometry(<<Turned(e)>>, edges, nodes) =
          Way(Turned(e), edges, nodes) \o NodePosition(Turned(e).endConnectedNode, nodes)
    BY <1>7, <2>1
  <2> QED
    BY <1>1, <1>6, <2>2, <2>3
<1>10. Reverse((a \o b) \o c) = (c \o Reverse(b)) \o a
  <2>1. a \o b \in Seq(Place)
    BY ONLY <1>2, ConcatProperties
  <2>2. Reverse((a \o b) \o c) = Reverse(c) \o Reverse(a \o b)
    BY ONLY <1>2, <2>1, Backwards
  <2>3. Reverse(a \o b) = Reverse(b) \o Reverse(a)
    BY ONLY <1>2, Backwards
  <2>4. PICK d : d = Reverse(b)
    OBVIOUS
  <2>5. c \in Seq(Place) /\ d \in Seq(Place) /\ a \in Seq(Place)
    BY <1>2, <1>4, <2>4
  <2>6. (c \o d) \o a = c \o (d \o a)
    BY ONLY <2>5, ConcatAssociative
  <2> QED
    BY ONLY <1>3, <2>2, <2>3, <2>4, <2>6
<1> QED
  BY <1>1, <1>3, <1>4, <1>5, <1>6, <1>8, <1>9, <1>10

\* A line in order, drawn from its other end.
LEMMA LineBackwards ==
  ASSUME NEW edges \in SUBSET Edge, NEW nodes \in SUBSET Node,
         NEW string \in Seq(LineElement), string # << >>, Chained(string)
  PROVE  Geometry(Mirror(string), edges, nodes) =
           Reverse(Geometry(string, edges, nodes))
<1> DEFINE Back(q) == Geometry(Mirror(q), edges, nodes) = Reverse(Geometry(q, edges, nodes))
           T == {q \in Seq(LineElement) : q # << >> /\ Chained(q) => Back(q)}
<1>1. << >> \in T
  OBVIOUS
<1>2. ASSUME NEW q \in Seq(LineElement), q # << >> /\ Chained(q) => Back(q),
             NEW e \in LineElement, Chained(Append(q, e))
      PROVE  Back(Append(q, e))
  <2>1. PICK r, n : r = Append(q, e) /\ n = Len(q)
    OBVIOUS
  <2>2. /\ r \in Seq(LineElement) /\ Len(r) = n + 1 /\ n \in Nat
        /\ r[n + 1] = e /\ \A k \in 1..n : r[k] = q[k]
    BY <2>1
  <2>3. PICK m, f : m = Mirror(q) /\ f = Turned(e)
    OBVIOUS
  <2>4. Mirror(r) = <<f>> \o m /\ m \in Seq(LineElement) /\ Len(m) = n
    BY <2>1, <2>3, MirrorGoesOn
  <2>5. f \in LineElement
    BY <2>3, WayOfElement
  <2>6. CASE q = << >>
    <3>1. r = <<e>> /\ m = << >>
      BY <2>1, <2>4, <2>6
    <3>2. <<f>> \o << >> = <<f>>
      BY <2>5
    <3>3. Mirror(r) = <<f>>
      BY <2>4, <3>1, <3>2
    <3>4. Geometry(<<f>>, edges, nodes) = Reverse(Geometry(<<e>>, edges, nodes))
      BY <2>3, ElementBackwards
    <3> QED
      BY <2>1, <3>1, <3>3, <3>4
  <2>7. CASE q # << >>
    <3>1. n \in Nat \ {0}
      BY <2>1, <2>7, EmptySeq
    <3>2. Chained(q)
      <4>1. \A k \in 2..n : k \in 2..n + 1 /\ k - 1 \in 1..n /\ k \in 1..n
        BY <3>1
      <4>2. \A k \in 2..n + 1 : r[k].startConnectedNode = r[k - 1].endConnectedNode
        BY <1>2, <2>1, <2>2 DEF Chained
      <4> QED
        BY <2>1, <2>2, <4>1, <4>2 DEF Chained
    <3>3. e.startConnectedNode = q[n].endConnectedNode
      <4>1. n + 1 \in 2..Len(r) /\ (n + 1) - 1 = n /\ n \in 1..n
        BY <2>2, <3>1
      <4> QED
        BY <1>2, <2>1, <2>2, <4>1 DEF Chained
    <3>4. PICK g, h, t : /\ g = Geometry(q, edges, nodes)
                         /\ h = Geometry(m, edges, nodes)
                         /\ t = EdgePositions(e, edges)
                                  \o NodePosition(e.endConnectedNode, nodes)
      OBVIOUS
    <3>5. Geometry(r, edges, nodes) = g \o t
      BY <2>1, <2>7, <3>3, <3>4, GeometryGoesOn
    <3>6. m # << >>
      BY <2>4, <3>1
    <3>7. Geometry(Mirror(r), edges, nodes) = Way(f, edges, nodes) \o h
      <4>1. Geometry(<<f>> \o m, edges, nodes) = Way(f, edges, nodes) \o h
        BY ONLY <2>4, <2>5, <3>4, <3>6, GeometryBegins,
                edges \in SUBSET Edge, nodes \in SUBSET Node
      <4> QED
        BY ONLY <2>4, <4>1
    <3>8. h = Reverse(g)
      BY <1>2, <2>3, <2>7, <3>2, <3>4
    <3>9. Reverse(t) = Way(f, edges, nodes)
      BY <2>3, <3>4, ElementBackwards
    <3>10. g \in Seq(Place) /\ t \in Seq(Place)
      <4>1. PICK w : w = Ways(q, edges, nodes)
        OBVIOUS
      <4>2. MakeLine(w, q, edges, nodes)
        BY ONLY <2>7, <4>1, GeometryOfWays, q \in Seq(LineElement),
                edges \in SUBSET Edge, nodes \in SUBSET Node
      <4>3. /\ EdgePositions(e, edges) \in Seq(Place)
            /\ NodePosition(e.endConnectedNode, nodes) \in Seq(Place)
        BY WayOfElement
      <4>4. t \in Seq(Place)
        BY ONLY <3>4, <4>3, ConcatProperties
      <4> QED
        BY <3>4, <4>2, <4>4 DEF MakeLine
    <3>11. Reverse(g \o t) = Reverse(t) \o Reverse(g)
      BY ONLY <3>10, Backwards
    <3> QED
      BY <2>1, <3>5, <3>7, <3>8, <3>9, <3>11
  <2> QED
    BY <2>6, <2>7
<1>3. T \in SUBSET Seq(LineElement)
  OBVIOUS
<1>4. ASSUME NEW q \in T, NEW e \in LineElement
      PROVE  Append(q, e) \in T
  <2>1. q \in Seq(LineElement) /\ (q # << >> /\ Chained(q) => Back(q))
    BY Zenon
  <2>2. Append(q, e) \in Seq(LineElement)
    BY ONLY <2>1, e \in LineElement
  <2>3. Chained(Append(q, e)) => Back(Append(q, e))
    BY <1>2, <2>1
  <2> QED
    BY <2>2, <2>3, Zenon
<1> HIDE DEF T
<1>5. T = Seq(LineElement)
  BY <1>1, <1>3, <1>4, SequenceInduction
<1>6. string \in T
  BY <1>5
<1> QED
  BY <1>6, Zenon DEF T

-----------------------------------------------------------------------------
\* A line string is drawn with the places of the tables.
LEMMA Drawn ==
  ASSUME LinesTypeOK, NEW i \in 1..Len(lineStrings)
  PROVE  /\ lineStrings[i] \in Seq(LineElement) /\ lineStrings[i] # << >>
         /\ Geometry(lineStrings[i], vectorEdges, connectedNodes) \in Seq(Place)
<1>1. PICK q, edges, nodes : /\ q = lineStrings[i]
                             /\ edges = vectorEdges /\ nodes = connectedNodes
  OBVIOUS
<1>2. q \in Seq(LineElement) /\ q # << >>
  <2>1. q \in Seq(Element) /\ q # << >>
    BY <1>1 DEF LinesTypeOK
  <2>2. Element \subseteq LineElement
    BY LinesConstants
  <2> QED
    BY ONLY <2>1, <2>2, SeqMonotonic
<1>3. edges \in SUBSET Edge /\ nodes \in SUBSET Node
  BY <1>1 DEF LinesTypeOK
<1>4. PICK w : w = Ways(q, edges, nodes)
  OBVIOUS
<1>5. MakeLine(w, q, edges, nodes)
  BY ONLY <1>2, <1>3, <1>4, GeometryOfWays
<1> QED
  BY <1>1, <1>2, <1>5 DEF MakeLine

\* The next line string is drawn, the others stay as they are.
LEMMA DrawStep ==
  ASSUME LinesTypeOK, DrawnAsJoined, DrawLineString
  PROVE  LinesTypeOK' /\ DrawnAsJoined'
<1>1. PICK n, g : /\ n = Len(geometries)
                  /\ g = Geometry(lineStrings[n + 1], vectorEdges, connectedNodes)
  OBVIOUS
<1>2. n \in Nat /\ n + 1 \in 1..Len(lineStrings) /\ Len(lineStrings) \in Nat
  BY <1>1 DEF LinesTypeOK, DrawLineString
<1>3. g \in Seq(Place)
  BY <1>1, <1>2, Drawn
<1>4. /\ geometries \in Seq(Seq(Place)) /\ geometries' = Append(geometries, g)
      /\ UNCHANGED <<elements, lineStrings, vectorEdges, connectedNodes>>
  BY <1>1 DEF LinesTypeOK, DrawLineString, Place
<1>5. /\ geometries' \in Seq(Seq(Place)) /\ Len(geometries') = n + 1
      /\ geometries'[n + 1] = g
      /\ \A i \in 1..n : geometries'[i] = geometries[i]
  BY ONLY <1>1, <1>3, <1>4
<1>6. LinesTypeOK'
  BY <1>2, <1>4, <1>5 DEF LinesTypeOK, Place
<1>7. ASSUME NEW i \in 1..n + 1
      PROVE  geometries'[i] =
               Geometry(lineStrings[i], vectorEdges, connectedNodes)
  <2>1. i \in 1..n \/ i = n + 1
    BY <1>2
  <2> QED
    BY <1>1, <1>5, <2>1 DEF DrawnAsJoined
<1>8. DrawnAsJoined'
  <2>1. ASSUME NEW string
        PROVE  Geometry(string, vectorEdges, connectedNodes)' =
                 Geometry(string, vectorEdges, connectedNodes)
    BY <1>4
  <2> QED
    BY <1>4, <1>5, <1>7 DEF DrawnAsJoined
<1> QED
  BY <1>6, <1>8

-----------------------------------------------------------------------------
\* IInv holds in every reachable state.
THEOREM Invariance == Spec => []IInv
<1>1. Init => IInv
  BY DEF Init, IInv, LinesTypeOK, ChainIsOneLine, ElementsKept,
         RunsStayApart, DrawnTwiceOnlyIfBridging, DrawnAsJoined
<1>2. IInv /\ [Next]_vars => IInv'
  <2> HAVE IInv /\ [Next]_vars
  <2>1. ASSUME NEW e \in Element, JoinElement(e)
        PROVE  IInv'
    <3>1. lineStrings' \in Seq(LineString)
      BY <2>1, Joined DEF IInv, LinesTypeOK, LineString, JoinElement
    <3>2. LinesTypeOK'
      BY <2>1, <3>1 DEF IInv, LinesTypeOK, LineString, JoinElement
    <3>3. DrawnAsJoined'
      BY <2>1 DEF DrawnAsJoined, JoinElement
    <3> QED
      BY <2>1, <3>2, <3>3, ChainStep, KeptStep, RunsStep, BridgingStep
      DEF IInv
  <2>2. CASE DrawLineString
    <3>1. UNCHANGED <<elements, lineStrings>>
      BY <2>2 DEF DrawLineString
    <3>2. LinesTypeOK' /\ DrawnAsJoined'
      BY <2>2, DrawStep DEF IInv
    <3> QED
      BY <3>1, <3>2, Unmoved DEF IInv
  <2>3. CASE UNCHANGED vars
    <3>1. LinesTypeOK' /\ UNCHANGED <<elements, lineStrings>>
      BY <2>3 DEF vars, IInv, LinesTypeOK
    <3>2. DrawnAsJoined'
      BY <2>3 DEF vars, IInv, DrawnAsJoined
    <3> QED
      BY <3>1, <3>2, Unmoved DEF IInv
  <2> QED
    BY <2>1, <2>2, <2>3 DEF Next
<1> QED
  BY <1>1, <1>2, PTL DEF Spec

\* Line strings are made of line elements of the object, and none is empty.
THEOREM LinesTypeCorrect == Spec => []LinesTypeOK
BY Invariance, PTL DEF IInv

\* However many elements there are, elements in order make one line.
THEOREM ChainsBecomeLines == Spec => []ChainIsOneLine
BY Invariance, PTL DEF IInv

\* No line element of an object is ever lost, nor one invented.
THEOREM NothingLost == Spec => []ElementsKept
BY Invariance, PTL DEF IInv

\* However many rings an area has, rings that share no node stay apart.
THEOREM RingsStayApart == Spec => []RunsStayApart
BY Invariance, PTL DEF IInv

\* Where no two elements start or end at the same node, an element is drawn
\* more than once only if it connects two lines.
THEOREM OnlyBridgesRepeat == Spec => []DrawnTwiceOnlyIfBridging
BY Invariance, PTL DEF IInv

\* However long a line is, and whatever its edges hold, it passes the same
\* positions backwards when it is drawn from its other end.
THEOREM DrawnEitherWay == Spec => []DrawnBackwards
<1>1. IInv => DrawnBackwards
  <2> SUFFICES ASSUME IInv, NEW i \in 1..Len(geometries), Chained(lineStrings[i])
               PROVE  Geometry(Mirror(lineStrings[i]), vectorEdges, connectedNodes)
                        = Reverse(geometries[i])
    BY DEF DrawnBackwards
  <2>1. PICK q, edges, nodes : /\ q = lineStrings[i]
                               /\ edges = vectorEdges /\ nodes = connectedNodes
    OBVIOUS
  <2>2. i \in 1..Len(lineStrings)
    BY DEF IInv, LinesTypeOK
  <2>3. q \in Seq(LineElement) /\ q # << >> /\ Chained(q)
    BY <2>1, <2>2, Drawn DEF IInv
  <2>4. edges \in SUBSET Edge /\ nodes \in SUBSET Node
    BY <2>1 DEF IInv, LinesTypeOK
  <2>5. Geometry(Mirror(q), edges, nodes) = Reverse(Geometry(q, edges, nodes))
    BY ONLY <2>3, <2>4, LineBackwards
  <2> QED
    BY <2>1, <2>5 DEF IInv, DrawnAsJoined
<1> QED
  BY <1>1, Invariance, PTL

=============================================================================
