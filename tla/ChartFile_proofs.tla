---------------------------- MODULE ChartFile_proofs ----------------------------
(***************************************************************************)
(* For streams of any records, of any length, and any number of calls: the *)
(* types; that readHeaders has no object to give attributes to; what a     *)
(* call answers; and that header, objects and lines are those of the       *)
(* records it has read.                                                    *)
(***************************************************************************)
EXTENDS ChartFile, Lemmas, TLAPS

\* The objects are numbered without a gap, whatever they hold.
ObjectsNumbered == \E S : objects \in Seq(S)

\* Only read takes a feature record, and no call starts with an object.
NoObjectInHeaders == call = "readHeaders" => current = 0

IInv == ChartTypeOK /\ ObjectsNumbered /\ NoObjectInHeaders

\* Building the geometries leaves as many objects as there were.
LEMMA BuiltLength ==
  ASSUME ObjectsNumbered, objects' = Built
  PROVE  ObjectsNumbered' /\ Len(objects') = Len(objects)
<1> DEFINE new(k) == Built[k]
           T == {new(k) : k \in 1..Len(objects)}
<1>1. Len(objects) \in Nat
  BY DEF ObjectsNumbered
<1>2. Built = [k \in 1..Len(objects) |-> new(k)]
  BY DEF Built
<1> HIDE DEF new
<1>3. Built \in Seq(T) /\ Len(Built) = Len(objects)
  BY <1>1, <1>2
<1> QED
  BY <1>3 DEF ObjectsNumbered

\* A change of one object leaves the others numbered as they are.
LEMMA OneChanged ==
  ASSUME ObjectsNumbered, NEW k, NEW object,
         objects' = [objects EXCEPT ![k] = object]
  PROVE  ObjectsNumbered' /\ Len(objects') = Len(objects)
<1>1. PICK S : objects \in Seq(S)
  BY DEF ObjectsNumbered
<1> DEFINE new(i) == IF i = k THEN object ELSE objects[i]
           T == {new(i) : i \in 1..Len(objects)}
<1>2. /\ Len(objects) \in Nat
      /\ DOMAIN objects = 1..Len(objects)
  BY <1>1
<1>3. objects' = [i \in 1..Len(objects) |-> new(i)]
  <2>1. objects' = [i \in DOMAIN objects |-> new(i)]
    OBVIOUS
  <2> QED
    BY <1>2, <2>1
<1>4. ASSUME NEW n \in Nat, NEW longer, longer = [i \in 1..n |-> new(i)],
             n = Len(objects)
      PROVE  longer \in Seq(T) /\ Len(longer) = n
  <2> HIDE DEF new
  <2> QED
    BY <1>4
<1>5. objects' \in Seq(T) /\ Len(objects') = Len(objects)
  BY <1>2, <1>3, <1>4
<1> QED
  BY <1>5 DEF ObjectsNumbered

\* A call that returns leaves as many objects as there were.
LEMMA Returned ==
  ASSUME IInv, NEW ok \in BOOLEAN, Return(ok), ended' \in BOOLEAN
  PROVE  IInv'
<1>1. ObjectsNumbered' /\ Len(objects') = Len(objects)
  <2>1. CASE objects' = objects
    BY <2>1 DEF IInv, ObjectsNumbered
  <2>2. CASE objects' = Built
    BY <2>2, BuiltLength DEF IInv
  <2> QED
    BY <2>1, <2>2 DEF Return
<1>2. /\ call' = "none" /\ result' \in {"true", "false"}
      /\ UNCHANGED <<current, header, vectorEdges, connectedNodes, calls>>
  BY DEF Return, tables
<1> QED
  BY <1>1, <1>2 DEF IInv, ChartTypeOK, NoObjectInHeaders

\* The types are kept by every step.
LEMMA ChartStep ==
  ASSUME IInv, [Next]_vars
  PROVE  IInv'
<1>1. ASSUME UNCHANGED <<objects, current, call, result, calls>>,
             ended' \in BOOLEAN, DOMAIN header' = Field,
             DOMAIN vectorEdges' = Index, DOMAIN connectedNodes' = Index
      PROVE  IInv'
  BY <1>1 DEF IInv, ChartTypeOK, ObjectsNumbered, NoObjectInHeaders
<1>2. ASSUME NEW which \in {"readHeaders", "read"}, Begin(which)
      PROVE  IInv'
  BY <1>2, ChartConstants DEF Begin, EmptyTable, chart, IInv, ChartTypeOK,
     ObjectsNumbered, NoObjectInHeaders
<1>3. CASE EndOfStream
  BY <1>3, Returned DEF EndOfStream
<1>4. ASSUME NEW r \in Record, TakeRecord(r)
      PROVE  IInv'
  <2>1. CASE Refuse(r) \/ Stop(r) \/ CutShort(r)
    BY <2>1, Returned DEF Refuse, Stop, CutShort, Reads, IInv, ChartTypeOK
  <2>2. CASE CheckStatus(r)
    BY <2>2, <1>1, Returned DEF CheckStatus, Reads, GoesOn, chart, tables, IInv,
       ChartTypeOK
  <2>3. CASE SetHeader(r) \/ SetExtent(r) \/ Skip(r)
    BY <2>3, <1>1 DEF SetHeader, SetExtent, Skip, Reads, GoesOn, chart, tables,
       IInv, ChartTypeOK
  <2>4. CASE ReadEdges(r) \/ ReadNodes(r)
    BY <2>4, <1>1 DEF ReadEdges, ReadNodes, Extended, Reads, GoesOn, chart, IInv,
       ChartTypeOK
  <2>5. CASE NewFeature(r)
    <3>1. PICK S : objects \in Seq(S)
      BY DEF IInv, ObjectsNumbered
    <3>2. /\ objects' \in Seq(S \cup {EmptyObject(r.value)})
          /\ current' = Len(objects')
      BY <2>5, <3>1 DEF NewFeature
    <3> QED
      BY <2>5, <3>2 DEF NewFeature, Reads, GoesOn, tables, IInv, ChartTypeOK,
         ObjectsNumbered, NoObjectInHeaders
  <2>6. CASE SetAttribute(r) \/ SetGeometry(r)
    <3>1. \/ objects' = objects
          \/ \E object : objects' = [objects EXCEPT ![current] = object]
      BY <2>6 DEF SetAttribute, SetGeometry
    <3>2. ObjectsNumbered' /\ Len(objects') = Len(objects)
      BY <3>1, OneChanged DEF IInv, ObjectsNumbered
    <3> QED
      BY <2>6, <3>2 DEF SetAttribute, SetGeometry, Reads, GoesOn, tables, IInv,
         ChartTypeOK, NoObjectInHeaders
  <2> QED
    BY <1>4, <2>1, <2>2, <2>3, <2>4, <2>5, <2>6 DEF TakeRecord
<1>5. CASE UNCHANGED vars
  BY <1>5, <1>1 DEF vars, chart, tables, IInv, ChartTypeOK
<1> QED
  BY <1>2, <1>3, <1>4, <1>5 DEF Next

\* A record that readHeaders reads changes no object.
LEMMA HeadersStep ==
  ASSUME NoObjectInHeaders, call = "readHeaders", Next
  PROVE  objects' = objects
<1>1. current = 0
  BY DEF NoObjectInHeaders
<1>2. ASSUME NEW r \in Record, TakeRecord(r)
      PROVE  objects' = objects
  <2>1. CASE Refuse(r) \/ Stop(r) \/ CutShort(r) \/ CheckStatus(r)
    BY <2>1 DEF Refuse, Stop, CutShort, CheckStatus, Return, chart
  <2>2. CASE SetHeader(r) \/ SetExtent(r) \/ Skip(r) \/ ReadEdges(r) \/ ReadNodes(r)
    BY <2>2 DEF SetHeader, SetExtent, Skip, ReadEdges, ReadNodes, chart
  <2>3. CASE NewFeature(r)
    BY <2>3 DEF NewFeature
  <2>4. CASE SetAttribute(r) \/ SetGeometry(r)
    BY <2>4, <1>1 DEF SetAttribute, SetGeometry
  <2> QED
    BY <1>2, <2>1, <2>2, <2>3, <2>4 DEF TakeRecord
<1>3. CASE EndOfStream
  BY <1>3 DEF EndOfStream, Return
<1>4. CASE Begin("readHeaders") \/ Begin("read")
  BY <1>4 DEF Begin
<1> QED
  BY <1>2, <1>3, <1>4 DEF Next

-----------------------------------------------------------------------------
\* IInv holds in every reachable state.
THEOREM Invariance == Spec => []IInv
<1>1. Init => IInv
  <2> SUFFICES ASSUME Init PROVE IInv
    OBVIOUS
  <2>1. objects \in Seq({}) /\ Len(objects) = 0
    BY DEF Init
  <2> QED
    <3>1. ChartTypeOK
      <4>1. /\ DOMAIN header = Field
            /\ DOMAIN vectorEdges = Index /\ DOMAIN connectedNodes = Index
        BY DEF Init, EmptyTable
      <4>2. calls \in 0..MaxCalls /\ current \in {0, Len(objects)}
        BY <2>1, ChartConstants DEF Init
      <4> QED
        BY <4>1, <4>2 DEF Init, ChartTypeOK
    <3>2. ObjectsNumbered
      BY <2>1 DEF ObjectsNumbered
    <3>3. NoObjectInHeaders
      BY DEF Init, NoObjectInHeaders
    <3> QED
      BY <3>1, <3>2, <3>3 DEF IInv
<1>2. IInv /\ [Next]_vars => IInv'
  BY ChartStep
<1> QED
  BY <1>1, <1>2, PTL DEF Spec

\* Whatever the stream holds, every variable keeps its type, and records go to
\* the last object or to none.
THEOREM ChartTypeCorrect == Spec => []ChartTypeOK
BY Invariance, PTL DEF IInv

\* readHeaders changes no object, whatever records it meets and however often
\* it is called.
THEOREM HeadersLeaveObjectsAlone == Spec => HeadersLeaveObjects
<1>1. IInv /\ [Next]_vars => [call = "readHeaders" => objects' = objects]_vars
  BY HeadersStep DEF IInv
<1> QED
  BY <1>1, Invariance, PTL DEF Spec, HeadersLeaveObjects

-----------------------------------------------------------------------------
(* What the records read so far say, as a call that is in progress or done  *)
(* has understood it.                                                       *)

\* The history is a sequence, and every set of places in it has a last one:
\* so LastValue is the value of a record.
TakenNumbered == \E S : taken \in Seq(S)
HasLast ==
  \A S \in SUBSET (1..Len(taken)) : S # {} => \E m \in S : \A j \in S : m >= j

\* A record more has a place of its own, and leaves the others theirs.
LEMMA OneTaken ==
  ASSUME TakenNumbered, NEW e, taken' = Append(taken, e)
  PROVE  /\ Len(taken) \in Nat /\ Len(taken') = Len(taken) + 1
         /\ \A i \in 1..Len(taken) : taken'[i] = taken[i]
         /\ taken'[Len(taken) + 1] = e
         /\ TakenNumbered'
<1>1. PICK S : taken \in Seq(S)
  BY DEF TakenNumbered
<1>2. taken \in Seq(S \cup {e}) /\ e \in S \cup {e}
  BY <1>1
<1>3. taken' \in Seq(S \cup {e})
  BY <1>2
<1>4. TakenNumbered'
  BY <1>3 DEF TakenNumbered
<1> QED
  BY <1>1, <1>4

\* With one more record taken, every set of places still has a last one.
LEMMA LastGrows ==
  ASSUME TakenNumbered, HasLast, NEW e, taken' = Append(taken, e)
  PROVE  HasLast'
<1>1. Len(taken) \in Nat /\ Len(taken') = Len(taken) + 1
  BY OneTaken
<1> SUFFICES ASSUME NEW S \in SUBSET (1..Len(taken) + 1), S # {}
             PROVE  \E m \in S : \A j \in S : m >= j
  BY <1>1 DEF HasLast
<1>2. CASE Len(taken) + 1 \in S
  BY <1>1, <1>2
<1>3. CASE Len(taken) + 1 \notin S
  <2>1. S \in SUBSET (1..Len(taken))
    BY <1>1, <1>3
  <2> QED
    BY <2>1 DEF HasLast
<1> QED
  BY <1>2, <1>3

\* The last value of a set of places is that of the new record if it is one
\* of them, and otherwise the one it was.
LEMMA Recent ==
  ASSUME TakenNumbered, HasLast, NEW e, taken' = Append(taken, e),
         NEW S \in SUBSET (1..Len(taken)), NEW T, T \in {S, S \cup {Len(taken) + 1}}
  PROVE  /\ T # {} => Max(T) = IF T = S THEN Max(S) ELSE Len(taken) + 1
         /\ (IF T = {} THEN NoValue ELSE taken'[Max(T)].value) =
              IF T = S THEN LastValue(S) ELSE e.value
<1>1. /\ Len(taken) \in Nat
      /\ \A i \in 1..Len(taken) : taken'[i] = taken[i]
      /\ taken'[Len(taken) + 1] = e
  BY OneTaken
<1>2. CASE T = S
  <2>1. CASE S = {}
    BY <1>2, <2>1 DEF LastValue
  <2>2. CASE S # {}
    <3>1. Max(S) \in S
      BY <2>2 DEF HasLast, Max
    <3> QED
      BY <1>1, <1>2, <2>2, <3>1 DEF LastValue
  <2> QED
    BY <2>1, <2>2
<1>3. CASE T # S
  <2>1. T = S \cup {Len(taken) + 1} /\ \A j \in T : Len(taken) + 1 >= j
    BY <1>1, <1>3
  <2>2. \A m \in T : (\A j \in T : m >= j) => m = Len(taken) + 1
    BY <1>1, <2>1
  <2>3. Max(T) = Len(taken) + 1
    BY <2>1, <2>2 DEF Max
  <2> QED
    BY <1>1, <1>3, <2>1, <2>3
<1> QED
  BY <1>2, <1>3

\* What a step adds to the history, and what it does with the header.
LEMMA HeaderAction ==
  ASSUME [Next]_vars
  PROVE  \/ UNCHANGED <<taken, header, extent>>
         \/ \E e : /\ taken' = Append(taken, e)
                   /\ e.kind \notin {"extent", "header", "version"} \/ Refused(e)
                   /\ e.kind # "extent" /\ e.kind # "header"
                   /\ UNCHANGED <<header, extent>>
         \/ \E r \in Record : r.kind = "extent" /\ SetExtent(r)
         \/ \E r \in Record : r.kind \in {"version", "header"} /\ SetHeader(r)
<1>1. ASSUME NEW which, Begin(which)
      PROVE  /\ taken' = Append(taken, Mark("begin")) /\ Mark("begin").kind = "begin"
             /\ UNCHANGED <<header, extent>>
  BY <1>1 DEF Begin, chart, Mark
<1>2. ASSUME EndOfStream
      PROVE  /\ taken' = Append(taken, Finished) /\ Finished.kind \in {"built", "stopped"}
             /\ UNCHANGED <<header, extent>>
  BY <1>2 DEF EndOfStream, Return, Finished, Mark
<1>3. ASSUME NEW r \in Record, Stop(r) \/ CutShort(r)
      PROVE  \E e : /\ taken' = Append(taken, e) /\ e.kind \in {"built", "stopped", "cut"}
                    /\ UNCHANGED <<header, extent>>
  BY <1>3 DEF Stop, CutShort, Return, Finished, Mark
<1>4. ASSUME NEW r \in Record,
             Refuse(r) \/ CheckStatus(r) \/ Skip(r) \/ NewFeature(r) \/ SetAttribute(r)
               \/ SetGeometry(r) \/ ReadEdges(r) \/ ReadNodes(r)
      PROVE  /\ taken' = Append(taken, r)
             /\ r.kind \notin {"extent", "header", "version"} \/ Refused(r)
             /\ r.kind # "extent" /\ r.kind # "header"
             /\ UNCHANGED <<header, extent>>
  BY <1>4 DEF Refuse, Refused, CheckStatus, Skip, NewFeature, SetAttribute, SetGeometry,
     GeometryKinds, ReadEdges, ReadNodes, Reads, Return, chart
<1>5. ASSUME NEW r \in Record, SetHeader(r)
      PROVE  r.kind \in {"version", "header"}
  BY <1>5 DEF SetHeader
<1>6. ASSUME NEW r \in Record, SetExtent(r)
      PROVE  r.kind = "extent"
  BY <1>6 DEF SetExtent
<1>7. CASE UNCHANGED vars
  BY <1>7 DEF vars, chart
<1> QED
  BY <1>1, <1>2, <1>3, <1>4, <1>5, <1>6, <1>7 DEF Next, TakeRecord

\* The places of the records a field of the header is from.
Named(f) ==
  {i \in Of("header") \cup Of("version") : taken[i].field = f /\ ~Refused(taken[i])}

\* Every step keeps the header and the extent to the last records read.
LEMMA HeaderStep ==
  ASSUME ChartTypeOK, TakenNumbered, HasLast, HeaderFromRecords, [Next]_vars
  PROVE  HeaderFromRecords'
<1> DEFINE n == Len(taken) + 1
<1>1. CASE UNCHANGED <<taken, header, extent>>
  BY <1>1 DEF HeaderFromRecords, LastValue, Of
<1>2. ASSUME NEW e, taken' = Append(taken, e)
      PROVE  /\ Of("extent")' = IF e.kind = "extent" THEN Of("extent") \cup {n}
                                ELSE Of("extent")
             /\ \A f \in Field :
                  Named(f)' = IF /\ e.kind \in {"header", "version"} /\ ~Refused(e)
                                 /\ e.field = f
                              THEN Named(f) \cup {n} ELSE Named(f)
             /\ Of("extent") \in SUBSET (1..Len(taken))
             /\ \A f \in Field : Named(f) \in SUBSET (1..Len(taken))
             /\ n \notin Of("extent") /\ \A f \in Field : n \notin Named(f)
  <2>1. /\ Len(taken) \in Nat /\ Len(taken') = n
        /\ \A i \in 1..Len(taken) : taken'[i] = taken[i]
        /\ taken'[n] = e
    BY <1>2, OneTaken
  <2>2. 1..Len(taken') = (1..Len(taken)) \cup {n} /\ n \notin 1..Len(taken)
    BY <2>1
  <2> HIDE DEF n
  <2>3. \A i \in 1..Len(taken') : taken'[i] = IF i = n THEN e ELSE taken[i]
    BY <2>1, <2>2
  <2>4. Of("extent")' = {i \in 1..Len(taken') : taken'[i].kind = "extent"}
    BY DEF Of
  <2>5. \A f \in Field : Named(f)' =
          {i \in 1..Len(taken') : /\ taken'[i].kind \in {"header", "version"}
                                  /\ taken'[i].field = f /\ ~Refused(taken'[i])}
    BY DEF Named, Of
  <2>6. \A f \in Field : Named(f) =
          {i \in 1..Len(taken) : /\ taken[i].kind \in {"header", "version"}
                                 /\ taken[i].field = f /\ ~Refused(taken[i])}
    BY DEF Named, Of
  <2>7. Of("extent") = {i \in 1..Len(taken) : taken[i].kind = "extent"}
    BY DEF Of
  <2>8. Of("extent")' = IF e.kind = "extent" THEN Of("extent") \cup {n} ELSE Of("extent")
    BY <2>2, <2>3, <2>4, <2>7
  <2>9. ASSUME NEW f \in Field
        PROVE  Named(f)' = IF /\ e.kind \in {"header", "version"} /\ ~Refused(e)
                              /\ e.field = f
                           THEN Named(f) \cup {n} ELSE Named(f)
    <3> DEFINE Hit(x) == x.kind \in {"header", "version"} /\ x.field = f /\ ~Refused(x)
    <3>1. Named(f)' = {i \in 1..Len(taken') : Hit(taken'[i])}
      BY <2>5
    <3>2. Named(f) = {i \in 1..Len(taken) : Hit(taken[i])}
      BY <2>6
    <3>3. Named(f)' = IF Hit(e) THEN Named(f) \cup {n} ELSE Named(f)
      <4> HIDE DEF Hit
      <4> QED
        BY <2>2, <2>3, <3>1, <3>2
    <3>4. Hit(e) <=> /\ e.kind \in {"header", "version"} /\ ~Refused(e)
                     /\ e.field = f
      OBVIOUS
    <3> QED
      BY <3>3, <3>4
  <2> QED
    BY <2>2, <2>6, <2>7, <2>8, <2>9
<1>3. ASSUME NEW e, taken' = Append(taken, e)
      PROVE  /\ LastValue(Of("extent"))' =
                  IF e.kind = "extent" THEN e.value ELSE LastValue(Of("extent"))
             /\ \A f \in Field :
                  LastValue(Named(f))' =
                    IF /\ e.kind \in {"header", "version"} /\ ~Refused(e) /\ e.field = f
                    THEN e.value ELSE LastValue(Named(f))
  <2>1. ASSUME NEW S \in SUBSET (1..Len(taken)), NEW T, T \in {S, S \cup {n}}
        PROVE  (IF T = {} THEN NoValue ELSE taken'[Max(T)].value) =
                 IF T = S THEN LastValue(S) ELSE e.value
    BY <1>3, <2>1, Recent
  <2>2. LastValue(Of("extent"))' =
          IF Of("extent")' = {} THEN NoValue ELSE taken'[Max(Of("extent")')].value
    BY DEF LastValue
  <2>3. \A f \in Field : LastValue(Named(f))' =
          IF Named(f)' = {} THEN NoValue ELSE taken'[Max(Named(f)')].value
    BY DEF LastValue
  <2> HIDE DEF n
  <2>4. LastValue(Of("extent"))' =
          IF e.kind = "extent" THEN e.value ELSE LastValue(Of("extent"))
    BY <1>2, <1>3, <2>1, <2>2
  <2>5. ASSUME NEW f \in Field
        PROVE  LastValue(Named(f))' =
                 IF /\ e.kind \in {"header", "version"} /\ ~Refused(e) /\ e.field = f
                 THEN e.value ELSE LastValue(Named(f))
    <3>1. CASE e.kind \in {"header", "version"} /\ ~Refused(e) /\ e.field = f
      <4>1. Named(f)' = Named(f) \cup {n} /\ Named(f)' # Named(f)
        BY <1>2, <1>3, <3>1
      <4>2. (IF Named(f)' = {} THEN NoValue ELSE taken'[Max(Named(f)')].value) = e.value
        BY <1>2, <1>3, <2>1, <4>1
      <4> QED
        BY <2>3, <3>1, <4>2
    <3>2. CASE ~(e.kind \in {"header", "version"} /\ ~Refused(e) /\ e.field = f)
      <4>1. Named(f)' = Named(f)
        BY <1>2, <1>3, <3>2
      <4>2. (IF Named(f)' = {} THEN NoValue ELSE taken'[Max(Named(f)')].value)
              = LastValue(Named(f))
        BY <1>2, <1>3, <2>1, <4>1
      <4> QED
        BY <2>3, <3>2, <4>2
    <3> QED
      BY <3>1, <3>2
  <2> QED
    BY <2>4, <2>5
<1>4. HeaderFromRecords <=> /\ extent = LastValue(Of("extent"))
                            /\ \A f \in Field : header[f] = LastValue(Named(f))
  BY DEF HeaderFromRecords, Named
<1>5. HeaderFromRecords' <=>
        /\ extent' = LastValue(Of("extent"))'
        /\ \A f \in Field : header'[f] = LastValue(Named(f))'
  BY DEF HeaderFromRecords, Named
<1>6. ASSUME NEW e, taken' = Append(taken, e), UNCHANGED <<header, extent>>,
             e.kind \notin {"extent", "header", "version"} \/ Refused(e),
             e.kind # "extent"
      PROVE  HeaderFromRecords'
  BY <1>3, <1>4, <1>5, <1>6
<1>7. ASSUME NEW r \in Record, r.kind = "extent", SetExtent(r)
      PROVE  HeaderFromRecords'
  <2>1. taken' = Append(taken, r) /\ extent' = r.value /\ header' = header
    BY <1>7 DEF SetExtent, Reads
  <2> QED
    BY <1>3, <1>4, <1>5, <1>7, <2>1
<1>8. ASSUME NEW r \in Record, r.kind \in {"version", "header"}, SetHeader(r)
      PROVE  HeaderFromRecords'
  <2>1. /\ taken' = Append(taken, r) /\ ~Refused(r) /\ extent' = extent
        /\ header' = [header EXCEPT ![r.field] = r.value]
    BY <1>8 DEF SetHeader, Reads
  <2>2. \A f \in Field : header'[f] = IF f = r.field THEN r.value ELSE header[f]
    BY <2>1 DEF ChartTypeOK
  <2> QED
    BY <1>3, <1>4, <1>5, <1>8, <2>1, <2>2
<1> QED
  BY <1>1, <1>6, <1>7, <1>8, HeaderAction

\* What a step adds to the history, and whether the call goes on or returns.
LEMMA AnswerAction ==
  ASSUME [Next]_vars
  PROVE  \/ UNCHANGED <<taken, call, calls, result>>
         \/ \E e : taken' = Append(taken, e) /\ e.kind = "begin" /\ Accepted(e)
                   /\ call' # "none"
         \/ \E e : /\ taken' = Append(taken, e) /\ e.kind # "begin"
                   /\ call # "none" /\ calls' = calls
                   /\ \/ call' = call /\ Accepted(e)
                      \/ call' = "none" /\ (result' = "true" <=> Accepted(e))
<1>1. ASSUME NEW which \in {"readHeaders", "read"}, Begin(which)
      PROVE  /\ taken' = Append(taken, Mark("begin")) /\ Mark("begin").kind = "begin"
             /\ Accepted(Mark("begin")) /\ call' # "none"
  BY <1>1 DEF Begin, Mark, Accepted, Refused
<1>2. ASSUME EndOfStream \/ \E r \in Record : Stop(r)
      PROVE  /\ taken' = Append(taken, Finished) /\ Finished.kind # "begin"
             /\ Accepted(Finished)
             /\ call # "none" /\ calls' = calls /\ call' = "none" /\ result' = "true"
  <2>1. Finished.kind \in {"built", "stopped"}
    BY DEF Finished, Mark
  <2>2. Accepted(Finished)
    BY <2>1 DEF Accepted, Refused
  <2> QED
    BY <1>2, <2>1, <2>2 DEF EndOfStream, Stop, AtRecord, Return
<1>3. ASSUME NEW r \in Record, CutShort(r)
      PROVE  /\ taken' = Append(taken, Mark("cut")) /\ Mark("cut").kind # "begin"
             /\ ~Accepted(Mark("cut"))
             /\ call # "none" /\ calls' = calls /\ call' = "none" /\ result' = "false"
  BY <1>3 DEF CutShort, AtRecord, Return, Mark, Accepted
<1>4. \A r \in Record : r.kind # "begin" /\ r.kind # "cut"
  BY ChartConstants DEF PayloadKinds, GeometryKinds
<1>5. ASSUME NEW r \in Record, Refuse(r)
      PROVE  /\ taken' = Append(taken, r) /\ ~Accepted(r)
             /\ call # "none" /\ calls' = calls /\ call' = "none" /\ result' = "false"
  BY <1>5 DEF Refuse, Reads, AtRecord, Return, Accepted
<1>6. ASSUME NEW r \in Record, CheckStatus(r)
      PROVE  /\ taken' = Append(taken, r) /\ call # "none" /\ calls' = calls
             /\ \/ call' = call /\ Accepted(r)
                \/ call' = "none" /\ result' = "false" /\ ~Accepted(r)
  BY <1>4, <1>6 DEF CheckStatus, Reads, AtRecord, Return, GoesOn, Accepted
<1>7. ASSUME NEW r \in Record,
             SetHeader(r) \/ SetExtent(r) \/ Skip(r) \/ NewFeature(r) \/ SetAttribute(r)
               \/ SetGeometry(r) \/ ReadEdges(r) \/ ReadNodes(r)
      PROVE  /\ taken' = Append(taken, r) /\ Accepted(r)
             /\ call # "none" /\ calls' = calls /\ call' = call
  <2>1. taken' = Append(taken, r) /\ call # "none" /\ calls' = calls /\ call' = call
    BY <1>7 DEF SetHeader, SetExtent, Skip, NewFeature, SetAttribute, SetGeometry,
       ReadEdges, ReadNodes, Reads, AtRecord, GoesOn
  <2>2. \/ r.kind \in {"version", "header"} /\ ~Refused(r)
        \/ r.kind \in {"extent", "skipped", "feature", "attribute", "edges", "nodes"}
        \/ r.kind \in GeometryKinds
    BY <1>7 DEF SetHeader, SetExtent, Skip, NewFeature, SetAttribute, SetGeometry,
       ReadEdges, ReadNodes
  <2>3. r.kind # "status" /\ ~Refused(r)
    BY <2>2 DEF GeometryKinds, Refused
  <2> QED
    BY <1>4, <2>1, <2>3 DEF Accepted
<1>8. CASE UNCHANGED vars
  BY <1>8 DEF vars
<1> QED
  BY <1>1, <1>2, <1>3, <1>4, <1>5, <1>6, <1>7, <1>8 DEF Next, TakeRecord

\* A call in progress has accepted every record since it began.
Accepting ==
  /\ calls > 0 \/ call # "none" => Of("begin") # {}
  /\ call # "none" => \A i \in Max(Of("begin"))..Len(taken) : Accepted(taken[i])

\* Every step keeps the answers of the calls to what they have read.
LEMMA AnswerStep ==
  ASSUME ChartTypeOK, TakenNumbered, HasLast, Accepting, ResultTells, [Next]_vars
  PROVE  Accepting' /\ ResultTells'
<1> DEFINE n == Len(taken) + 1
<1>1. CASE UNCHANGED <<taken, call, calls, result>>
  BY <1>1 DEF Accepting, ResultTells, Of
<1>2. ASSUME NEW e, taken' = Append(taken, e)
      PROVE  /\ Len(taken) \in Nat /\ Len(taken') = n /\ n \notin 1..Len(taken)
             /\ \A i \in 1..Len(taken) : taken'[i] = taken[i]
             /\ taken'[n] = e
             /\ Of("begin") \in SUBSET (1..Len(taken))
             /\ Of("begin")' = IF e.kind = "begin" THEN Of("begin") \cup {n} ELSE Of("begin")
  <2>1. /\ Len(taken) \in Nat /\ Len(taken') = n
        /\ \A i \in 1..Len(taken) : taken'[i] = taken[i]
        /\ taken'[n] = e
    BY <1>2, OneTaken
  <2>2. 1..Len(taken') = (1..Len(taken)) \cup {n} /\ n \notin 1..Len(taken)
    BY <2>1
  <2> HIDE DEF n
  <2>3. \A i \in 1..Len(taken') : taken'[i] = IF i = n THEN e ELSE taken[i]
    BY <2>1, <2>2
  <2>4. Of("begin")' = {i \in 1..Len(taken') : taken'[i].kind = "begin"}
    BY DEF Of
  <2>5. Of("begin") = {i \in 1..Len(taken) : taken[i].kind = "begin"}
    BY DEF Of
  <2> QED
    BY <2>1, <2>2, <2>3, <2>4, <2>5
<1>3. ASSUME NEW e, taken' = Append(taken, e), e.kind = "begin", Accepted(e), call' # "none"
      PROVE  Accepting' /\ ResultTells'
  <2>1. Of("begin")' = Of("begin") \cup {n} /\ Of("begin")' # Of("begin")
    BY <1>2, <1>3
  <2>2. Max(Of("begin")') = n
    BY <1>2, <1>3, <2>1, Recent
  <2>3. \A i \in n..Len(taken') : Accepted(taken'[i])
    BY <1>2, <1>3
  <2> HIDE DEF n
  <2> QED
    BY <1>3, <2>1, <2>2, <2>3 DEF Accepting, ResultTells
<1>4. ASSUME NEW e, taken' = Append(taken, e), e.kind # "begin", call # "none",
             calls' = calls,
             \/ call' = call /\ Accepted(e)
             \/ call' = "none" /\ (result' = "true" <=> Accepted(e))
      PROVE  Accepting' /\ ResultTells'
  <2>1. Of("begin")' = Of("begin") /\ Of("begin") # {}
    BY <1>2, <1>4 DEF Accepting
  <2>2. PICK m : m = Max(Of("begin"))
    OBVIOUS
  <2>3. m \in 1..Len(taken)
    <3>1. Of("begin") \in SUBSET (1..Len(taken))
      BY <1>2, <1>4
    <3>2. \E k \in Of("begin") : \A j \in Of("begin") : k >= j
      BY <2>1, <3>1 DEF HasLast
    <3> QED
      BY <2>2, <3>1, <3>2 DEF Max
  <2>4. (\A i \in m..Len(taken') : Accepted(taken'[i])) <=> Accepted(e)
    <3>1. \A i \in m..Len(taken) : Accepted(taken[i])
      BY <1>4, <2>2 DEF Accepting
    <3>2. m..Len(taken') = (m..Len(taken)) \cup {n} /\ m..Len(taken) \subseteq 1..Len(taken)
      BY <1>2, <1>4, <2>3
    <3> HIDE DEF n
    <3> QED
      BY <1>2, <1>4, <3>1, <3>2
  <2>5. Accepting'
    BY <1>4, <2>1, <2>2, <2>4 DEF Accepting
  <2>6. ResultTells'
    BY <1>4, <2>1, <2>2, <2>4 DEF ResultTells
  <2> QED
    BY <2>5, <2>6
<1> QED
  BY <1>1, <1>3, <1>4, AnswerAction

\* The history grows by one record at a time.
LEMMA TakenStep ==
  ASSUME TakenNumbered, HasLast, [Next]_vars
  PROVE  TakenNumbered' /\ HasLast'
<1>1. CASE UNCHANGED taken
  BY <1>1 DEF TakenNumbered, HasLast
<1>2. ASSUME NEW e, taken' = Append(taken, e)
      PROVE  TakenNumbered' /\ HasLast'
  BY <1>2, OneTaken, LastGrows
<1> QED
  BY <1>1, <1>2, AnswerAction

Understood ==
  ChartTypeOK /\ TakenNumbered /\ HasLast /\ HeaderFromRecords /\ Accepting /\ ResultTells

\* The history is understood in every reachable state: its last records, the
\* header they make, and what the calls answered.
THEOREM Understanding == Spec => []Understood
<1>1. Init => TakenNumbered /\ HasLast /\ HeaderFromRecords /\ Accepting /\ ResultTells
  <2> SUFFICES ASSUME Init
               PROVE  TakenNumbered /\ HasLast /\ HeaderFromRecords /\ Accepting /\ ResultTells
    OBVIOUS
  <2>1. taken = << >> /\ taken \in Seq({}) /\ Len(taken) = 0 /\ 1..Len(taken) = {}
    BY DEF Init
  <2>2. TakenNumbered /\ HasLast
    BY <2>1 DEF TakenNumbered, HasLast
  <2>3. \A S : S = {} => LastValue(S) = NoValue
    BY DEF LastValue
  <2>4. Of("extent") = {} /\ Of("header") = {} /\ Of("version") = {}
    BY <2>1 DEF Of
  <2>5. HeaderFromRecords
    BY <2>3, <2>4 DEF Init, HeaderFromRecords
  <2>6. Accepting /\ ResultTells
    BY DEF Init, Accepting, ResultTells
  <2> QED
    BY <2>2, <2>5, <2>6
<1>2. Understood /\ ChartTypeOK' /\ [Next]_vars => Understood'
  BY TakenStep, HeaderStep, AnswerStep DEF Understood
<1> QED
  BY <1>1, <1>2, ChartTypeCorrect, PTL DEF Spec, Understood

\* A call returns true exactly when it met no record it refuses, no chart that
\* is expired or not decrypted, and no record that is cut short, on streams of
\* any records and any length.
THEOREM AnswersTell == Spec => []ResultTells
BY Understanding, PTL DEF Understood

\* The header and the extent are those of the last records read, on any stream
\* and after any calls.
THEOREM HeadersAreRead == Spec => []HeaderFromRecords
BY Understanding, PTL DEF Understood

-----------------------------------------------------------------------------
(* Positions and the extent they are relative to.                          *)

Shaped == \A k \in 1..Len(objects) : "multipoint" \in DOMAIN objects[k]

\* What record e does to the positions: they stay, are not set yet, or are
\* decoded with the extent.
ObjectsFrom(e) ==
  \A k \in 1..Len(objects') :
    /\ "multipoint" \in DOMAIN objects'[k]
    /\ \/ k \in 1..Len(objects) /\ objects'[k].multipoint = objects[k].multipoint
       \/ objects'[k].multipoint = NoValue
       \/ /\ e.kind = "multipoint" /\ extent' = extent
          /\ objects'[k].multipoint.reference = extent
TablesFrom(e) ==
  \A i \in Index :
    /\ \/ vectorEdges'[i] \in {vectorEdges[i], NoValue}
       \/ e.kind = "edges" /\ extent' = extent /\ vectorEdges'[i].reference = extent
    /\ \/ connectedNodes'[i] \in {connectedNodes[i], NoValue}
       \/ e.kind = "nodes" /\ extent' = extent /\ connectedNodes'[i].reference = extent
PositionsFrom(e) == ObjectsFrom(e) /\ TablesFrom(e)

\* A call that returns moves no position.
LEMMA ReturnedPositions ==
  ASSUME ObjectsNumbered, Shaped, NEW ok \in BOOLEAN, Return(ok), NEW e
  PROVE  PositionsFrom(e) /\ extent' = extent
<1>1. ASSUME objects' = objects
      PROVE  ObjectsFrom(e)
  BY <1>1 DEF Shaped, ObjectsFrom
<1>2. ASSUME objects' = Built
      PROVE  ObjectsFrom(e)
  <2>1. Len(objects) \in Nat
    BY DEF ObjectsNumbered
  <2>2. Len(objects') = Len(objects)
    BY <1>2, BuiltLength
  <2>3. \A k \in 1..Len(objects) :
          /\ DOMAIN objects'[k] = DOMAIN objects[k]
          /\ "multipoint" \in DOMAIN objects[k] =>
               objects'[k].multipoint = objects[k].multipoint
    BY <1>2, <2>1 DEF Built
  <2> QED
    BY <2>2, <2>3 DEF Shaped, ObjectsFrom
<1>3. ObjectsFrom(e)
  BY <1>1, <1>2 DEF Return
<1>4. TablesFrom(e) /\ extent' = extent
  BY DEF Return, tables, TablesFrom
<1> QED
  BY <1>3, <1>4 DEF PositionsFrom

\* What a record does to the positions.
LEMMA PositionsAction ==
  ASSUME IInv, Shaped, [Next]_vars
  PROVE  \/ UNCHANGED <<taken, extent, objects, vectorEdges, connectedNodes>>
         \/ \E e : /\ taken' = Append(taken, e) /\ PositionsFrom(e)
                   /\ extent' = extent \/ e.kind = "extent"
<1>1. ObjectsNumbered /\ DOMAIN vectorEdges = Index /\ DOMAIN connectedNodes = Index
  BY DEF IInv, ChartTypeOK
<1>2. ASSUME NEW e, objects' = objects
      PROVE  ObjectsFrom(e)
  BY <1>2 DEF Shaped, ObjectsFrom
<1>3. ASSUME NEW which, Begin(which)
      PROVE  \E e : taken' = Append(taken, e) /\ PositionsFrom(e) /\ extent' = extent
  <2>1. TablesFrom(Mark("begin"))
    BY <1>3 DEF Begin, EmptyTable, TablesFrom
  <2> QED
    BY <1>2, <1>3, <2>1 DEF Begin, chart, PositionsFrom
<1>4. ASSUME EndOfStream
      PROVE  \E e : taken' = Append(taken, e) /\ PositionsFrom(e) /\ extent' = extent
  BY <1>1, <1>4, ReturnedPositions DEF EndOfStream
<1>5. ASSUME NEW r \in Record, TakeRecord(r)
      PROVE  \E e : /\ taken' = Append(taken, e) /\ PositionsFrom(e)
                    /\ extent' = extent \/ e.kind = "extent"
  <2>1. CASE Refuse(r) \/ Stop(r) \/ CutShort(r)
    BY <1>1, <2>1, ReturnedPositions DEF Refuse, Stop, CutShort, Reads
  <2>2. ASSUME UNCHANGED <<objects, vectorEdges, connectedNodes>>
        PROVE  PositionsFrom(r)
    BY <1>2, <2>2 DEF PositionsFrom, TablesFrom
  <2>3. CASE CheckStatus(r)
    BY <1>1, <2>2, <2>3, ReturnedPositions DEF CheckStatus, Reads, chart, tables
  <2>4. CASE SetHeader(r) \/ SetExtent(r) \/ Skip(r)
    BY <2>2, <2>4 DEF SetHeader, SetExtent, Skip, Reads, chart, tables
  <2>5. CASE ReadEdges(r) \/ ReadNodes(r)
    <3>1. objects' = objects /\ extent' = extent /\ taken' = Append(taken, r)
      BY <2>5 DEF ReadEdges, ReadNodes, Reads, chart
    <3>2. TablesFrom(r)
      BY <2>5, <3>1 DEF ReadEdges, ReadNodes, Extended, TablesFrom
    <3> QED
      BY <1>2, <3>1, <3>2 DEF PositionsFrom
  <2>6. CASE NewFeature(r) \/ SetAttribute(r) \/ SetGeometry(r)
    <3>1. /\ taken' = Append(taken, r) /\ extent' = extent
          /\ UNCHANGED <<vectorEdges, connectedNodes>>
      BY <2>6 DEF NewFeature, SetAttribute, SetGeometry, Reads, tables
    <3>2. TablesFrom(r)
      BY <3>1 DEF TablesFrom
    <3>3. ASSUME NewFeature(r)
          PROVE  ObjectsFrom(r)
      <4>1. objects' = Append(objects, EmptyObject(r.value))
        BY <3>3 DEF NewFeature
      <4>2. /\ EmptyObject(r.value).multipoint = NoValue
            /\ "multipoint" \in DOMAIN EmptyObject(r.value)
        BY DEF EmptyObject
      <4>3. /\ Len(objects) \in Nat /\ Len(objects') = Len(objects) + 1
            /\ \A k \in 1..Len(objects) : objects'[k] = objects[k]
            /\ objects'[Len(objects) + 1] = EmptyObject(r.value)
        <5>1. PICK S : objects \in Seq(S)
          BY <1>1 DEF ObjectsNumbered
        <5>2. objects \in Seq(S \cup {EmptyObject(r.value)})
          BY <5>1
        <5> HIDE DEF EmptyObject
        <5> QED
          BY <4>1, <5>2
      <4> QED
        BY <4>2, <4>3 DEF Shaped, ObjectsFrom
    <3>4. ASSUME objects' # objects, SetAttribute(r) \/ SetGeometry(r)
          PROVE  ObjectsFrom(r)
      <4>1. current = Len(objects) /\ current # 0
        BY <3>4 DEF SetAttribute, SetGeometry, IInv, ChartTypeOK
      <4>2. PICK object : /\ objects' = [objects EXCEPT ![current] = object]
                          /\ \/ object = [objects[current] EXCEPT
                                  !.attributes = [@ EXCEPT ![r.attribute] = r.value]]
                             \/ /\ r.kind \in GeometryKinds
                                /\ object = [objects[current] EXCEPT ![r.kind] = Decoded(r)]
        BY <3>4 DEF SetAttribute, SetGeometry
      <4>3. Len(objects') = Len(objects) /\ Len(objects) \in Nat
        BY <1>1, <4>2, OneChanged DEF ObjectsNumbered
      <4>4. DOMAIN objects = 1..Len(objects) /\ current \in 1..Len(objects)
        BY <1>1, <4>1, <4>3 DEF ObjectsNumbered
      <4>5. "multipoint" \in DOMAIN objects[current]
        BY <4>4 DEF Shaped
      <4>6. "multipoint" \in DOMAIN object
        BY <4>2, <4>5
      <4>7. \/ object.multipoint = objects[current].multipoint
            \/ r.kind = "multipoint" /\ object.multipoint = Decoded(r)
        BY <4>2, <4>5
      <4>8. r.kind = "multipoint" => Decoded(r).reference = extent
        BY DEF Decoded
      <4>9. \A k \in 1..Len(objects) :
              objects'[k] = IF k = current THEN object ELSE objects[k]
        BY <4>2, <4>4
      <4> HIDE DEF Decoded
      <4> QED
        BY <3>1, <4>3, <4>4, <4>6, <4>7, <4>8, <4>9 DEF Shaped, ObjectsFrom
    <3>5. ObjectsFrom(r)
      BY <1>2, <2>6, <3>3, <3>4
    <3> QED
      BY <3>1, <3>2, <3>5 DEF PositionsFrom
  <2> QED
    BY <1>5, <2>1, <2>3, <2>4, <2>5, <2>6 DEF TakeRecord
<1>6. CASE UNCHANGED vars
  BY <1>6 DEF vars, chart, tables
<1> QED
  BY <1>3, <1>4, <1>5, <1>6 DEF Next

\* What is set was read.
PositionsRead ==
  /\ \A k \in 1..Len(objects) : objects[k].multipoint # NoValue => Of("multipoint") # {}
  /\ \A i \in Index : /\ vectorEdges[i] # NoValue => Of("edges") # {}
                      /\ connectedNodes[i] # NoValue => Of("nodes") # {}

Relative == Of("edges") \cup Of("nodes") \cup Of("multipoint")
ExtentFirst == \A i \in Of("extent"), j \in Relative : i < j
Projected ==
  /\ \A k \in 1..Len(objects) : objects[k].multipoint # NoValue =>
       objects[k].multipoint.reference = extent
  /\ \A i \in Index :
       /\ vectorEdges[i] # NoValue => vectorEdges[i].reference = extent
       /\ connectedNodes[i] # NoValue => connectedNodes[i].reference = extent

\* Every step keeps the positions relative to the one extent.
LEMMA ProjectionStep ==
  ASSUME IInv, TakenNumbered, Shaped, PositionsRead, ExtentFirst => Projected, [Next]_vars
  PROVE  Shaped' /\ PositionsRead' /\ (ExtentFirst' => Projected')
<1> DEFINE n == Len(taken) + 1
<1>1. CASE UNCHANGED <<taken, extent, objects, vectorEdges, connectedNodes>>
  BY <1>1 DEF Shaped, PositionsRead, ExtentFirst, Projected, Relative, Of
<1>2. ASSUME NEW e, taken' = Append(taken, e), PositionsFrom(e),
             extent' = extent \/ e.kind = "extent"
      PROVE  Shaped' /\ PositionsRead' /\ (ExtentFirst' => Projected')
  <2>1. /\ Len(taken) \in Nat /\ Len(taken') = n
        /\ \A i \in 1..Len(taken) : taken'[i] = taken[i]
        /\ taken'[n] = e
    BY <1>2, OneTaken
  <2>2. 1..Len(taken') = (1..Len(taken)) \cup {n} /\ n \notin 1..Len(taken)
    BY <2>1
  <2>3. \A i \in 1..Len(taken) : ~(n < i)
    BY <2>1
  <2> HIDE DEF n
  <2>4. \A kind : Of(kind)' = {i \in 1..Len(taken') : taken'[i].kind = kind}
    BY DEF Of
  <2>5. \A kind : Of(kind)' = IF e.kind = kind THEN Of(kind) \cup {n} ELSE Of(kind)
    BY <2>1, <2>2, <2>4 DEF Of
  <2>6. /\ Of("extent")' = IF e.kind = "extent" THEN Of("extent") \cup {n} ELSE Of("extent")
        /\ Of("edges")' = IF e.kind = "edges" THEN Of("edges") \cup {n} ELSE Of("edges")
        /\ Of("nodes")' = IF e.kind = "nodes" THEN Of("nodes") \cup {n} ELSE Of("nodes")
        /\ Of("multipoint")' = IF e.kind = "multipoint" THEN Of("multipoint") \cup {n}
                               ELSE Of("multipoint")
    BY <2>5
  <2>7. Shaped'
    BY <1>2 DEF PositionsFrom, ObjectsFrom, Shaped
  <2>8. PositionsRead'
    <3>1. \A k \in 1..Len(objects') :
            objects'[k].multipoint # NoValue => Of("multipoint")' # {}
      BY <1>2, <2>6 DEF PositionsFrom, ObjectsFrom, PositionsRead
    <3>2. \A i \in Index : /\ vectorEdges'[i] # NoValue => Of("edges")' # {}
                           /\ connectedNodes'[i] # NoValue => Of("nodes")' # {}
      BY <1>2, <2>6 DEF PositionsFrom, TablesFrom, PositionsRead
    <3> QED
      BY <3>1, <3>2 DEF PositionsRead
  <2>9. ASSUME ExtentFirst'
        PROVE  Projected'
    <3>1. Of("extent")' = Of("extent") \cup Of("extent")' /\ Relative' = Relative \cup Relative'
      BY <2>6 DEF Relative
    <3>2. ExtentFirst /\ Projected
      BY <2>9, <3>1 DEF ExtentFirst
    <3>3. CASE e.kind = "extent"
      <4>1. Relative' = Relative /\ n \in Of("extent")'
        BY <2>6, <3>3 DEF Relative
      <4>2. \A j \in Relative : n < j
        BY <2>9, <4>1 DEF ExtentFirst
      <4>3. Relative \subseteq 1..Len(taken)
        BY DEF Relative, Of
      <4>4. Of("edges") = {} /\ Of("nodes") = {} /\ Of("multipoint") = {}
        BY <2>3, <4>2, <4>3 DEF Relative
      <4>5. \A k \in 1..Len(objects') : objects'[k].multipoint = NoValue
        BY <1>2, <3>3, <4>4 DEF PositionsFrom, ObjectsFrom, PositionsRead
      <4>6. \A i \in Index : vectorEdges'[i] = NoValue /\ connectedNodes'[i] = NoValue
        BY <1>2, <3>3, <4>4 DEF PositionsFrom, TablesFrom, PositionsRead
      <4> QED
        BY <4>5, <4>6 DEF Projected
    <3>4. CASE e.kind # "extent"
      <4>1. extent' = extent
        BY <1>2, <3>4
      <4>2. \A k \in 1..Len(objects') : objects'[k].multipoint # NoValue =>
              objects'[k].multipoint.reference = extent'
        BY <1>2, <3>2, <4>1 DEF PositionsFrom, ObjectsFrom, Projected
      <4>3. \A i \in Index :
              /\ vectorEdges'[i] # NoValue => vectorEdges'[i].reference = extent'
              /\ connectedNodes'[i] # NoValue => connectedNodes'[i].reference = extent'
        BY <1>2, <3>2, <4>1 DEF PositionsFrom, TablesFrom, Projected
      <4> QED
        BY <4>2, <4>3 DEF Projected
    <3> QED
      BY <3>3, <3>4
  <2> QED
    BY <2>7, <2>8, <2>9
<1> QED
  BY <1>1, <1>2, PositionsAction

\* When the extent comes before every position that is relative to it, all
\* positions are relative to the extent the user is told, on any stream.
THEOREM PositionsShareExtent == Spec => []OneProjection
<1> DEFINE PInv == IInv /\ TakenNumbered /\ HasLast /\ Shaped /\ PositionsRead
                   /\ (ExtentFirst => Projected)
<1>1. Init => TakenNumbered /\ HasLast /\ Shaped /\ PositionsRead /\ (ExtentFirst => Projected)
  <2> SUFFICES ASSUME Init
               PROVE  /\ TakenNumbered /\ HasLast /\ Shaped /\ PositionsRead
                      /\ ExtentFirst => Projected
    OBVIOUS
  <2>1. taken = << >> /\ taken \in Seq({}) /\ 1..Len(taken) = {} /\ 1..Len(objects) = {}
    BY DEF Init
  <2>2. TakenNumbered /\ HasLast
    BY <2>1 DEF TakenNumbered, HasLast
  <2>3. \A i \in Index : vectorEdges[i] = NoValue /\ connectedNodes[i] = NoValue
    BY DEF Init, EmptyTable
  <2>4. Shaped /\ PositionsRead /\ Projected
    BY <2>1, <2>3 DEF Shaped, PositionsRead, Projected
  <2> QED
    BY <2>2, <2>4
<1>2. PInv /\ IInv' /\ [Next]_vars => PInv'
  BY TakenStep, ProjectionStep
<1>3. PInv => OneProjection
  BY DEF OneProjection, ExtentFirst, Projected, Relative
<1> QED
  BY <1>1, <1>2, <1>3, Invariance, PTL DEF Spec

-----------------------------------------------------------------------------
(* What the objects hold, from the records of the stream.                  *)

\* The values a record sets in an object.
Values(object) ==
  /\ {"type", "attributes", "line", "area", "built"} \cup GeometryKinds \subseteq DOMAIN object
  /\ Attribute \subseteq DOMAIN object.attributes

\* What record e makes of object k: it sets an attribute or a geometry of the
\* object records go to, or nothing.
SetBy(e, k, old, new) ==
  LET hit == call # "none" /\ k = current
  IN /\ new.type = old.type
     /\ \A a \in Attribute :
          new.attributes[a] =
            IF hit /\ e.kind = "attribute" /\ e.attribute = a /\ e.scalar
            THEN e.value ELSE old.attributes[a]
     /\ \A g \in GeometryKinds :
          new[g] = IF hit /\ e.kind = g THEN Decoded(e) ELSE old[g]
     /\ Values(new)
     /\ new.built = IF e.kind = "built"
                    THEN [line |-> old.line, area |-> old.area,
                          edges |-> vectorEdges, nodes |-> connectedNodes]
                    ELSE old.built

\* What a step does to the objects, and to where records go.
ObjectsTake(e) ==
  /\ taken' = Append(taken, e)
  /\ \A k \in 1..Len(objects) : SetBy(e, k, objects[k], objects'[k])
  /\ IF e.kind = "feature"
     THEN /\ call # "none" /\ call' = call
          /\ Len(objects') = Len(objects) + 1 /\ current' = Len(objects) + 1
          /\ objects'[Len(objects) + 1] = EmptyObject(e.value)
     ELSE /\ Len(objects') = Len(objects)
          /\ \/ e.kind = "begin" /\ current' = 0 /\ call' # "none"
             \/ e.kind \notin {"begin", "built"} /\ current' = current /\ call # "none"
             \/ e.kind = "built" /\ call' = "none" /\ call # "none"

\* What a step does to the tables.
TablesTake(e) ==
  /\ vectorEdges' = CASE e.kind = "begin" -> EmptyTable
                       [] e.kind = "edges" -> Extended(vectorEdges, e)
                       [] OTHER -> vectorEdges
  /\ connectedNodes' = CASE e.kind = "begin" -> EmptyTable
                          [] e.kind = "nodes" -> Extended(connectedNodes, e)
                          [] OTHER -> connectedNodes

Shapely == \A k \in 1..Len(objects) : Values(objects[k])

\* Objects that stay as they are, when the record says nothing of them.
LEMMA NothingSet ==
  ASSUME Shapely, objects' = objects, NEW e,
         e.kind # "built", e.kind \notin {"attribute"} \cup GeometryKinds \/ current = 0
  PROVE  \A k \in 1..Len(objects) : SetBy(e, k, objects[k], objects'[k])
<1> SUFFICES ASSUME NEW k \in 1..Len(objects)
             PROVE  SetBy(e, k, objects[k], objects[k])
  OBVIOUS
<1>1. Values(objects[k])
  BY DEF Shapely
<1>2. ~(k = current /\ current = 0)
  BY SMT
<1>3. \A g \in GeometryKinds : ~(k = current /\ e.kind = g)
  BY <1>2
<1>4. ~(k = current /\ e.kind = "attribute")
  BY <1>2
<1> HIDE DEF Values, Decoded
<1> QED
  BY <1>1, <1>3, <1>4 DEF SetBy

\* A call that returns builds every object or leaves all of them.
LEMMA ReturnedObjects ==
  ASSUME IInv, Shapely, NEW ok \in BOOLEAN, Return(ok), NEW e, taken' = Append(taken, e),
         call # "none",
         e.kind \notin {"attribute", "feature", "begin", "edges", "nodes"} \cup GeometryKinds,
         e.kind = "built" <=> ok /\ call = "read"
  PROVE  ObjectsTake(e) /\ TablesTake(e)
<1>1. ObjectsNumbered /\ Len(objects) \in Nat
  BY DEF IInv, ObjectsNumbered
<1>2. TablesTake(e)
  BY DEF Return, tables, TablesTake
<1>3. ASSUME e.kind # "built"
      PROVE  ObjectsTake(e)
  <2>1. objects' = objects /\ current' = current
    BY <1>3 DEF Return
  <2> QED
    BY <1>3, <2>1, NothingSet DEF ObjectsTake
<1>4. ASSUME e.kind = "built"
      PROVE  ObjectsTake(e)
  <2>1. objects' = Built /\ current' = current /\ call' = "none"
    BY <1>4 DEF Return
  <2>2. Len(objects') = Len(objects)
    BY <1>1, <2>1, BuiltLength
  <2>3. ASSUME NEW k \in 1..Len(objects)
        PROVE  SetBy(e, k, objects[k], objects'[k])
    <3>1. objects'[k] = [objects[k] EXCEPT !.built =
                          [line |-> objects[k].line, area |-> objects[k].area,
                           edges |-> vectorEdges, nodes |-> connectedNodes]]
      BY <2>1 DEF Built
    <3>2. Values(objects[k])
      BY DEF Shapely
    <3>3. \A f \in DOMAIN objects[k] : f # "built" => objects'[k][f] = objects[k][f]
      BY <3>1
    <3>4. DOMAIN objects'[k] = DOMAIN objects[k]
      BY <3>1
    <3>5. \A g \in GeometryKinds : g \in DOMAIN objects[k] /\ g # "built" /\ e.kind # g
      BY <3>2, <1>4 DEF Values, GeometryKinds
    <3>6. /\ objects'[k].type = objects[k].type
          /\ objects'[k].attributes = objects[k].attributes
          /\ \A g \in GeometryKinds : objects'[k][g] = objects[k][g]
      BY <3>2, <3>3, <3>5 DEF Values
    <3>7. objects'[k].built = [line |-> objects[k].line, area |-> objects[k].area,
                               edges |-> vectorEdges, nodes |-> connectedNodes]
      BY <3>1, <3>2 DEF Values
    <3>8. Values(objects'[k])
      BY <3>2, <3>4, <3>6 DEF Values
    <3> HIDE DEF Values, Decoded
    <3> QED
      BY <1>4, <3>5, <3>6, <3>7, <3>8 DEF SetBy
  <2> QED
    BY <1>4, <2>1, <2>2, <2>3 DEF ObjectsTake
<1> QED
  BY <1>2, <1>3, <1>4

\* What every step does to the objects and the tables.
LEMMA ObjectsAction ==
  ASSUME IInv, Shapely, [Next]_vars
  PROVE  \/ UNCHANGED <<taken, objects, current, call, vectorEdges, connectedNodes, extent>>
         \/ \E e : ObjectsTake(e) /\ TablesTake(e)
<1>1. /\ ObjectsNumbered /\ Len(objects) \in Nat /\ call \in {"none", "readHeaders", "read"}
      /\ current \in {0, Len(objects)}
  BY DEF IInv, ObjectsNumbered, ChartTypeOK
<1>2. ASSUME NEW which \in {"readHeaders", "read"}, Begin(which)
      PROVE  ObjectsTake(Mark("begin")) /\ TablesTake(Mark("begin"))
  <2>1. Mark("begin").kind = "begin" /\ "begin" \notin {"attribute"} \cup GeometryKinds
    BY DEF Mark, GeometryKinds
  <2>2. /\ taken' = Append(taken, Mark("begin")) /\ objects' = objects
        /\ current' = 0 /\ call' # "none"
        /\ vectorEdges' = EmptyTable /\ connectedNodes' = EmptyTable
    BY <1>2 DEF Begin, chart
  <2>3. TablesTake(Mark("begin"))
    BY <2>1, <2>2 DEF TablesTake, EmptyTable
  <2> HIDE DEF Mark
  <2> QED
    BY <2>1, <2>2, <2>3, NothingSet DEF ObjectsTake
<1>3. ASSUME EndOfStream
      PROVE  ObjectsTake(Finished) /\ TablesTake(Finished)
  <2>1. /\ Finished.kind \in {"built", "stopped"}
        /\ Finished.kind = "built" <=> TRUE /\ call = "read"
    BY DEF Finished, Mark
  <2>2. Finished.kind \notin {"attribute", "feature", "begin", "edges", "nodes"} \cup GeometryKinds
    BY <2>1 DEF GeometryKinds
  <2>3. taken' = Append(taken, Finished) /\ Return(TRUE) /\ call # "none"
    BY <1>3 DEF EndOfStream
  <2> HIDE DEF Finished
  <2> QED
    BY <2>1, <2>2, <2>3, ReturnedObjects
<1>4. ASSUME NEW r \in Record, TakeRecord(r)
      PROVE  \E e : ObjectsTake(e) /\ TablesTake(e)
  <2>1. r.kind # "built" /\ r.kind # "begin" /\ r.kind # "cut"
    BY ChartConstants DEF PayloadKinds, GeometryKinds
  <2>2. ASSUME Refuse(r) \/ (CheckStatus(r) /\ Return(FALSE))
        PROVE  ObjectsTake(r) /\ TablesTake(r)
    <3>1. r.kind \in {"unknown", "status", "version"}
      BY <2>2 DEF Refuse, Refused, CheckStatus
    <3>2. r.kind \notin {"attribute", "feature", "begin", "edges", "nodes"} \cup GeometryKinds
      BY <3>1 DEF GeometryKinds
    <3>3. taken' = Append(taken, r) /\ Return(FALSE) /\ call # "none"
      BY <2>2 DEF Refuse, CheckStatus, Reads, AtRecord
    <3> QED
      BY <2>1, <3>2, <3>3, ReturnedObjects
  <2>3. ASSUME Stop(r)
        PROVE  ObjectsTake(Finished) /\ TablesTake(Finished)
    <3>1. /\ Finished.kind \in {"built", "stopped"}
          /\ Finished.kind = "built" <=> TRUE /\ call = "read"
      BY DEF Finished, Mark
    <3>2. Finished.kind \notin {"attribute", "feature", "begin", "edges", "nodes"} \cup GeometryKinds
      BY <3>1 DEF GeometryKinds
    <3>3. taken' = Append(taken, Finished) /\ Return(TRUE) /\ call # "none"
      BY <2>3 DEF Stop, AtRecord
    <3> HIDE DEF Finished
    <3> QED
      BY <3>1, <3>2, <3>3, ReturnedObjects
  <2>4. ASSUME CutShort(r)
        PROVE  ObjectsTake(Mark("cut")) /\ TablesTake(Mark("cut"))
    <3>1. Mark("cut").kind = "cut"
      BY DEF Mark
    <3>2. "cut" \notin {"attribute", "feature", "begin", "edges", "nodes"} \cup GeometryKinds
      BY DEF GeometryKinds
    <3>3. taken' = Append(taken, Mark("cut")) /\ Return(FALSE) /\ call # "none"
      BY <2>4 DEF CutShort, AtRecord
    <3> HIDE DEF Mark
    <3> QED
      BY <3>1, <3>2, <3>3, ReturnedObjects
  <2>5. ASSUME UNCHANGED <<objects, current, call>>, taken' = Append(taken, r), call # "none",
               r.kind \in {"status", "version", "header", "extent", "skipped", "edges", "nodes"}
        PROVE  ObjectsTake(r)
    <3>1. r.kind \notin {"attribute"} \cup GeometryKinds
      BY <2>5 DEF GeometryKinds
    <3> QED
      BY <2>1, <2>5, <3>1, NothingSet DEF ObjectsTake
  <2>6. CASE (CheckStatus(r) /\ GoesOn /\ UNCHANGED <<current, chart, tables>>)
               \/ SetHeader(r) \/ SetExtent(r) \/ Skip(r)
    <3>1. /\ UNCHANGED <<objects, current, call>> /\ taken' = Append(taken, r) /\ call # "none"
          /\ r.kind \in {"status", "version", "header", "extent", "skipped"}
          /\ UNCHANGED <<vectorEdges, connectedNodes>>
      BY <2>6 DEF CheckStatus, SetHeader, SetExtent, Skip, Reads, AtRecord, GoesOn, chart, tables
    <3>2. TablesTake(r)
      BY <3>1 DEF TablesTake
    <3> QED
      BY <2>5, <3>1, <3>2
  <2>7. CASE ReadEdges(r) \/ ReadNodes(r)
    <3>1. /\ UNCHANGED <<objects, current, call>> /\ taken' = Append(taken, r) /\ call # "none"
          /\ r.kind \in {"edges", "nodes"}
      BY <2>7 DEF ReadEdges, ReadNodes, Reads, AtRecord, GoesOn, chart
    <3>2. TablesTake(r)
      <4> HIDE DEF Extended
      <4> QED
        BY <2>7 DEF ReadEdges, ReadNodes, TablesTake
    <3> QED
      BY <2>5, <3>1, <3>2
  <2>8. ASSUME NewFeature(r) \/ SetAttribute(r) \/ SetGeometry(r)
        PROVE  /\ TablesTake(r) /\ taken' = Append(taken, r) /\ call # "none" /\ call' = call
               /\ r.kind \in {"feature", "attribute"} \cup GeometryKinds
    <3>1. /\ taken' = Append(taken, r) /\ call # "none" /\ call' = call
          /\ UNCHANGED <<vectorEdges, connectedNodes>>
          /\ r.kind \in {"feature", "attribute"} \cup GeometryKinds
      BY <2>8 DEF NewFeature, SetAttribute, SetGeometry, Reads, AtRecord, GoesOn, tables
    <3>2. r.kind # "edges" /\ r.kind # "nodes"
      BY <3>1 DEF GeometryKinds
    <3> QED
      BY <2>1, <3>1, <3>2 DEF TablesTake
  <2>9. ASSUME NewFeature(r)
        PROVE  ObjectsTake(r)
    <3>1. /\ objects' = Append(objects, EmptyObject(r.value)) /\ current' = Len(objects')
          /\ r.kind = "feature"
      BY <2>9 DEF NewFeature
    <3>2. PICK S : objects \in Seq(S)
      BY <1>1 DEF ObjectsNumbered
    <3>3. objects \in Seq(S \cup {EmptyObject(r.value)})
      BY <3>2
    <3>4. \A k \in 1..Len(objects) : objects[k] = objects'[k]
      BY <3>1, <3>3
    <3>5. Len(objects') = Len(objects) + 1 /\ objects'[Len(objects) + 1] = EmptyObject(r.value)
      <4> HIDE DEF EmptyObject
      <4> QED
        BY <3>1, <3>3
    <3>6. "feature" \notin {"attribute"} \cup GeometryKinds
      BY DEF GeometryKinds
    <3>7. \A k \in 1..Len(objects) : SetBy(r, k, objects[k], objects[k])
      <4> SUFFICES ASSUME NEW k \in 1..Len(objects)
                   PROVE  SetBy(r, k, objects[k], objects[k])
        OBVIOUS
      <4>1. Values(objects[k]) /\ \A g \in GeometryKinds : r.kind # g
        BY <3>1, <3>6 DEF Shapely
      <4> HIDE DEF Values, Decoded
      <4> QED
        BY <3>1, <4>1 DEF SetBy
    <3> HIDE DEF SetBy, EmptyObject
    <3> QED
      BY <2>8, <2>9, <3>1, <3>4, <3>5, <3>7 DEF ObjectsTake
  <2>10. ASSUME SetAttribute(r) \/ SetGeometry(r)
         PROVE  ObjectsTake(r)
    <3>1. /\ r.kind \in {"attribute"} \cup GeometryKinds /\ current' = current
          /\ r.kind # "feature"
      BY <2>10 DEF SetAttribute, SetGeometry, GeometryKinds
    <3>2. CASE current = 0
      <4>1. objects' = objects
        BY <2>10, <3>2 DEF SetAttribute, SetGeometry
      <4> QED
        BY <2>1, <2>8, <2>10, <3>1, <3>2, <4>1, NothingSet DEF ObjectsTake
    <3>3. CASE current # 0
      <4>1. current = Len(objects) /\ current \in 1..Len(objects)
        BY <1>1, <3>3
      <4>2. Values(objects[current])
        BY <4>1 DEF Shapely
      <4>3. DOMAIN objects = 1..Len(objects)
        BY <1>1 DEF ObjectsNumbered
      <4>4. PICK object :
              /\ objects' = [objects EXCEPT ![current] = object]
              /\ object =
                   IF r.kind = "attribute"
                   THEN IF r.attribute \in Attribute /\ r.scalar
                        THEN [objects[current] EXCEPT
                                !.attributes = [@ EXCEPT ![r.attribute] = r.value]]
                        ELSE objects[current]
                   ELSE [objects[current] EXCEPT ![r.kind] = Decoded(r)]
        <5>1. CASE SetAttribute(r) /\ r.attribute \in Attribute /\ r.scalar
          BY <3>3, <5>1 DEF SetAttribute
        <5>2. CASE SetAttribute(r) /\ ~(r.attribute \in Attribute /\ r.scalar)
          <6>1. objects' = objects /\ r.kind = "attribute"
            BY <5>2 DEF SetAttribute
          <6>2. PICK S : objects \in Seq(S)
            BY <1>1 DEF ObjectsNumbered
          <6>3. objects = [objects EXCEPT ![current] = objects[current]]
            BY <6>2
          <6> QED
            BY <5>2, <6>1, <6>3
        <5>3. CASE SetGeometry(r)
          <6>1. r.kind # "attribute"
            BY <5>3 DEF SetGeometry, GeometryKinds
          <6> HIDE DEF Decoded
          <6> QED
            BY <3>3, <5>3, <6>1 DEF SetGeometry
        <5> QED
          BY <2>10, <5>1, <5>2, <5>3
      <4>5. Len(objects') = Len(objects)
        BY <1>1, <4>4, OneChanged
      <4>6. \A k \in 1..Len(objects) :
              objects'[k] = IF k = current THEN object ELSE objects[k]
        BY <4>3, <4>4
      <4>7. SetBy(r, current, objects[current], object)
        <5>1. CASE r.kind = "attribute"
          <6>1. \A g \in GeometryKinds : r.kind # g /\ g # "attributes"
            BY <5>1 DEF GeometryKinds
          <6>2. \A f \in DOMAIN objects[current] :
                  f # "attributes" => object[f] = objects[current][f]
            BY <4>4, <5>1
          <6>3. DOMAIN object = DOMAIN objects[current]
            BY <4>4, <5>1
          <6>4. object.attributes =
                  IF r.attribute \in Attribute /\ r.scalar
                  THEN [objects[current].attributes EXCEPT ![r.attribute] = r.value]
                  ELSE objects[current].attributes
            BY <4>2, <4>4, <5>1 DEF Values
          <6>5. \A a \in Attribute :
                  object.attributes[a] = IF r.attribute = a /\ r.scalar
                                         THEN r.value ELSE objects[current].attributes[a]
            BY <4>2, <6>4 DEF Values
          <6>6. DOMAIN object.attributes = DOMAIN objects[current].attributes
            BY <6>4
          <6>7. Values(object)
            BY <4>2, <6>3, <6>6 DEF Values
          <6>8. \A g \in GeometryKinds : object[g] = objects[current][g]
            BY <4>2, <6>1, <6>2 DEF Values
          <6>9. object.type = objects[current].type /\ object.built = objects[current].built
            BY <4>2, <6>2 DEF Values
          <6> HIDE DEF Values, Decoded
          <6> QED
            BY <2>8, <2>10, <5>1, <6>1, <6>5, <6>7, <6>8, <6>9 DEF SetBy
        <5>2. CASE r.kind # "attribute"
          <6>1. r.kind \in GeometryKinds /\ "type" \notin GeometryKinds
                /\ "attributes" \notin GeometryKinds /\ "built" \notin GeometryKinds
            BY <3>1, <5>2 DEF GeometryKinds
          <6>2. object = [objects[current] EXCEPT ![r.kind] = Decoded(r)]
            BY <4>4, <5>2
          <6> HIDE DEF Decoded
          <6>3. /\ DOMAIN object = DOMAIN objects[current]
                /\ \A f \in DOMAIN objects[current] :
                     object[f] = IF f = r.kind THEN Decoded(r) ELSE objects[current][f]
            BY <6>2
          <6>4. /\ object.type = objects[current].type
                /\ object.attributes = objects[current].attributes
                /\ object.built = objects[current].built
            BY <4>2, <6>1, <6>3 DEF Values
          <6>5. \A g \in GeometryKinds :
                  object[g] = IF r.kind = g THEN Decoded(r) ELSE objects[current][g]
            BY <4>2, <6>3 DEF Values
          <6>6. Values(object)
            BY <4>2, <6>3, <6>4 DEF Values
          <6> HIDE DEF Values
          <6> QED
            BY <2>1, <2>8, <2>10, <5>2, <6>4, <6>5, <6>6 DEF SetBy
        <5> QED
          BY <5>1, <5>2
      <4>8. ASSUME NEW k \in 1..Len(objects), k # current
            PROVE  SetBy(r, k, objects[k], objects[k])
        <5>1. Values(objects[k])
          BY DEF Shapely
        <5> HIDE DEF Values, Decoded
        <5> QED
          BY <2>1, <4>8, <5>1 DEF SetBy
      <4>9. \A k \in 1..Len(objects) : SetBy(r, k, objects[k], objects'[k])
        BY <4>6, <4>7, <4>8
      <4> HIDE DEF SetBy
      <4> QED
        BY <2>1, <2>8, <2>10, <3>1, <4>5, <4>9 DEF ObjectsTake
    <3> QED
      BY <3>2, <3>3
  <2>11. CheckStatus(r) => Return(FALSE) \/ (GoesOn /\ UNCHANGED <<current, chart, tables>>)
    BY DEF CheckStatus
  <2> HIDE DEF ObjectsTake, TablesTake
  <2> QED
    BY <1>4, <2>2, <2>3, <2>4, <2>6, <2>7, <2>8, <2>9, <2>10, <2>11 DEF TakeRecord
<1>5. CASE UNCHANGED vars
  BY <1>5 DEF vars, chart, tables
<1> QED
  BY <1>2, <1>3, <1>4, <1>5 DEF Next

\* The feature of a place is over when another feature, or a call, has begun.
Closed(p) == \E j \in p + 1..Len(taken) : taken[j].kind \in {"feature", "begin"}
Own(kind, k) == OwnedBy(Features[k]) \cap Of(kind)

\* What a record more makes of the history read as it should be.
LEMMA HistoryGrows ==
  ASSUME TakenNumbered, NEW e, taken' = Append(taken, e), NEW n, n = Len(taken) + 1
  PROVE  /\ Len(taken) \in Nat /\ Len(taken') = n /\ n \notin 1..Len(taken)
         /\ \A i \in 1..Len(taken) : taken'[i] = taken[i] /\ i < n
         /\ taken'[n] = e
         /\ \A kind : /\ Of(kind) \in SUBSET (1..Len(taken))
                      /\ Of(kind)' = IF e.kind = kind THEN Of(kind) \cup {n} ELSE Of(kind)
         /\ \A p \in 1..Len(taken) :
              /\ OwnedBy(p) \in SUBSET (1..Len(taken))
              /\ OwnedBy(p)' = IF Closed(p) \/ e.kind \in {"feature", "begin"}
                               THEN OwnedBy(p) ELSE OwnedBy(p) \cup {n}
              /\ Closed(p)' <=> Closed(p) \/ e.kind \in {"feature", "begin"}
         /\ OwnedBy(n)' = {} /\ ~Closed(n)'
<1>1. /\ Len(taken) \in Nat /\ Len(taken') = n
      /\ \A i \in 1..Len(taken) : taken'[i] = taken[i]
      /\ taken'[n] = e
  BY OneTaken
<1>2. /\ 1..Len(taken') = (1..Len(taken)) \cup {n} /\ n \notin 1..Len(taken)
      /\ \A i \in 1..Len(taken) : i < n
  BY <1>1
<1>3. ASSUME NEW kind
      PROVE  /\ Of(kind) \in SUBSET (1..Len(taken))
             /\ Of(kind)' = IF e.kind = kind THEN Of(kind) \cup {n} ELSE Of(kind)
  <2>1. Of(kind)' = {i \in 1..Len(taken') : taken'[i].kind = kind}
    BY DEF Of
  <2>2. Of(kind) = {i \in 1..Len(taken) : taken[i].kind = kind}
    BY DEF Of
  <2> QED
    BY <1>1, <1>2, <2>1, <2>2
<1>4. ASSUME NEW p \in 1..Len(taken)
      PROVE  /\ p + 1..Len(taken') = (p + 1..Len(taken)) \cup {n}
             /\ p + 1..Len(taken) \subseteq 1..Len(taken)
             /\ \A i \in p + 1..Len(taken) : p + 1..i \subseteq 1..Len(taken)
             /\ p + 1..n = (p + 1..Len(taken)) \cup {n}
  BY <1>1
<1>5. ASSUME NEW p \in 1..Len(taken)
      PROVE  /\ OwnedBy(p) \in SUBSET (1..Len(taken))
             /\ OwnedBy(p)' = IF Closed(p) \/ e.kind \in {"feature", "begin"}
                              THEN OwnedBy(p) ELSE OwnedBy(p) \cup {n}
             /\ Closed(p)' <=> Closed(p) \/ e.kind \in {"feature", "begin"}
  <2> DEFINE ends(x) == x.kind \in {"feature", "begin"}
  <2>1. Closed(p) <=> \E j \in p + 1..Len(taken) : ends(taken[j])
    BY DEF Closed
  <2>2. Closed(p)' <=> \E j \in p + 1..Len(taken') : ends(taken'[j])
    BY DEF Closed
  <2>3. OwnedBy(p) = {i \in p + 1..Len(taken) : \A j \in p + 1..i : ~ends(taken[j])}
    BY DEF OwnedBy
  <2>4. OwnedBy(p)' = {i \in p + 1..Len(taken') : \A j \in p + 1..i : ~ends(taken'[j])}
    BY DEF OwnedBy
  <2>5. ends(e) <=> e.kind \in {"feature", "begin"}
    OBVIOUS
  <2> HIDE DEF ends
  <2>6. Closed(p)' <=> Closed(p) \/ ends(e)
    <3>1. \A j : j \in p + 1..Len(taken') <=> j \in p + 1..Len(taken) \/ j = n
      BY <1>4
    <3>2. \A j \in p + 1..Len(taken) : taken'[j] = taken[j]
      BY <1>1, <1>4
    <3> QED
      BY <1>1, <2>1, <2>2, <3>1, <3>2, Zenon
  <2>7. \A i \in p + 1..Len(taken) :
          (\A j \in p + 1..i : ~ends(taken'[j])) <=> (\A j \in p + 1..i : ~ends(taken[j]))
    BY <1>1, <1>4
  <2>8. (\A j \in p + 1..n : ~ends(taken'[j])) <=> ~Closed(p) /\ ~ends(e)
    BY <1>1, <1>2, <1>4, <2>1
  <2>9. OwnedBy(p) \in SUBSET (1..Len(taken))
    BY <1>4, <2>3
  <2>10. \A i : i \in OwnedBy(p)' <=> i \in OwnedBy(p) \/ (i = n /\ ~Closed(p) /\ ~ends(e))
    <3>1. \A i : i \in p + 1..Len(taken') <=> i \in p + 1..Len(taken) \/ i = n
      BY <1>4
    <3> QED
      BY <2>3, <2>4, <2>7, <2>8, <3>1, <1>2, <1>4
  <2> QED
    BY <2>5, <2>6, <2>9, <2>10
<1>6. OwnedBy(n)' = {} /\ ~Closed(n)'
  <2>1. n + 1..Len(taken') = {}
    BY <1>1
  <2>2. OwnedBy(n)' = {i \in n + 1..Len(taken') :
          \A j \in n + 1..i : taken'[j].kind \notin {"feature", "begin"}}
    BY DEF OwnedBy
  <2>3. Closed(n)' <=> \E j \in n + 1..Len(taken') : taken'[j].kind \in {"feature", "begin"}
    BY DEF Closed
  <2> QED
    BY <2>1, <2>2, <2>3
<1> QED
  BY <1>1, <1>2, <1>3, <1>5, <1>6

\* The features in the order of the stream, and one more behind them.
LEMMA FeaturesGrow ==
  ASSUME TakenNumbered, NEW e, taken' = Append(taken, e), NEW n, n = Len(taken) + 1
  PROVE  /\ Len(Features) \in Nat
         /\ Len(Features') = IF e.kind = "feature" THEN Len(Features) + 1 ELSE Len(Features)
         /\ \A k \in 1..Len(Features) : Features'[k] = Features[k]
         /\ e.kind = "feature" => Features'[Len(Features) + 1] = n
<1> DEFINE F == Of("feature")
<1>1. /\ Len(taken) \in Nat /\ F \in SUBSET (1..Len(taken))
      /\ F' = IF e.kind = "feature" THEN F \cup {n} ELSE F
      /\ n \in Nat /\ n > Len(taken)
  BY HistoryGrows
<1>2. /\ Cardinality(F) \in Nat
      /\ Cardinality(F \cup {n}) = Cardinality(F) + 1
      /\ \A k \in 1..Cardinality(F) : Ranked(F \cup {n}, k) = Ranked(F, k)
      /\ Ranked(F \cup {n}, Cardinality(F) + 1) = n
  <2>1. ASSUME NEW N \in Nat, NEW G \in SUBSET (1..N), n > N
        PROVE  /\ Cardinality(G) \in Nat
               /\ Cardinality(G \cup {n}) = Cardinality(G) + 1
               /\ \A k \in 1..Cardinality(G) : Ranked(G \cup {n}, k) = Ranked(G, k)
               /\ Ranked(G \cup {n}, Cardinality(G) + 1) = n
    <3>1. n \in Nat
      BY <1>1
    <3>2. /\ IsFiniteSet(G) /\ Cardinality(G) \in Nat
          /\ Cardinality(G \cup {n}) = Cardinality(G) + 1
          /\ \A k \in 1..Cardinality(G) : Ranked(G \cup {n}, k) = Ranked(G, k)
          /\ Ranked(G \cup {n}, Cardinality(G) + 1) = n
      BY ONLY <2>1, <3>1, OneRanked
    <3> QED
      BY <3>2
  <2> HIDE DEF F
  <2> QED
    BY <1>1, <2>1, Zenon
<1>3. Features = [k \in 1..Cardinality(F) |-> Ranked(F, k)]
  BY DEF Features, Ranked, Rank
<1>4. Features' = [k \in 1..Cardinality(F') |-> Ranked(F', k)]
  BY DEF Features, Ranked, Rank
<1> HIDE DEF F
<1>5. Cardinality(F') \in Nat
  BY <1>1, <1>2
<1>6. Len(Features) = Cardinality(F) /\ Len(Features') = Cardinality(F')
  BY <1>2, <1>3, <1>4, <1>5
<1>7. CASE e.kind = "feature"
  <2>1. F' = F \cup {n}
    BY <1>1, <1>7
  <2>2. /\ 1..Cardinality(F) \subseteq 1..Cardinality(F')
        /\ Cardinality(F) + 1 \in 1..Cardinality(F')
    BY <1>2, <2>1
  <2> QED
    BY <1>2, <1>3, <1>4, <1>6, <1>7, <2>1, <2>2
<1>8. CASE e.kind # "feature"
  <2>1. F' = F
    BY <1>1, <1>8
  <2>2. Features' = Features
    BY <1>3, <1>4, <2>1
  <2> QED
    BY <1>2, <1>6, <1>8, <2>2
<1> QED
  BY <1>7, <1>8

\* Each feature has its object, and while a call is in progress records go to
\* the object of the feature that is not over, if there is one.
Held ==
  /\ Len(objects) = Len(Features)
  /\ \A k \in 1..Len(objects) : Features[k] \in 1..Len(taken)
  /\ Shapely
  /\ call # "none" =>
       \A k \in 1..Len(objects) : k = current <=> ~Closed(Features[k])

\* Every object keeps its feature record, and only the current one is open.
LEMMA HeldStep ==
  ASSUME IInv, TakenNumbered, Held, NEW e, ObjectsTake(e)
  PROVE  Held'
<1> PICK n : n = Len(taken) + 1
  OBVIOUS
<1> PICK N : N = Len(objects)
  OBVIOUS
<1>1. /\ taken' = Append(taken, e)
      /\ \A k \in 1..Len(objects) : SetBy(e, k, objects[k], objects'[k])
  BY DEF ObjectsTake
<1>2. /\ N \in Nat /\ N = Len(Features)
      /\ current \in 0..N
      /\ \A k \in 1..N : Features[k] \in 1..Len(taken) /\ Values(objects[k])
  BY DEF IInv, ObjectsNumbered, ChartTypeOK, Held, Shapely
<1>3. /\ Len(taken) \in Nat /\ Len(taken') = n
      /\ \A p \in 1..Len(taken) : Closed(p)' <=> Closed(p) \/ e.kind \in {"feature", "begin"}
      /\ ~Closed(n)'
  BY <1>1, HistoryGrows
<1>4. /\ Len(Features') = IF e.kind = "feature" THEN N + 1 ELSE N
      /\ \A k \in 1..N : Features'[k] = Features[k]
      /\ e.kind = "feature" => Features'[N + 1] = n
  BY <1>1, <1>2, FeaturesGrow
<1>5. \A k \in 1..N : Values(objects'[k])
  BY <1>1 DEF SetBy
<1>6. 1..Len(taken) \subseteq 1..n /\ n \in 1..n
  BY <1>3
<1>7. call # "none" => \A k \in 1..N : k = current <=> ~Closed(Features[k])
  BY DEF Held
<1>8. ASSUME NEW k \in 1..N
      PROVE  Closed(Features[k])' <=> Closed(Features[k]) \/ e.kind \in {"feature", "begin"}
  <2>1. PICK p \in 1..Len(taken) : p = Features[k] /\ p = Features'[k]
    BY <1>2, <1>4
  <2>2. Closed(Features[k])' <=> Closed(p)'
    BY <2>1 DEF Closed
  <2> QED
    BY <1>3, <2>1, <2>2
<1>9. CASE e.kind = "feature"
  <2>1. /\ Len(objects') = N + 1 /\ current' = N + 1
        /\ objects'[N + 1] = EmptyObject(e.value)
    BY <1>9 DEF ObjectsTake
  <2>2. Values(EmptyObject(e.value))
    BY DEF EmptyObject, Values, GeometryKinds
  <2>3. 1..N + 1 = (1..N) \cup {N + 1} /\ N + 1 \notin 1..N
    BY <1>2
  <2>4. \A k \in 1..N : Closed(Features[k])'
    BY <1>4, <1>8, <1>9
  <2>5. ~Closed(Features[N + 1])'
    <3>1. Closed(Features[N + 1])' <=> Closed(n)'
      BY <1>4, <1>9 DEF Closed
    <3> QED
      BY <1>3, <3>1
  <2> HIDE DEF Values, EmptyObject
  <2> QED
    BY <1>2, <1>3, <1>4, <1>5, <1>6, <1>9, <2>1, <2>2, <2>3, <2>4, <2>5 DEF Held, Shapely
<1>10. CASE e.kind # "feature"
  <2>1. /\ Len(objects') = N
        /\ \/ e.kind = "begin" /\ current' = 0
           \/ e.kind # "begin" /\ current' = current /\ call # "none"
           \/ call' = "none"
    BY <1>10 DEF ObjectsTake
  <2>2. ASSUME call' # "none", NEW k \in 1..N
        PROVE  k = current' <=> ~Closed(Features[k])'
    <3>1. CASE e.kind = "begin" /\ current' = 0
      <4>1. k # 0
        BY <1>2
      <4> QED
        BY <1>4, <1>8, <3>1, <4>1
    <3>2. CASE e.kind # "begin" /\ current' = current /\ call # "none"
      BY <1>4, <1>7, <1>8, <1>10, <3>2
    <3> QED
      BY <2>1, <2>2, <3>1, <3>2
  <2> HIDE DEF Values
  <2> QED
    BY <1>2, <1>3, <1>4, <1>5, <1>6, <1>10, <2>1, <2>2 DEF Held, Shapely
<1> QED
  BY <1>9, <1>10

\* An object as its records say, by number.
AttributesOf(k, a) ==
  {i \in Own("attribute", k) : taken[i].attribute = a /\ taken[i].scalar}
AsRead(k) ==
  /\ objects[k].type = taken[Features[k]].value
  /\ \A a \in Attribute : objects[k].attributes[a] = LastValue(AttributesOf(k, a))
  /\ \A g \in GeometryKinds \ {"multipoint"} : objects[k][g] = LastValue(Own(g, k))
  /\ objects[k].multipoint =
       IF Own("multipoint", k) = {} THEN NoValue
       ELSE [points |-> LastValue(Own("multipoint", k)),
             reference |-> ExtentAt(Max(Own("multipoint", k)))]

\* A place in the past keeps the extent it had.
LEMMA ExtentStays ==
  ASSUME TakenNumbered, HasLast, HeaderFromRecords, NEW e, taken' = Append(taken, e),
         NEW n, n = Len(taken) + 1
  PROVE  /\ \A m \in 1..Len(taken) : ExtentAt(m)' = ExtentAt(m)
         /\ e.kind # "extent" => ExtentAt(n)' = extent
<1> DEFINE before(S, m) == {j \in S : j < m}
<1>1. /\ Len(taken) \in Nat
      /\ \A i \in 1..Len(taken) : taken'[i] = taken[i] /\ i < n
      /\ Of("extent") \in SUBSET (1..Len(taken))
      /\ Of("extent")' = IF e.kind = "extent" THEN Of("extent") \cup {n} ELSE Of("extent")
  BY HistoryGrows
<1>2. ASSUME NEW S \in SUBSET (1..Len(taken))
      PROVE  (IF S = {} THEN NoValue ELSE taken'[Max(S)].value) = LastValue(S)
  BY <1>2, Recent
<1>3. ASSUME NEW m \in 1..Len(taken)
      PROVE  ExtentAt(m)' = ExtentAt(m)
  <2>1. before(Of("extent")', m) = before(Of("extent"), m)
    BY <1>1
  <2>2. before(Of("extent"), m) \in SUBSET (1..Len(taken))
    BY <1>1
  <2>3. ExtentAt(m)' = IF before(Of("extent")', m) = {} THEN NoValue
                       ELSE taken'[Max(before(Of("extent")', m))].value
    BY DEF ExtentAt, LastValue
  <2>4. ExtentAt(m) = LastValue(before(Of("extent"), m))
    BY DEF ExtentAt
  <2> HIDE DEF before
  <2> QED
    BY <1>2, <2>1, <2>2, <2>3, <2>4
<1>4. ASSUME e.kind # "extent"
      PROVE  ExtentAt(n)' = extent
  <2>1. before(Of("extent")', n) = Of("extent")
    BY <1>1, <1>4
  <2>2. ExtentAt(n)' = IF before(Of("extent")', n) = {} THEN NoValue
                       ELSE taken'[Max(before(Of("extent")', n))].value
    BY DEF ExtentAt, LastValue
  <2> HIDE DEF before
  <2>3. ExtentAt(n)' = LastValue(Of("extent"))
    BY <1>1, <1>2, <2>1, <2>2
  <2> QED
    BY <2>3 DEF HeaderFromRecords
<1> QED
  BY <1>3, <1>4

\* A record that goes to an object is the last one of its own, and no other
\* record changes what is its own.
LEMMA OwnGrows ==
  ASSUME IInv, TakenNumbered, Held, NEW e, ObjectsTake(e), NEW n, n = Len(taken) + 1,
         NEW k \in 1..Len(objects)
  PROVE  LET hit(kind) == call # "none" /\ k = current /\ e.kind = kind
         IN /\ \A kind \in {"attribute"} \cup GeometryKinds :
                 /\ Own(kind, k) \in SUBSET (1..Len(taken))
                 /\ Own(kind, k)' = IF hit(kind) THEN Own(kind, k) \cup {n} ELSE Own(kind, k)
            /\ \A a \in Attribute :
                 /\ AttributesOf(k, a) \in SUBSET (1..Len(taken))
                 /\ AttributesOf(k, a)' =
                      IF hit("attribute") /\ e.attribute = a /\ e.scalar
                      THEN AttributesOf(k, a) \cup {n} ELSE AttributesOf(k, a)
<1> DEFINE hit(kind) == call # "none" /\ k = current /\ e.kind = kind
<1>1. taken' = Append(taken, e) /\ call = "none" => e.kind = "begin"
  BY DEF ObjectsTake
<1>2. PICK p \in 1..Len(taken) : p = Features[k] /\ p = Features'[k]
  BY <1>1, FeaturesGrow DEF Held, ObjectsTake
<1>3. /\ \A i \in 1..Len(taken) : taken'[i] = taken[i]
      /\ taken'[n] = e /\ n \notin 1..Len(taken)
      /\ \A kind : /\ Of(kind) \in SUBSET (1..Len(taken))
                   /\ Of(kind)' = IF e.kind = kind THEN Of(kind) \cup {n} ELSE Of(kind)
      /\ OwnedBy(p) \in SUBSET (1..Len(taken))
      /\ OwnedBy(p)' = IF Closed(p) \/ e.kind \in {"feature", "begin"}
                       THEN OwnedBy(p) ELSE OwnedBy(p) \cup {n}
  BY HistoryGrows DEF ObjectsTake
<1>4. \A kind : Own(kind, k) = OwnedBy(p) \cap Of(kind)
  BY <1>2 DEF Own
<1>5. \A kind : Own(kind, k)' = OwnedBy(p)' \cap Of(kind)'
  BY <1>2 DEF Own, OwnedBy
<1>6. ASSUME NEW kind \in {"attribute"} \cup GeometryKinds
      PROVE  /\ Own(kind, k) \in SUBSET (1..Len(taken))
             /\ Own(kind, k)' = IF hit(kind) THEN Own(kind, k) \cup {n} ELSE Own(kind, k)
  <2>1. kind # "feature" /\ kind # "begin"
    BY DEF GeometryKinds
  <2>2. e.kind = kind => (hit(kind) <=> ~Closed(p))
    BY <1>1, <1>2, <2>1 DEF Held, ObjectsTake
  <2> HIDE DEF hit
  <2>3. ~(e.kind = kind) => ~hit(kind)
    BY DEF hit
  <2>4. n \notin OwnedBy(p) /\ n \notin Of(kind) /\ OwnedBy(p) \subseteq 1..Len(taken)
    BY <1>3
  <2>5. Own(kind, k) = OwnedBy(p) \cap Of(kind)
    BY <1>4
  <2>6. Own(kind, k)' = OwnedBy(p)' \cap Of(kind)'
    BY <1>5
  <2>7. CASE e.kind = kind
    <3>1. Of(kind)' = Of(kind) \cup {n}
      BY <1>3, <2>7
    <3>2. OwnedBy(p)' = IF hit(kind) THEN OwnedBy(p) \cup {n} ELSE OwnedBy(p)
      BY <1>3, <2>1, <2>2, <2>7
    <3> QED
      BY <2>4, <2>5, <2>6, <2>7, <3>1, <3>2
  <2>8. CASE e.kind # kind
    <3>1. Of(kind)' = Of(kind)
      BY <1>3, <2>8
    <3>2. OwnedBy(p)' \in {OwnedBy(p), OwnedBy(p) \cup {n}}
      BY <1>3
    <3> QED
      BY <2>3, <2>4, <2>5, <2>6, <2>8, <3>1, <3>2
  <2> QED
    BY <2>7, <2>8
<1>7. ASSUME NEW a \in Attribute
      PROVE  /\ AttributesOf(k, a) \in SUBSET (1..Len(taken))
             /\ AttributesOf(k, a)' =
                  IF hit("attribute") /\ e.attribute = a /\ e.scalar
                  THEN AttributesOf(k, a) \cup {n} ELSE AttributesOf(k, a)
  <2> DEFINE says(x) == x.attribute = a /\ x.scalar
  <2>1. AttributesOf(k, a) = {i \in Own("attribute", k) : says(taken[i])}
    BY DEF AttributesOf
  <2>2. AttributesOf(k, a)' = {i \in Own("attribute", k)' : says(taken'[i])}
    BY DEF AttributesOf
  <2>3. says(e) <=> e.attribute = a /\ e.scalar
    OBVIOUS
  <2>4. /\ Own("attribute", k) \in SUBSET (1..Len(taken))
        /\ Own("attribute", k)' = IF hit("attribute") THEN Own("attribute", k) \cup {n}
                                  ELSE Own("attribute", k)
    BY <1>6
  <2> HIDE DEF says, hit
  <2>5. AttributesOf(k, a)' = IF hit("attribute") /\ says(e)
                              THEN AttributesOf(k, a) \cup {n} ELSE AttributesOf(k, a)
    <3>1. \A i \in Own("attribute", k) : taken'[i] = taken[i] /\ i # n
      BY <1>3, <2>4
    <3>2. \A i : i \in AttributesOf(k, a)' <=>
             i \in AttributesOf(k, a) \/ (i = n /\ hit("attribute") /\ says(e))
      BY <1>3, <2>1, <2>2, <2>4, <3>1, Zenon
    <3> QED
      BY <3>2
  <2> QED
    BY <2>1, <2>3, <2>4, <2>5
<1> QED
  BY <1>6, <1>7

\* Every step leaves each object as its records say.
LEMMA ObjectsStep ==
  ASSUME IInv, TakenNumbered, HasLast, HeaderFromRecords, Held, ObjectsFromRecords,
         NEW e, ObjectsTake(e)
  PROVE  ObjectsFromRecords'
<1> PICK n : n = Len(taken) + 1
  OBVIOUS
<1> PICK N : N = Len(objects)
  OBVIOUS
<1>1. /\ taken' = Append(taken, e) /\ N \in Nat /\ N = Len(Features)
      /\ \A k \in 1..N : SetBy(e, k, objects[k], objects'[k])
      /\ \A k \in 1..N : Features[k] \in 1..Len(taken)
  BY DEF ObjectsTake, Held, IInv, ObjectsNumbered
<1>2. /\ Len(taken) \in Nat /\ Len(taken') = n /\ n \notin 1..Len(taken)
      /\ \A i \in 1..Len(taken) : taken'[i] = taken[i]
      /\ taken'[n] = e
  BY <1>1, HistoryGrows
<1>3. /\ Len(Features') = IF e.kind = "feature" THEN N + 1 ELSE N
      /\ \A k \in 1..N : Features'[k] = Features[k]
      /\ e.kind = "feature" => Features'[N + 1] = n
  BY <1>1, FeaturesGrow
<1>4. /\ ObjectsFromRecords <=> Len(objects) = Len(Features) /\ \A k \in 1..N : AsRead(k)
      /\ ObjectsFromRecords' <=> /\ Len(objects') = Len(Features')
                                 /\ \A k \in 1..Len(objects') : AsRead(k)'
  BY DEF ObjectsFromRecords, AsRead, AttributesOf, Own
<1>5. ASSUME NEW S \in SUBSET (1..Len(taken)), NEW T, T \in {S, S \cup {n}}
      PROVE  /\ T # {} => Max(T) = IF T = S THEN Max(S) ELSE n
             /\ (IF T = {} THEN NoValue ELSE taken'[Max(T)].value) =
                  IF T = S THEN LastValue(S) ELSE e.value
  BY <1>1, <1>5, Recent
<1>6. ASSUME NEW S \in SUBSET (1..Len(taken)), S # {}
      PROVE  Max(S) \in 1..Len(taken)
  BY <1>6 DEF HasLast, Max
<1>7. /\ \A m \in 1..Len(taken) : ExtentAt(m)' = ExtentAt(m)
      /\ e.kind # "extent" => ExtentAt(n)' = extent
  BY <1>1, ExtentStays
<1>8. ASSUME NEW k \in 1..N
      PROVE  AsRead(k)'
  <2> DEFINE hit(kind) == call # "none" /\ k = current /\ e.kind = kind
  <2>1. AsRead(k) /\ SetBy(e, k, objects[k], objects'[k])
    BY <1>1, <1>4
  <2>2. /\ \A kind \in {"attribute"} \cup GeometryKinds :
             /\ Own(kind, k) \in SUBSET (1..Len(taken))
             /\ Own(kind, k)' = IF hit(kind) THEN Own(kind, k) \cup {n} ELSE Own(kind, k)
        /\ \A a \in Attribute :
             /\ AttributesOf(k, a) \in SUBSET (1..Len(taken))
             /\ AttributesOf(k, a)' =
                  IF hit("attribute") /\ e.attribute = a /\ e.scalar
                  THEN AttributesOf(k, a) \cup {n} ELSE AttributesOf(k, a)
    BY OwnGrows
  <2>3. objects'[k].type = taken'[Features'[k]].value
    BY <1>1, <1>2, <1>3, <2>1 DEF AsRead, SetBy
  <2>4. ASSUME NEW a \in Attribute
        PROVE  objects'[k].attributes[a] = LastValue(AttributesOf(k, a))'
    <3> DEFINE S == AttributesOf(k, a)
               T == AttributesOf(k, a)'
    <3>1. /\ S \in SUBSET (1..Len(taken)) /\ n \notin S
          /\ T = IF hit("attribute") /\ e.attribute = a /\ e.scalar
                 THEN S \cup {n} ELSE S
      BY <1>2, <2>2
    <3>2. (IF T = {} THEN NoValue ELSE taken'[Max(T)].value) =
             IF T = S THEN LastValue(S) ELSE e.value
      <4> HIDE DEF S, T
      <4> QED
        BY <1>5, <3>1
    <3>3. LastValue(AttributesOf(k, a))' = IF T = {} THEN NoValue ELSE taken'[Max(T)].value
      BY DEF LastValue
    <3>4. objects'[k].attributes[a] =
            IF hit("attribute") /\ e.attribute = a /\ e.scalar
            THEN e.value ELSE LastValue(S)
      BY <2>1 DEF SetBy, AsRead
    <3> HIDE DEF S, T, hit
    <3> QED
      BY <3>1, <3>2, <3>3, <3>4
  <2>5. ASSUME NEW g \in GeometryKinds
        PROVE  /\ LastValue(Own(g, k))' = IF hit(g) THEN e.value ELSE LastValue(Own(g, k))
               /\ Own(g, k)' = {} <=> Own(g, k) = {} /\ ~hit(g)
               /\ Own(g, k)' # {} => Max(Own(g, k)') = IF hit(g) THEN n ELSE Max(Own(g, k))
    <3> DEFINE S == Own(g, k)
               T == Own(g, k)'
    <3>1. /\ S \in SUBSET (1..Len(taken)) /\ n \notin S
          /\ T = IF hit(g) THEN S \cup {n} ELSE S
      BY <1>2, <2>2
    <3>2. LastValue(Own(g, k))' = IF T = {} THEN NoValue ELSE taken'[Max(T)].value
      BY DEF LastValue
    <3> HIDE DEF S, T, hit
    <3>3. /\ T # {} => Max(T) = IF T = S THEN Max(S) ELSE n
          /\ (IF T = {} THEN NoValue ELSE taken'[Max(T)].value) =
               IF T = S THEN LastValue(S) ELSE e.value
      BY <1>5, <3>1
    <3>4. /\ LastValue(Own(g, k))' = IF hit(g) THEN e.value ELSE LastValue(S)
          /\ T = {} <=> S = {} /\ ~hit(g)
          /\ T # {} => Max(T) = IF hit(g) THEN n ELSE Max(S)
      BY <3>1, <3>2, <3>3
    <3> QED
      BY <3>4 DEF S, T
  <2>6. \A g \in GeometryKinds :
          objects'[k][g] = IF hit(g) THEN Decoded(e) ELSE objects[k][g]
    BY <2>1 DEF SetBy
  <2>7. ASSUME NEW g \in GeometryKinds \ {"multipoint"}
        PROVE  objects'[k][g] = LastValue(Own(g, k))'
    <3>1. hit(g) => Decoded(e) = e.value
      BY DEF Decoded
    <3>2. objects[k][g] = LastValue(Own(g, k))
      BY <2>1 DEF AsRead
    <3> HIDE DEF hit, Decoded
    <3> QED
      BY <2>5, <2>6, <3>1, <3>2
  <2>8. objects'[k].multipoint =
          IF Own("multipoint", k)' = {} THEN NoValue
          ELSE [points |-> LastValue(Own("multipoint", k))',
                reference |-> ExtentAt(Max(Own("multipoint", k)))']
    <3>1. "multipoint" \in GeometryKinds
      BY DEF GeometryKinds
    <3>2. objects'[k].multipoint = IF hit("multipoint") THEN Decoded(e) ELSE objects[k].multipoint
      BY <2>6, <3>1
    <3>3. CASE hit("multipoint")
      <4>1. Decoded(e) = [points |-> e.value, reference |-> extent]
        BY <3>3 DEF Decoded
      <4>2. /\ Own("multipoint", k)' # {} /\ Max(Own("multipoint", k)') = n
            /\ LastValue(Own("multipoint", k))' = e.value
        BY <2>5, <3>1, <3>3
      <4>3. ExtentAt(Max(Own("multipoint", k)))' = ExtentAt(n)'
        BY <4>2 DEF ExtentAt
      <4>4. ExtentAt(n)' = extent
        BY <1>7, <3>3
      <4> QED
        BY <3>2, <3>3, <4>1, <4>2, <4>3, <4>4
    <3>4. CASE ~hit("multipoint") /\ Own("multipoint", k) = {}
      BY <2>1, <2>5, <3>1, <3>2, <3>4 DEF AsRead
    <3>5. CASE ~hit("multipoint") /\ Own("multipoint", k) # {}
      <4>1. PICK m \in 1..Len(taken) : m = Max(Own("multipoint", k))
        BY <1>6, <2>2, <3>1, <3>5
      <4>2. /\ Own("multipoint", k)' # {} /\ Max(Own("multipoint", k)') = m
            /\ LastValue(Own("multipoint", k))' = LastValue(Own("multipoint", k))
        BY <2>5, <3>1, <3>5, <4>1
      <4>3. ExtentAt(Max(Own("multipoint", k)))' = ExtentAt(m)'
        BY <4>2 DEF ExtentAt
      <4>4. objects[k].multipoint = [points |-> LastValue(Own("multipoint", k)),
                                     reference |-> ExtentAt(m)]
        BY <2>1, <3>5, <4>1 DEF AsRead
      <4> QED
        BY <1>7, <3>2, <3>5, <4>2, <4>3, <4>4
    <3> QED
      BY <3>3, <3>4, <3>5
  <2> QED
    BY <2>3, <2>4, <2>7, <2>8 DEF AsRead
<1>9. CASE e.kind # "feature"
  <2>1. Len(objects') = N
    BY <1>9 DEF ObjectsTake
  <2> QED
    BY <1>3, <1>4, <1>8, <1>9, <2>1
<1>10. CASE e.kind = "feature"
  <2>1. Len(objects') = N + 1 /\ objects'[N + 1] = EmptyObject(e.value)
    BY <1>10 DEF ObjectsTake
  <2>2. Features'[N + 1] = n
    BY <1>3, <1>10
  <2>3. \A kind : Own(kind, N + 1)' = {}
    <3>1. OwnedBy(n)' = {}
      BY <1>1, HistoryGrows
    <3>2. OwnedBy(Features[N + 1])' = OwnedBy(n)'
      BY <2>2 DEF OwnedBy
    <3>3. \A kind : Own(kind, N + 1)' = OwnedBy(Features[N + 1])' \cap Of(kind)'
      BY DEF Own
    <3> QED
      BY <3>1, <3>2, <3>3
  <2>4. \A a \in Attribute : AttributesOf(N + 1, a)' = {}
    <3>1. \A a \in Attribute : AttributesOf(N + 1, a)' =
            {i \in Own("attribute", N + 1)' : taken'[i].attribute = a /\ taken'[i].scalar}
      BY DEF AttributesOf
    <3> QED
      BY <2>3, <3>1
  <2>5. /\ \A a \in Attribute : LastValue(AttributesOf(N + 1, a))' = NoValue
        /\ \A g \in GeometryKinds : LastValue(Own(g, N + 1))' = NoValue
    BY <2>3, <2>4 DEF LastValue
  <2>6. /\ objects'[N + 1].type = e.value
        /\ \A a \in Attribute : objects'[N + 1].attributes[a] = NoValue
        /\ \A g \in GeometryKinds : objects'[N + 1][g] = NoValue
    BY <2>1 DEF EmptyObject, GeometryKinds
  <2>7. AsRead(N + 1)'
    BY <1>2, <2>2, <2>3, <2>5, <2>6 DEF AsRead, GeometryKinds
  <2>8. 1..N + 1 = (1..N) \cup {N + 1}
    BY <1>1
  <2> QED
    BY <1>3, <1>4, <1>8, <1>10, <2>1, <2>7, <2>8
<1> QED
  BY <1>9, <1>10

-----------------------------------------------------------------------------
(* The lines of the objects, from the tables of the read that built them.  *)

\* An entry that has been read stays, and the last record has the last word.
LEMMA EntriesGrow ==
  ASSUME TakenNumbered, HasLast, HeaderFromRecords, NEW e, taken' = Append(taken, e),
         NEW n, n = Len(taken) + 1, NEW kind \in {"edges", "nodes"}, NEW i \in Index,
         NEW s \in 1..Len(taken)
  PROVE  /\ \A b \in 1..Len(taken) : Entry(kind, i, s, b)' = Entry(kind, i, s, b)
         /\ Entry(kind, i, s, n)' =
              IF e.kind = kind /\ i \in DOMAIN e.entries
              THEN [points |-> e.entries[i], reference |-> extent]
              ELSE Entry(kind, i, s, Len(taken))
<1> DEFINE At(b) == {j \in Of(kind) \cap (s..b) : i \in DOMAIN taken[j].entries}
           In(S) == IF S = {} THEN NoValue
                    ELSE [points |-> taken[Max(S)].entries[i], reference |-> ExtentAt(Max(S))]
<1>1. /\ Len(taken) \in Nat
      /\ \A j \in 1..Len(taken) : taken'[j] = taken[j] /\ j < n
      /\ taken'[n] = e /\ n \notin 1..Len(taken)
      /\ Of(kind) \in SUBSET (1..Len(taken))
      /\ Of(kind)' = IF e.kind = kind THEN Of(kind) \cup {n} ELSE Of(kind)
  BY HistoryGrows
<1>2. /\ \A b : Entry(kind, i, s, b) = In(At(b))
      /\ \A b : Entry(kind, i, s, b)' =
           IF At(b)' = {} THEN NoValue
           ELSE [points |-> taken'[Max(At(b)')].entries[i],
                 reference |-> ExtentAt(Max(At(b)))']
  BY DEF Entry
<1>3. ASSUME NEW b, At(b)' \in SUBSET (1..Len(taken)), At(b)' # {}
      PROVE  \E m \in 1..Len(taken) :
               /\ m = Max(At(b)') /\ m = Max(At(b))'
               /\ ExtentAt(Max(At(b)))' = ExtentAt(m)
  <2> HIDE DEF At
  <2>1. PICK m \in 1..Len(taken) : m = Max(At(b)')
    BY <1>3 DEF HasLast, Max
  <2>2. m = Max(At(b))'
    BY <2>1 DEF Max
  <2>3. ExtentAt(m)' = ExtentAt(m)
    BY ExtentStays
  <2>4. ExtentAt(Max(At(b)))' = ExtentAt(m)'
    BY <2>2 DEF ExtentAt
  <2> QED
    BY <2>1, <2>2, <2>3, <2>4
<1>4. ASSUME NEW b, At(b)' \in SUBSET (1..Len(taken))
      PROVE  Entry(kind, i, s, b)' = In(At(b)')
  <2>1. CASE At(b)' = {}
    <3> HIDE DEF At
    <3> QED
      BY <1>2, <2>1
  <2>2. CASE At(b)' # {}
    <3>1. PICK m \in 1..Len(taken) : /\ m = Max(At(b)')
                                     /\ ExtentAt(Max(At(b)))' = ExtentAt(m)
      BY <1>3, <1>4, <2>2
    <3> HIDE DEF At
    <3> QED
      BY <1>1, <1>2, <2>2, <3>1
  <2> QED
    BY <2>1, <2>2
<1>5. At(n)' = {j \in Of(kind)' \cap (s..n) : i \in DOMAIN taken'[j].entries}
  OBVIOUS
<1>6. ASSUME NEW b \in 1..Len(taken)
      PROVE  Entry(kind, i, s, b)' = Entry(kind, i, s, b)
  <2>1. \A j \in s..b : j \in 1..Len(taken)
    BY <1>1
  <2>2. At(b)' = {j \in Of(kind)' \cap (s..b) : i \in DOMAIN taken'[j].entries}
    OBVIOUS
  <2>3. \A j \in s..b : j \in Of(kind)' <=> j \in Of(kind)
    BY <1>1, <2>1
  <2>4. At(b)' = At(b) /\ At(b) \in SUBSET (1..Len(taken))
    BY <1>1, <2>1, <2>2, <2>3
  <2> HIDE DEF At, In
  <2> QED
    BY <1>2, <1>4, <2>4
<1>7. \A j \in 1..Len(taken) : j \in s..n <=> j \in s..Len(taken)
  BY <1>1
<1>8. n \in s..n
  BY <1>1
<1>9. CASE e.kind = kind /\ i \in DOMAIN e.entries
  <2>1. At(n)' = At(Len(taken)) \cup {n} /\ n \notin At(Len(taken))
    BY <1>1, <1>5, <1>7, <1>8, <1>9
  <2>2. At(Len(taken)) \in SUBSET (1..Len(taken))
    BY <1>1
  <2>3. Max(At(n)') = n
    <3> HIDE DEF At
    <3>1. At(n)' # {} /\ At(n)' # At(Len(taken))
      BY <2>1
    <3> QED
      BY <2>1, <2>2, <3>1, Recent
  <2>4. ExtentAt(n)' = extent
    BY <1>9, ExtentStays
  <2>5. Max(At(n))' = n
    <3> HIDE DEF At
    <3> QED
      BY <2>3 DEF Max
  <2>6. ExtentAt(Max(At(n)))' = ExtentAt(n)'
    BY <2>5 DEF ExtentAt
  <2> HIDE DEF At
  <2>7. /\ At(n)' # {}
        /\ Entry(kind, i, s, n)' =
             IF At(n)' = {} THEN NoValue
             ELSE [points |-> taken'[Max(At(n)')].entries[i],
                   reference |-> ExtentAt(Max(At(n)))']
    BY <1>2, <2>1
  <2>8. Entry(kind, i, s, n)' = [points |-> taken'[n].entries[i], reference |-> extent]
    BY <2>3, <2>4, <2>6, <2>7
  <2> QED
    BY <1>1, <1>6, <1>9, <2>8
<1>10. CASE ~(e.kind = kind /\ i \in DOMAIN e.entries)
  <2>1. At(n)' = At(Len(taken)) /\ At(Len(taken)) \in SUBSET (1..Len(taken))
    BY <1>1, <1>5, <1>7, <1>10
  <2> HIDE DEF At, In
  <2>2. Entry(kind, i, s, n)' = In(At(n)')
    BY <1>4, <2>1
  <2>3. Entry(kind, i, s, Len(taken)) = In(At(Len(taken)))
    BY <1>2
  <2> QED
    BY <1>6, <1>10, <2>1, <2>2, <2>3
<1> QED
  BY <1>6, <1>9, <1>10

\* The tables of a call in progress are those of its records, every read that
\* has built was begun, and the object records go to has not been built.
TablesRead ==
  call # "none" => \A i \in Index :
    /\ vectorEdges[i] = Entry("edges", i, Max(Of("begin")), Len(taken))
    /\ connectedNodes[i] = Entry("nodes", i, Max(Of("begin")), Len(taken))
Whole ==
  /\ vectorEdges = [i \in Index |-> vectorEdges[i]]
  /\ connectedNodes = [i \in Index |-> connectedNodes[i]]
BuiltBefore ==
  /\ call # "none" => Of("begin") # {}
  /\ \A b \in Of("built") : \E s \in Of("begin") : s < b
  /\ call # "none" /\ current # 0 => \A b \in Of("built") : b < Features[current]
Tabled == TablesRead /\ Whole /\ BuiltBefore

\* The tables of the call keep to what it has read, and lines come after them.
LEMMA TabledStep ==
  ASSUME IInv, TakenNumbered, HasLast, HeaderFromRecords, Held, Tabled,
         NEW e, ObjectsTake(e), TablesTake(e)
  PROVE  Tabled'
<1> PICK n : n = Len(taken) + 1
  OBVIOUS
<1>1. /\ Len(taken) \in Nat /\ Len(taken') = n /\ n \notin 1..Len(taken)
      /\ \A i \in 1..Len(taken) : taken'[i] = taken[i] /\ i < n
      /\ taken'[n] = e
      /\ \A kind : /\ Of(kind) \in SUBSET (1..Len(taken))
                   /\ Of(kind)' = IF e.kind = kind THEN Of(kind) \cup {n} ELSE Of(kind)
  BY HistoryGrows DEF ObjectsTake
<1>2. taken' = Append(taken, e)
  BY DEF ObjectsTake
<1>3. call' # "none" => e.kind = "begin" \/ call # "none"
  BY DEF ObjectsTake
<1>4. Whole'
  <2>1. \A table : Extended(table, e) = [i \in Index |-> Extended(table, e)[i]]
    BY DEF Extended
  <2>2. EmptyTable = [i \in Index |-> EmptyTable[i]]
    BY DEF EmptyTable
  <2> HIDE DEF Extended, EmptyTable
  <2>3. vectorEdges' \in {EmptyTable, Extended(vectorEdges, e), vectorEdges}
    BY DEF TablesTake
  <2>4. connectedNodes' \in {EmptyTable, Extended(connectedNodes, e), connectedNodes}
    BY DEF TablesTake
  <2>5. vectorEdges' = [i \in Index |-> vectorEdges'[i]]
    BY <2>1, <2>2, <2>3 DEF Tabled, Whole
  <2>6. connectedNodes' = [i \in Index |-> connectedNodes'[i]]
    BY <2>1, <2>2, <2>4 DEF Tabled, Whole
  <2> QED
    BY <2>5, <2>6 DEF Whole
<1>5. ASSUME call' # "none"
      PROVE  Of("begin")' # {} /\ TablesRead'
  <2>1. CASE e.kind = "begin"
    <3>1. Of("begin")' = Of("begin") \cup {n} /\ Of("begin")' # Of("begin")
      BY <1>1, <2>1
    <3>2. Max(Of("begin")') = n
      BY <1>1, <1>2, <3>1, Recent
    <3>3. \A kind \in {"edges", "nodes"} : Of(kind)' \cap (n..n) = {}
      BY <1>1, <2>1
    <3>4. \A kind \in {"edges", "nodes"}, i \in Index : Entry(kind, i, n, n)' = NoValue
      BY <3>3 DEF Entry
    <3>5. \A kind \in {"edges", "nodes"}, i \in Index :
            Entry(kind, i, Max(Of("begin")), Len(taken))' = Entry(kind, i, n, n)'
      <4>1. Max(Of("begin"))' = n
        BY <3>2 DEF Max
      <4> QED
        BY <1>1, <4>1 DEF Entry
    <3>6. \A i \in Index : vectorEdges'[i] = NoValue /\ connectedNodes'[i] = NoValue
      BY <2>1 DEF TablesTake, EmptyTable
    <3> QED
      BY <3>1, <3>4, <3>5, <3>6 DEF TablesRead
  <2>2. CASE e.kind # "begin"
    <3>1. call # "none" /\ Of("begin") # {} /\ Of("begin")' = Of("begin")
      BY <1>1, <1>3, <1>5, <2>2 DEF Tabled, BuiltBefore
    <3>2. PICK s \in 1..Len(taken) : s = Max(Of("begin"))
      BY <1>1, <3>1 DEF HasLast, Max
    <3>3. s = Max(Of("begin"))'
      BY <3>1, <3>2 DEF Max
    <3>4. ASSUME NEW kind \in {"edges", "nodes"}, NEW i \in Index
          PROVE  Entry(kind, i, Max(Of("begin")), Len(taken))' =
                   IF e.kind = kind /\ i \in DOMAIN e.entries
                   THEN [points |-> e.entries[i], reference |-> extent]
                   ELSE Entry(kind, i, s, Len(taken))
      <4>1. Entry(kind, i, Max(Of("begin")), Len(taken))' = Entry(kind, i, s, n)'
        BY <1>1, <3>3 DEF Entry
      <4> QED
        BY <1>2, <4>1, EntriesGrow
    <3>5. ASSUME NEW i \in Index
          PROVE  /\ vectorEdges'[i] =
                      IF e.kind = "edges" /\ i \in DOMAIN e.entries
                      THEN [points |-> e.entries[i], reference |-> extent]
                      ELSE vectorEdges[i]
                 /\ connectedNodes'[i] =
                      IF e.kind = "nodes" /\ i \in DOMAIN e.entries
                      THEN [points |-> e.entries[i], reference |-> extent]
                      ELSE connectedNodes[i]
      BY <2>2 DEF TablesTake, Extended
    <3>6. \A i \in Index : /\ vectorEdges[i] = Entry("edges", i, s, Len(taken))
                           /\ connectedNodes[i] = Entry("nodes", i, s, Len(taken))
      BY <3>1, <3>2 DEF Tabled, TablesRead
    <3> QED
      BY <3>1, <3>4, <3>5, <3>6 DEF TablesRead
  <2> QED
    BY <2>1, <2>2
<1>6. \A b \in Of("built")' : \E s \in Of("begin")' : s < b
  <2>1. e.kind = "built" => Of("begin") # {}
    BY DEF ObjectsTake, Tabled, BuiltBefore
  <2>2. Of("begin") \subseteq Of("begin")' /\ \A s \in Of("begin") : s < n
    BY <1>1
  <2>3. Of("built")' = IF e.kind = "built" THEN Of("built") \cup {n} ELSE Of("built")
    BY <1>1
  <2> QED
    BY <2>1, <2>2, <2>3 DEF Tabled, BuiltBefore
<1>7. ASSUME call' # "none", current' # 0
      PROVE  \A b \in Of("built")' : b < Features'[current']
  <2>1. e.kind # "built" /\ Of("built")' = Of("built")
    BY <1>1, <1>7 DEF ObjectsTake
  <2>2. /\ Len(objects) = Len(Features) /\ current \in 0..Len(objects) /\ Len(objects) \in Nat
    BY DEF Held, IInv, ObjectsNumbered, ChartTypeOK
  <2>3. CASE e.kind = "feature"
    <3>1. Features'[current'] = n
      BY <1>2, <2>2, <2>3, FeaturesGrow DEF ObjectsTake
    <3> QED
      BY <1>1, <2>1, <3>1
  <2>4. CASE e.kind # "feature"
    <3>1. current' = current /\ call # "none" /\ current \in 1..Len(objects)
      BY <1>7, <2>1, <2>2, <2>4 DEF ObjectsTake
    <3>2. Features'[current] = Features[current]
      BY <1>2, <2>2, <3>1, FeaturesGrow
    <3> QED
      BY <2>1, <3>1, <3>2 DEF Tabled, BuiltBefore
  <2> QED
    BY <2>3, <2>4
<1> QED
  BY <1>4, <1>5, <1>6, <1>7 DEF Tabled, BuiltBefore, TablesRead

\* What an object is built from when a read that began at s built it at b.
BuiltFrom(k, s, b) ==
  [line |-> objects[k].line, area |-> objects[k].area,
   edges |-> [i \in Index |-> Entry("edges", i, s, b)],
   nodes |-> [i \in Index |-> Entry("nodes", i, s, b)]]

\* Every step leaves the lines of each object as the last read built them.
LEMMA LinesStep ==
  ASSUME IInv, TakenNumbered, HasLast, HeaderFromRecords, Held, Tabled, LinesFromLastRead,
         NEW e, ObjectsTake(e), TablesTake(e)
  PROVE  LinesFromLastRead'
<1> PICK n : n = Len(taken) + 1
  OBVIOUS
<1> PICK N : N = Len(objects)
  OBVIOUS
<1> DEFINE begun(S, b) == {j \in S : j < b}
<1>1. /\ Len(taken) \in Nat /\ Len(taken') = n /\ n \notin 1..Len(taken)
      /\ \A i \in 1..Len(taken) : taken'[i] = taken[i] /\ i < n
      /\ taken'[n] = e
      /\ \A kind : /\ Of(kind) \in SUBSET (1..Len(taken))
                   /\ Of(kind)' = IF e.kind = kind THEN Of(kind) \cup {n} ELSE Of(kind)
  BY HistoryGrows DEF ObjectsTake
<1>2. /\ taken' = Append(taken, e) /\ N \in Nat /\ N = Len(Features)
      /\ \A k \in 1..N : SetBy(e, k, objects[k], objects'[k])
      /\ \A k \in 1..N : Features[k] \in 1..Len(taken)
  BY DEF ObjectsTake, Held, IInv, ObjectsNumbered
<1>3. /\ \A k \in 1..N : Features'[k] = Features[k]
      /\ e.kind = "feature" => Features'[N + 1] = n
  BY <1>2, FeaturesGrow
<1>4. \A S \in SUBSET (1..Len(taken)) : S # {} => Max(S) \in S
  BY DEF HasLast, Max
<1>5. LinesFromLastRead <=>
        \A k \in 1..N :
          IF \A b \in Of("built") : b < Features[k] THEN objects[k].built = NoValue
          ELSE objects[k].built =
                 BuiltFrom(k, Max(begun(Of("begin"), Max(Of("built")))), Max(Of("built")))
  BY DEF LinesFromLastRead, BuiltFrom
<1>6. \A k \in 1..N : \A s, b \in 1..Len(taken) :
        BuiltFrom(k, s, b)' = [line |-> objects'[k].line, area |-> objects'[k].area,
                               edges |-> BuiltFrom(k, s, b).edges,
                               nodes |-> BuiltFrom(k, s, b).nodes]
  <2>1. \A s, b \in 1..Len(taken), i \in Index :
          /\ Entry("edges", i, s, b)' = Entry("edges", i, s, b)
          /\ Entry("nodes", i, s, b)' = Entry("nodes", i, s, b)
    BY <1>2, EntriesGrow
  <2> QED
    BY <2>1 DEF BuiltFrom
<1>7. CASE e.kind # "built"
  <2>1. Of("built")' = Of("built")
    BY <1>1, <1>7
  <2>2. ASSUME NEW k \in 1..N, \A b \in Of("built") : b < Features[k]
        PROVE  objects'[k].built = NoValue
    BY <1>2, <1>5, <1>7, <2>2 DEF SetBy
  <2>3. ASSUME NEW k \in 1..N, ~\A b \in Of("built") : b < Features[k]
        PROVE  \E s, b \in 1..Len(taken) :
                 /\ b = Max(Of("built"))' /\ s = Max({j \in Of("begin") : j < Max(Of("built"))})'
                 /\ objects'[k].built = BuiltFrom(k, s, b)'
    <3>1. PICK b \in Of("built") : b = Max(Of("built"))
      BY <1>1, <1>4, <2>3
    <3>2. begun(Of("begin"), b) # {} /\ begun(Of("begin"), b) \in SUBSET (1..Len(taken))
      BY <1>1, <3>1 DEF Tabled, BuiltBefore
    <3>3. PICK s \in 1..Len(taken) : s = Max(begun(Of("begin"), b))
      BY <1>4, <3>2
    <3>4. b \in 1..Len(taken)
      BY <1>1, <3>1
    <3>5. begun(Of("begin")', b) = begun(Of("begin"), b)
      BY <1>1, <3>4
    <3>6. b = Max(Of("built"))' /\ s = Max(begun(Of("begin"), b))'
      BY <2>1, <3>1, <3>3, <3>5 DEF Max
    <3>7. s = Max({j \in Of("begin") : j < Max(Of("built"))})'
      BY <3>6 DEF Max
    <3>8. ~(call # "none" /\ k = current)
      <4>1. k # 0
        BY <1>2
      <4> QED
        BY <2>3, <4>1 DEF Tabled, BuiltBefore
    <3>9. /\ objects'[k].line = objects[k].line /\ objects'[k].area = objects[k].area
          /\ objects'[k].built = objects[k].built
      BY <1>2, <1>7, <3>8 DEF SetBy, GeometryKinds
    <3>10. objects[k].built = BuiltFrom(k, s, b)
      BY <1>5, <2>3, <3>1, <3>3
    <3>11. BuiltFrom(k, s, b)' = BuiltFrom(k, s, b)
      BY <1>6, <3>4, <3>9 DEF BuiltFrom
    <3> QED
      BY <3>4, <3>6, <3>7, <3>9, <3>10, <3>11
  <2>4. ASSUME NEW k \in 1..N
        PROVE  IF \A b \in Of("built")' : b < Features'[k] THEN objects'[k].built = NoValue
               ELSE \E s, b \in 1..Len(taken) :
                      /\ b = Max(Of("built"))'
                      /\ s = Max({j \in Of("begin") : j < Max(Of("built"))})'
                      /\ objects'[k].built = BuiltFrom(k, s, b)'
    BY <1>3, <2>1, <2>2, <2>3
  <2>5. ASSUME e.kind = "feature"
        PROVE  /\ \A b \in Of("built")' : b < Features'[N + 1]
               /\ objects'[N + 1].built = NoValue
    BY <1>1, <1>3, <2>1, <2>5 DEF ObjectsTake, EmptyObject
  <2>6. \A k \in 1..Len(objects') : k \in 1..N \/ (e.kind = "feature" /\ k = N + 1)
    BY <1>2 DEF ObjectsTake
  <2> SUFFICES ASSUME NEW k \in 1..Len(objects')
               PROVE  IF \A b \in Of("built")' : b < Features'[k]
                      THEN objects'[k].built = NoValue
                      ELSE objects'[k].built =
                             BuiltFrom(k, Max({j \in Of("begin") : j < Max(Of("built"))}),
                                       Max(Of("built")))'
    BY DEF LinesFromLastRead, BuiltFrom
  <2>7. CASE \A b \in Of("built")' : b < Features'[k]
    BY <2>4, <2>5, <2>6, <2>7
  <2>8. CASE ~\A b \in Of("built")' : b < Features'[k]
    <3>1. PICK s, b \in 1..Len(taken) :
            /\ b = Max(Of("built"))' /\ s = Max({j \in Of("begin") : j < Max(Of("built"))})'
            /\ objects'[k].built = BuiltFrom(k, s, b)'
      BY <2>4, <2>5, <2>6, <2>8
    <3>2. BuiltFrom(k, Max({j \in Of("begin") : j < Max(Of("built"))}), Max(Of("built")))'
            = BuiltFrom(k, s, b)'
      BY <3>1 DEF BuiltFrom
    <3> QED
      BY <2>8, <3>1, <3>2
  <2> QED
    BY <2>7, <2>8
<1>8. CASE e.kind = "built"
  <2>1. /\ Of("built")' = Of("built") \cup {n} /\ Of("built")' # Of("built")
        /\ Of("begin")' = Of("begin") /\ Of("begin") # {} /\ call # "none"
        /\ Len(objects') = N
    BY <1>1, <1>8 DEF ObjectsTake, Tabled, BuiltBefore
  <2>2. n = Max(Of("built")')
    BY <1>1, <1>2, <2>1, Recent
  <2>3. PICK s \in 1..Len(taken) : s = Max(Of("begin"))
    BY <1>1, <1>4, <2>1
  <2>4. n = Max(Of("built"))' /\ s = Max({j \in Of("begin") : j < Max(Of("built"))})'
    <3>1. {j \in Of("begin")' : j < n} = Of("begin")
      BY <1>1, <2>1
    <3>2. n = Max(Of("built"))'
      BY <2>2 DEF Max
    <3> QED
      BY <2>3, <3>1, <3>2 DEF Max
  <2>5. \A k \in 1..N : n \in Of("built")' /\ ~(n < Features'[k])
    BY <1>1, <1>2, <1>3, <2>1
  <2>6. ASSUME NEW k \in 1..N
        PROVE  objects'[k].built = BuiltFrom(k, s, n)'
    <3>1. objects'[k].built = [line |-> objects'[k].line, area |-> objects'[k].area,
                               edges |-> vectorEdges, nodes |-> connectedNodes]
      BY <1>2, <1>8 DEF SetBy, GeometryKinds
    <3>2. \A kind \in {"edges", "nodes"}, i \in Index :
            Entry(kind, i, s, n)' = Entry(kind, i, s, Len(taken))
      BY <1>2, <1>8, EntriesGrow
    <3>3. \A i \in Index : /\ vectorEdges[i] = Entry("edges", i, s, n)'
                           /\ connectedNodes[i] = Entry("nodes", i, s, n)'
      BY <2>1, <2>3, <3>2 DEF Tabled, TablesRead
    <3>4. /\ vectorEdges = [i \in Index |-> Entry("edges", i, s, n)']
          /\ connectedNodes = [i \in Index |-> Entry("nodes", i, s, n)']
      BY <3>3 DEF Tabled, Whole
    <3> QED
      BY <3>1, <3>4 DEF BuiltFrom
  <2>7. \A k \in 1..N :
          BuiltFrom(k, Max({j \in Of("begin") : j < Max(Of("built"))}), Max(Of("built")))'
            = BuiltFrom(k, s, n)'
    BY <2>4 DEF BuiltFrom
  <2>8. ASSUME NEW k \in 1..Len(objects')
        PROVE  IF \A b \in Of("built")' : b < Features'[k]
               THEN objects'[k].built = NoValue
               ELSE objects'[k].built =
                      BuiltFrom(k, Max({j \in Of("begin") : j < Max(Of("built"))}),
                                Max(Of("built")))'
    BY <2>1, <2>5, <2>6, <2>7
  <2> QED
    BY <2>8 DEF LinesFromLastRead, BuiltFrom
<1> QED
  BY <1>7, <1>8

\* Understood with what each object and each table holds.
Recorded == IInv /\ Understood /\ Held /\ ObjectsFromRecords /\ Tabled /\ LinesFromLastRead

\* What is read in the history stays while the history does.
LEMMA HistoryStays ==
  ASSUME UNCHANGED taken
  PROVE  /\ Features' = Features
         /\ \A kind : Of(kind)' = Of(kind)
         /\ \A k : /\ Closed(Features[k])' <=> Closed(Features[k])
                   /\ Own("multipoint", k)' = Own("multipoint", k)
                   /\ ExtentAt(Max(Own("multipoint", k)))' = ExtentAt(Max(Own("multipoint", k)))
                   /\ \A kind : LastValue(Own(kind, k))' = LastValue(Own(kind, k))
                   /\ \A a : LastValue(AttributesOf(k, a))' = LastValue(AttributesOf(k, a))
         /\ \A kind : Max(Of(kind))' = Max(Of(kind))
         /\ LET s == Max({j \in Of("begin") : j < Max(Of("built"))}) IN s' = s
         /\ \A kind, i, s, b : Entry(kind, i, s, b)' = Entry(kind, i, s, b)
<1> PICK t : t = taken
  OBVIOUS
<1>1. taken' = t
  OBVIOUS
<1>2. Features' = Features /\ \A kind : Of(kind)' = Of(kind)
  BY <1>1 DEF Features, Of
<1>3. ASSUME NEW k
      PROVE  Closed(Features[k])' <=> Closed(Features[k])
  BY <1>1, <1>2 DEF Closed
<1>4. ASSUME NEW k, NEW kind
      PROVE  /\ Own(kind, k)' = Own(kind, k)
             /\ LastValue(Own(kind, k))' = LastValue(Own(kind, k))
  <2>1. Own(kind, k)' = Own(kind, k)
    BY <1>1, <1>2 DEF Own, OwnedBy
  <2> QED
    BY <2>1 DEF LastValue
<1>5. \A i : ExtentAt(i)' = ExtentAt(i)
  BY <1>1 DEF ExtentAt, LastValue, Max, Of
<1>6. ASSUME NEW k
      PROVE  ExtentAt(Max(Own("multipoint", k)))' = ExtentAt(Max(Own("multipoint", k)))
  <2>1. PICK m : m = Max(Own("multipoint", k))
    OBVIOUS
  <2>2. Max(Own("multipoint", k))' = m
    BY <1>4, <2>1 DEF Max
  <2>3. ExtentAt(Max(Own("multipoint", k)))' = ExtentAt(m)'
    BY <2>2 DEF ExtentAt
  <2> QED
    BY <1>5, <2>1, <2>3
<1>7. ASSUME NEW k, NEW a
      PROVE  LastValue(AttributesOf(k, a))' = LastValue(AttributesOf(k, a))
  <2>1. AttributesOf(k, a)' = AttributesOf(k, a)
    BY <1>1, <1>4 DEF AttributesOf
  <2> QED
    BY <2>1 DEF LastValue
<1>8. \A kind : Max(Of(kind))' = Max(Of(kind))
  BY <1>2 DEF Max
<1>9. Max({j \in Of("begin") : j < Max(Of("built"))})'
         = Max({j \in Of("begin") : j < Max(Of("built"))})
  BY <1>1 DEF Max, Of
<1>10. ASSUME NEW kind, NEW i, NEW s, NEW b
       PROVE  Entry(kind, i, s, b)' = Entry(kind, i, s, b)
  BY <1>1 DEF ExtentAt, LastValue, Max, Of, Entry
<1> QED
  BY <1>2, <1>3, <1>4, <1>6, <1>7, <1>8, <1>9, <1>10

\* Every step of the call keeps objects, tables and lines as recorded.
LEMMA RecordedStep ==
  ASSUME Recorded, IInv', Understood', [Next]_vars
  PROVE  Recorded'
<1>1. CASE UNCHANGED <<taken, objects, current, call, vectorEdges, connectedNodes, extent>>
  <2>1. Held'
    BY <1>1, HistoryStays DEF Recorded, Held, Shapely
  <2>2. ObjectsFromRecords'
    <3>1. \A k : AsRead(k)' <=> AsRead(k)
      BY <1>1, HistoryStays DEF AsRead
    <3>2. ObjectsFromRecords <=>
            Len(objects) = Len(Features) /\ \A k \in 1..Len(objects) : AsRead(k)
      BY DEF ObjectsFromRecords, AsRead, AttributesOf, Own
    <3>3. ObjectsFromRecords' <=>
            Len(objects') = Len(Features') /\ \A k \in 1..Len(objects') : AsRead(k)'
      BY DEF ObjectsFromRecords, AsRead, AttributesOf, Own
    <3> QED
      BY <1>1, <3>1, <3>2, <3>3, HistoryStays DEF Recorded
  <2>3. Tabled'
    <3>1. \A kind, i : Entry(kind, i, Max(Of("begin")), Len(taken))'
                         = Entry(kind, i, Max(Of("begin")), Len(taken))
      <4> PICK s, b : s = Max(Of("begin")) /\ b = Len(taken)
        OBVIOUS
      <4>1. Max(Of("begin"))' = s /\ Len(taken') = b
        BY <1>1, HistoryStays
      <4>2. \A kind, i : Entry(kind, i, Max(Of("begin")), Len(taken))' = Entry(kind, i, s, b)'
        BY <4>1 DEF Entry
      <4> QED
        BY <1>1, <4>2, HistoryStays
    <3>2. TablesRead'
      BY <1>1, <3>1 DEF Recorded, Tabled, TablesRead
    <3> QED
      BY <1>1, <3>2, HistoryStays DEF Recorded, Tabled, Whole, BuiltBefore
  <2>4. LinesFromLastRead'
    <3> PICK s, b : b = Max(Of("built")) /\ s = Max({j \in Of("begin") : j < Max(Of("built"))})
      OBVIOUS
    <3>1. b = Max(Of("built"))' /\ s = Max({j \in Of("begin") : j < Max(Of("built"))})'
      BY <1>1, HistoryStays
    <3>2. \A k : BuiltFrom(k, s, b)' = BuiltFrom(k, s, b)
      BY <1>1, HistoryStays DEF BuiltFrom
    <3>3. LinesFromLastRead <=>
            \A k \in 1..Len(objects) :
              IF \A c \in Of("built") : c < Features[k] THEN objects[k].built = NoValue
              ELSE objects[k].built = BuiltFrom(k, s, b)
      BY DEF LinesFromLastRead, BuiltFrom
    <3>4. LinesFromLastRead' <=>
            \A k \in 1..Len(objects') :
              IF \A c \in Of("built")' : c < Features'[k] THEN objects'[k].built = NoValue
              ELSE objects'[k].built = BuiltFrom(k, s, b)'
      BY <3>1 DEF LinesFromLastRead, BuiltFrom
    <3> QED
      BY <1>1, <3>2, <3>3, <3>4, HistoryStays DEF Recorded
  <2> QED
    BY <1>1, <2>1, <2>2, <2>3, <2>4 DEF Recorded
<1>2. ASSUME NEW e, ObjectsTake(e), TablesTake(e)
      PROVE  Recorded'
  BY <1>2, HeldStep, ObjectsStep, TabledStep, LinesStep DEF Recorded, Understood
<1> QED
  BY <1>1, <1>2, ObjectsAction DEF Recorded, Held

\* In every reachable state objects, tables and lines are as recorded.
THEOREM Recording == Spec => []Recorded
<1>1. Init => Held /\ ObjectsFromRecords /\ Tabled /\ LinesFromLastRead
  <2> SUFFICES ASSUME Init
               PROVE  Held /\ ObjectsFromRecords /\ Tabled /\ LinesFromLastRead
    OBVIOUS
  <2>1. /\ Len(taken) = 0 /\ 1..Len(taken) = {} /\ Len(objects) = 0 /\ 1..Len(objects) = {}
        /\ call = "none"
    BY DEF Init
  <2>2. \A kind : Of(kind) = {}
    BY <2>1 DEF Of
  <2>3. Len(Features) = 0
    <3>1. Cardinality(Of("feature")) = 0
      BY <2>2, FS_EmptySet
    <3> DEFINE place(k) == CHOOSE i \in Of("feature") : Cardinality({j \in Of("feature") : j <= i}) = k
    <3>2. Features = [k \in 1..0 |-> place(k)]
      BY <3>1 DEF Features
    <3> HIDE DEF place
    <3> QED
      BY <3>2
  <2>4. Held /\ ObjectsFromRecords /\ LinesFromLastRead
    BY <2>1, <2>3 DEF Held, ObjectsFromRecords, LinesFromLastRead, Shapely
  <2>5. Whole
    BY DEF Init, EmptyTable, Whole
  <2>6. Tabled
    BY <2>1, <2>2, <2>5 DEF Tabled, TablesRead, BuiltBefore
  <2> QED
    BY <2>4, <2>6
<1>2. Recorded /\ IInv' /\ Understood' /\ [Next]_vars => Recorded'
  BY RecordedStep
<1> QED
  BY <1>1, <1>2, Invariance, Understanding, PTL DEF Spec, Recorded

\* Each feature record makes an object, and it holds what the records up to
\* the next feature say, whatever the stream holds and wherever it breaks off.
THEOREM ObjectsHoldRecords == Spec => []ObjectsFromRecords
BY Recording, PTL DEF Recorded

\* The lines of an object are built from the tables of the last read that
\* succeeded, for any number of reads of any streams.
THEOREM LinesHoldRecords == Spec => []LinesFromLastRead
BY Recording, PTL DEF Recorded
=============================================================================
