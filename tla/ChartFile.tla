-------------------------------- MODULE ChartFile --------------------------------
(***************************************************************************)
(* ChartFile::readHeaders and ChartFile::read: a chart is a stream of      *)
(* records, and what a record means depends on those before it.  The       *)
(* stream is a file or a pipe oexserverd writes; it can hold anything and  *)
(* end anywhere.                                                           *)
(*                                                                         *)
(* A record is abstracted to its kind and the values in it.  A position    *)
(* that is stored relative to the centre of the chart's extent is kept     *)
(* together with the extent it was decoded with.                           *)
(***************************************************************************)
EXTENDS Naturals, Sequences, SequencesExt

CONSTANTS
  Record,      \* the records the stream may hold
  Field,       \* the fields of the chart's header: name, scale, dates, ...
  Attribute,   \* the attributes the library knows
  Index,       \* indices of vector edges and connected nodes
  NoValue,     \* what has not been set
  MaxTaken,    \* bound: records read, and calls begun and done
  MaxCalls     \* bound: calls of readHeaders and read

GeometryKinds == {"point", "line", "area", "multipoint"}
PayloadKinds == {"status", "version", "header", "extent", "skipped", "feature",
                 "attribute", "edges", "nodes"} \cup GeometryKinds

ASSUME ChartConstants ==
  /\ \A r \in Record : r.kind \in PayloadKinds \cup {"end", "unknown"}
  /\ MaxTaken \in Nat /\ MaxCalls \in Nat

VARIABLES
  call,            \* the call in progress: "none", "readHeaders" or "read"
  result,          \* what the last call returned: "none", "true" or "false"
  ended,           \* the stream has failed; it fails for ever
  current,         \* s57: the object records go to, 0 for nullptr
  objects,         \* m_s57
  header,          \* the fields of the header
  extent,          \* m_extent
  vectorEdges,     \* the tables of the call
  connectedNodes,
  taken,           \* history: the records read, with marks for calls
  calls            \* calls begun

tables == <<vectorEdges, connectedNodes>>
chart == <<objects, header, extent>>
vars == <<call, result, ended, current, chart, tables, taken, calls>>

EmptyTable == [i \in Index |-> NoValue]

Init ==
  /\ call = "none" /\ result = "none" /\ ended = FALSE
  /\ current = 0 /\ objects = << >>
  /\ header = [f \in Field |-> NoValue] /\ extent = NoValue
  /\ vectorEdges = EmptyTable /\ connectedNodes = EmptyTable
  /\ taken = << >> /\ calls = 0

-----------------------------------------------------------------------------
Mark(kind) == [kind |-> kind]

\* Mutants: the object records go to is kept from the call before; the chart's
\* extent is not.
BeginAnyhow(which) ==
  /\ call = "none" /\ calls < MaxCalls
  /\ call' = which /\ calls' = calls + 1
  /\ taken' = Append(taken, Mark("begin"))
  /\ vectorEdges' = EmptyTable /\ connectedNodes' = EmptyTable
  /\ UNCHANGED <<result, ended, current, chart>>
BeginBare(which) ==
  /\ call = "none" /\ calls < MaxCalls
  /\ call' = which /\ calls' = calls + 1
  /\ taken' = Append(taken, Mark("begin"))
  /\ current' = 0 /\ extent' = NoValue
  /\ vectorEdges' = EmptyTable /\ connectedNodes' = EmptyTable
  /\ UNCHANGED <<result, ended, objects, header>>

Begin(which) ==
  /\ call = "none" /\ calls < MaxCalls
  /\ call' = which /\ calls' = calls + 1
  /\ taken' = Append(taken, Mark("begin"))
  /\ current' = 0
  /\ vectorEdges' = EmptyTable /\ connectedNodes' = EmptyTable
  /\ UNCHANGED <<result, ended, chart>>

\* S57::buildGeometry for every object there is, older ones included.
Built == [k \in 1..Len(objects) |->
           [objects[k] EXCEPT !.built =
              [line |-> objects[k].line, area |-> objects[k].area,
               edges |-> vectorEdges, nodes |-> connectedNodes]]]

ReturnBuilt(ok) ==   \* mutant: geometries are built also on failure
  /\ call' = "none"
  /\ result' = IF ok THEN "true" ELSE "false"
  /\ objects' = IF call = "read" THEN Built ELSE objects
  /\ UNCHANGED <<current, header, extent, tables, calls>>

Return(ok) ==
  /\ call' = "none"
  /\ result' = IF ok THEN "true" ELSE "false"
  /\ objects' = IF ok /\ call = "read" THEN Built ELSE objects
  /\ UNCHANGED <<current, header, extent, tables, calls>>

\* The mark a call leaves that returns true.
Finished == Mark(IF call = "read" THEN "built" ELSE "stopped")

\* No further record header can be read.
EndOfStream ==
  /\ call # "none"
  /\ ended' = TRUE
  /\ taken' = Append(taken, Finished)
  /\ Return(TRUE)

\* A record header can be read; a record is read with its payload.
AtRecord == call # "none" /\ ~ended /\ Len(taken) < MaxTaken
Reads(r) == AtRecord /\ taken' = Append(taken, r) /\ UNCHANGED ended

GoesOn == UNCHANGED <<call, result, calls>>

\* Whether the record is refused by its header alone.
Refused(r) ==
  \/ r.kind = "unknown"
  \/ r.kind = "status" /\ r.oversized
  \/ r.kind = "version" /\ ~r.fits

Refuse(r) == Refused(r) /\ Reads(r) /\ Return(FALSE)

\* Record type 0 ends the chart, and readHeaders stops at the first feature;
\* the payload of either is left in the stream.
Stop(r) ==
  /\ r.kind = "end" \/ (r.kind = "feature" /\ call = "readHeaders")
  /\ AtRecord /\ UNCHANGED ended
  /\ taken' = Append(taken, Finished)
  /\ Return(TRUE)

\* The stream ends within the payload.
CutShort(r) ==
  /\ r.kind \in PayloadKinds /\ ~Refused(r)
  /\ ~(r.kind = "feature" /\ call = "readHeaders")
  /\ AtRecord /\ ended' = TRUE
  /\ taken' = Append(taken, Mark("cut"))
  /\ Return(FALSE)

ExpiredPasses(r) ==   \* mutant: "and" for "or"
  /\ r.kind = "status" /\ ~Refused(r)
  /\ Reads(r)
  /\ \/ /\ ~r.expireStatus /\ ~r.decryptStatus
        /\ Return(FALSE)
     \/ /\ r.expireStatus \/ r.decryptStatus
        /\ GoesOn /\ UNCHANGED <<current, chart, tables>>

CheckStatus(r) ==
  /\ r.kind = "status" /\ ~Refused(r)
  /\ Reads(r)
  /\ \/ /\ ~r.expireStatus \/ ~r.decryptStatus
        /\ Return(FALSE)
     \/ /\ r.expireStatus /\ r.decryptStatus
        /\ GoesOn /\ UNCHANGED <<current, chart, tables>>

\* A version the library was not written for is reported on cerr only.
SetHeader(r) ==
  /\ r.kind \in {"version", "header"} /\ ~Refused(r)
  /\ Reads(r) /\ GoesOn
  /\ header' = [header EXCEPT ![r.field] = r.value]
  /\ UNCHANGED <<current, objects, extent, tables>>

FirstExtent(r) ==   \* mutant: a later extent is not taken
  /\ r.kind = "extent"
  /\ Reads(r) /\ GoesOn
  /\ extent' = IF extent = NoValue THEN r.value ELSE extent
  /\ UNCHANGED <<current, objects, header, tables>>

SetExtent(r) ==
  /\ r.kind = "extent"
  /\ Reads(r) /\ GoesOn
  /\ extent' = r.value
  /\ UNCHANGED <<current, objects, header, tables>>

Skip(r) ==
  /\ r.kind = "skipped"
  /\ Reads(r) /\ GoesOn
  /\ UNCHANGED <<current, chart, tables>>

EmptyObject(type) ==
  [type |-> type, attributes |-> [a \in Attribute |-> NoValue],
   point |-> NoValue, line |-> NoValue, area |-> NoValue,
   multipoint |-> NoValue, built |-> NoValue]

\* Mutants: the pointer is taken before the new object is there; it is taken
\* for the first object only.
FeatureLate(r) ==
  /\ r.kind = "feature" /\ call = "read"
  /\ Reads(r) /\ GoesOn
  /\ objects' = Append(objects, EmptyObject(r.value))
  /\ current' = Len(objects)
  /\ UNCHANGED <<header, extent, tables>>
FeatureStale(r) ==
  /\ r.kind = "feature" /\ call = "read"
  /\ Reads(r) /\ GoesOn
  /\ objects' = Append(objects, EmptyObject(r.value))
  /\ current' = IF current = 0 THEN Len(objects') ELSE current
  /\ UNCHANGED <<header, extent, tables>>

NewFeature(r) ==
  /\ r.kind = "feature" /\ call = "read"
  /\ Reads(r) /\ GoesOn
  /\ objects' = Append(objects, EmptyObject(r.value))
  /\ current' = Len(objects')
  /\ UNCHANGED <<header, extent, tables>>

\* The attributes of unknown type and the lists are passed over.
SetAttribute(r) ==
  /\ r.kind = "attribute"
  /\ Reads(r) /\ GoesOn
  /\ objects' = IF current # 0 /\ r.attribute \in Attribute /\ r.scalar
                THEN [objects EXCEPT ![current].attributes[r.attribute] = r.value]
                ELSE objects
  /\ UNCHANGED <<current, header, extent, tables>>

\* Multipoint positions are relative to the extent, the others are not.
Decoded(r) ==
  IF r.kind = "multipoint" THEN [points |-> r.value, reference |-> extent]
                           ELSE r.value

SetGeometry(r) ==
  /\ r.kind \in GeometryKinds
  /\ Reads(r) /\ GoesOn
  /\ objects' = IF current = 0 THEN objects
                ELSE [objects EXCEPT ![current][r.kind] = Decoded(r)]
  /\ UNCHANGED <<current, header, extent, tables>>

\* Each entry of the record is decoded with the extent of the moment.
Extended(table, r) ==
  [i \in Index |-> IF i \in DOMAIN r.entries
                   THEN [points |-> r.entries[i], reference |-> extent]
                   ELSE table[i]]

ReadEdges(r) ==
  /\ r.kind = "edges"
  /\ Reads(r) /\ GoesOn
  /\ vectorEdges' = Extended(vectorEdges, r)
  /\ UNCHANGED <<current, chart, connectedNodes>>

ReadNodes(r) ==
  /\ r.kind = "nodes"
  /\ Reads(r) /\ GoesOn
  /\ connectedNodes' = Extended(connectedNodes, r)
  /\ UNCHANGED <<current, chart, vectorEdges>>

-----------------------------------------------------------------------------
TakeRecord(r) ==
  \/ Refuse(r) \/ Stop(r) \/ CutShort(r) \/ CheckStatus(r) \/ SetHeader(r)
  \/ SetExtent(r) \/ Skip(r) \/ NewFeature(r) \/ SetAttribute(r)
  \/ SetGeometry(r) \/ ReadEdges(r) \/ ReadNodes(r)

Next ==
  \/ Begin("readHeaders") \/ Begin("read") \/ EndOfStream
  \/ \E r \in Record : TakeRecord(r)

Spec == Init /\ [][Next]_vars

-----------------------------------------------------------------------------
\* Every variable has its type; the object records go to is the last one.
ChartTypeOK ==
  /\ call \in {"none", "readHeaders", "read"}
  /\ result \in {"none", "true", "false"}
  /\ ended \in BOOLEAN
  /\ current \in {0, Len(objects)}
  /\ calls \in 0..MaxCalls
  /\ DOMAIN header = Field
  /\ DOMAIN vectorEdges = Index /\ DOMAIN connectedNodes = Index

\* The history, read as it should be: where records of a kind stand, the
\* value of the last of some of them, and what follows a feature record up
\* to the next one or to the end of the call.
Of(kind) == {i \in 1..Len(taken) : taken[i].kind = kind}
LastValue(S) == IF S = {} THEN NoValue ELSE taken[Max(S)].value
ExtentAt(i) == LastValue({j \in Of("extent") : j < i})
Features ==
  LET F == Of("feature")
  IN [k \in 1..Cardinality(F) |->
        CHOOSE i \in F : Cardinality({j \in F : j <= i}) = k]
OwnedBy(p) == {i \in p + 1..Len(taken) :
                 \A j \in p + 1..i : taken[j].kind \notin {"feature", "begin"}}

\* Each feature record makes an object, and the object holds what the records
\* between it and the next feature say, the last one of a kind counting:
\* nothing is attributed to the feature before or after.
ObjectsFromRecords ==
  /\ Len(objects) = Len(Features)
  /\ \A k \in 1..Len(objects) :
       LET object == objects[k]
           own(kind) == OwnedBy(Features[k]) \cap Of(kind)
       IN /\ object.type = taken[Features[k]].value
          /\ \A a \in Attribute :
               object.attributes[a] =
                 LastValue({i \in own("attribute") :
                              taken[i].attribute = a /\ taken[i].scalar})
          /\ \A g \in GeometryKinds \ {"multipoint"} :
               object[g] = LastValue(own(g))
          /\ object.multipoint =
               IF own("multipoint") = {} THEN NoValue
               ELSE [points |-> LastValue(own("multipoint")),
                     reference |-> ExtentAt(Max(own("multipoint")))]

\* The lines of an object are built from the tables of the last read that
\* succeeded, whose later entries replace earlier ones; an object of a read
\* that failed has none, also when that read got far.
Entry(kind, i, from, to) ==
  LET S == {j \in Of(kind) \cap (from..to) : i \in DOMAIN taken[j].entries}
  IN IF S = {} THEN NoValue
     ELSE [points |-> taken[Max(S)].entries[i], reference |-> ExtentAt(Max(S))]
LinesFromLastRead ==
  \A k \in 1..Len(objects) :
    IF \A b \in Of("built") : b < Features[k]
    THEN objects[k].built = NoValue
    ELSE LET b == Max(Of("built"))
             s == Max({j \in Of("begin") : j < b})
         IN objects[k].built =
              [line |-> objects[k].line, area |-> objects[k].area,
               edges |-> [i \in Index |-> Entry("edges", i, s, b)],
               nodes |-> [i \in Index |-> Entry("nodes", i, s, b)]]

\* When the chart's extent comes before every position that is relative to
\* it, all positions are relative to the extent the user is told.
OneProjection ==
  (\A i \in Of("extent"), j \in Of("edges") \cup Of("nodes") \cup Of("multipoint") :
     i < j) =>
    /\ \A k \in 1..Len(objects) : objects[k].multipoint # NoValue =>
         objects[k].multipoint.reference = extent
    /\ \A table \in {vectorEdges, connectedNodes} : \A i \in Index :
         table[i] # NoValue => table[i].reference = extent

\* A call returns true exactly when it met no record it refuses, no chart that
\* is expired or not decrypted, and no record that is cut short.
Accepted(r) ==
  /\ ~Refused(r) /\ r.kind # "cut"
  /\ r.kind = "status" => r.expireStatus /\ r.decryptStatus
ResultTells ==
  call = "none" /\ calls > 0 =>
    (result = "true" <=> \A i \in Max(Of("begin"))..Len(taken) : Accepted(taken[i]))

\* readHeaders leaves the objects of an earlier read as they are, whatever
\* records stand before the first feature it meets.
HeadersLeaveObjects == [][call = "readHeaders" => objects' = objects]_vars

\* The header and the extent are those of the last records read, by whichever
\* of the two calls.
HeaderFromRecords ==
  /\ extent = LastValue(Of("extent"))
  /\ \A f \in Field :
       header[f] = LastValue({i \in Of("header") \cup Of("version") :
                                taken[i].field = f /\ ~Refused(taken[i])})
=============================================================================
