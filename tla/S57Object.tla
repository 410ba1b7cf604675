-------------------------------- MODULE S57Object --------------------------------
(***************************************************************************)
(* The types and attributes of S57 objects: the codes of the records, the  *)
(* enumerations they are translated to, and the three kinds of value under *)
(* which an attribute is kept and asked for.                               *)
(***************************************************************************)
EXTENDS Naturals, Sequences, FiniteSets

CONSTANTS
  Record,     \* feature records [code], attribute records [code, valueType, value]
  Narrow,     \* static_cast<float>, as [double -> float]
  MaxRecords  \* bound: records of a chart

FeatureRecord == {r \in Record : r.kind = "FEATURE_ID_RECORD"}
AttributeRecord == {r \in Record : r.kind = "FEATURE_ATTRIBUTE_RECORD"}

ASSUME ObjectConstants ==
  /\ Record = FeatureRecord \cup AttributeRecord /\ MaxRecords \in Nat
  /\ \A r \in AttributeRecord : r.valueType = 2 => r.value \in DOMAIN Narrow

VARIABLES
  records,  \* the records read so far
  objects   \* s57Vector; the records of attributes go to the last of it

objectVars == <<records, objects>>

\* The cases of the two switches.  Attribute::ColourPattern has none.
TypeCodes == {
  <<1, "AdministrationArea">>, <<4, "AnchorageArea">>, <<6, "BeaconIsolatedDanger">>,
  <<9, "Beacon">>, <<7, "BeaconLateral">>, <<11, "Bridge">>, <<13, "BuiltUpArea">>,
  <<17, "BuoyLateral">>, <<21, "CableOverhead">>, <<22, "Canal">>, <<27, "CautionArea">>,
  <<30, "CoastLine">>, <<33, "ControlPoint">>, <<42, "DepthArea">>, <<43, "DepthContour">>,
  <<50, "CartographicLine">>, <<69, "Lake">>, <<71, "LandArea">>, <<73, "LandRegion">>,
  <<74, "Landmark">>, <<75, "Light">>, <<85, "NavigationLine">>, <<86, "Obstruction">>,
  <<90, "Pile">>, <<91, "PilotBoardingPlace">>, <<94, "Pipeline">>, <<95, "Pontoon">>,
  <<106, "Railway">>, <<109, "RecommendedTrack">>, <<112, "RestrictedArea">>,
  <<114, "River">>, <<116, "Road">>, <<119, "SeaArea">>, <<121, "SeabedArea">>,
  <<122, "ShorelineConstruction">>, <<129, "Sounding">>,
  <<132, "StraightLineTerritorialSeaBaseline">>, <<135, "TerritorialSeaArea">>,
  <<153, "UnderwaterRock">>, <<154, "UnsurveyedArea">>, <<159, "Wreck">>,
  <<302, "Coverage">>, <<306, "NavigationalSystemOfMarks">>, <<308, "QualityOfData">>}
AttributeCodes == {
  <<2, "BeaconShape">>, <<4, "BuoyShape">>, <<18, "CategoryOfCoverage">>,
  <<36, "CategoryOfLateralMark">>, <<57, "CategoryOfRoad">>,
  <<66, "CategoryOfSpecialPurposeMark">>, <<75, "Colour">>, <<87, "DepthValue1">>,
  <<95, "Height">>, <<107, "LightCharacteristic">>, <<109, "MarkNavigationalSystem">>,
  <<113, "NatureOfSurface">>, <<116, "ObjectName">>, <<133, "ScaleMin">>,
  <<141, "SignalGroup">>, <<142, "SignalPeriod">>, <<147, "SourceDate">>,
  <<148, "SourceIndication">>, <<149, "Status">>, <<178, "ValueOfNominalRange">>,
  <<179, "ValueOfSounding">>, <<187, "WaterLevelEffect">>}

Translated(table, code) ==
  IF \E row \in table : row[1] = code
  THEN (CHOOSE row \in table : row[1] = code)[2] ELSE "Unknown"

\* Mutants: a case that returns what its neighbour does.
BeaconTwice(code) == Translated(TypeCodes, IF code = 7 THEN 9 ELSE code)
fromTypeCode(code) == Translated(TypeCodes, code)
SignalTwice(code) == Translated(AttributeCodes, IF code = 142 THEN 141 ELSE code)
attributeFromTypeCode(code) == Translated(AttributeCodes, code)

ObjectInit == records = << >> /\ objects = << >>

Uncast ==   \* mutant: no cast
  [t \in {0, 2, 4} |-> CASE t = 0 -> "uint32_t" [] t = 2 -> "double" [] t = 4 -> "string"]
\* The alternative of the variant that a value is kept in.  Lists of integers
\* (1) and of doubles (3), and types that are not known, are not kept.
Alternative ==
  [t \in {0, 2, 4} |-> CASE t = 0 -> "uint32_t" [] t = 2 -> "float" [] t = 4 -> "string"]
Variant(r) == [type |-> Alternative[r.valueType],
               value |-> IF r.valueType = 2 THEN Narrow[r.value] ELSE r.value]

\* Mutant: a value stays when another one has another type.
SameType(attributes, a, variant) ==
  [b \in DOMAIN attributes \cup {a} |->
     IF b \in DOMAIN attributes /\ (b # a \/ attributes[a].type # variant.type)
     THEN attributes[b] ELSE variant]
setAttribute(attributes, a, variant) ==
  [b \in DOMAIN attributes \cup {a} |-> IF b = a THEN variant ELSE attributes[b]]

More(r) == Len(records) < MaxRecords /\ records' = Append(records, r)

NewObject(r) ==
  /\ More(r)
  /\ objects' = Append(objects, [type |-> fromTypeCode(r.code), attributes |-> << >>])

\* Nothing to keep: an attribute that is not known, no object, or a list.
IgnoreAttribute(r) ==
  /\ More(r)
  /\ \/ attributeFromTypeCode(r.code) = "Unknown"
     \/ r.valueType \notin DOMAIN Alternative
     \/ objects = << >>
  /\ UNCHANGED objects

SetAttribute(r) ==
  /\ More(r)
  /\ attributeFromTypeCode(r.code) # "Unknown"
  /\ r.valueType \in DOMAIN Alternative
  /\ objects # << >>
  /\ objects' = [objects EXCEPT ![Len(objects)].attributes =
                   setAttribute(@, attributeFromTypeCode(r.code), Variant(r))]

ObjectNext == \/ \E r \in FeatureRecord : NewObject(r)
        \/ \E r \in AttributeRecord : IgnoreAttribute(r) \/ SetAttribute(r)

ObjectSpec == ObjectInit /\ [][ObjectNext]_objectVars

\* What a user asks an object for: a set with the value, or empty.
attributeList(o) == DOMAIN objects[o].attributes
AnyType(o, a, T) ==   \* mutant: the value is given whatever its type
  {objects[o].attributes[b].value : b \in attributeList(o) \cap {a}}
attribute(o, a, T) ==
  {objects[o].attributes[b].value :
     b \in {b \in attributeList(o) \cap {a} : objects[o].attributes[b].type = T}}

-----------------------------------------------------------------------------
\* The record of an object, and the records of its attributes.
Features == {i \in 1..Len(records) : records[i] \in FeatureRecord}
FeatureOf(o) == CHOOSE i \in Features : Cardinality(Features \cap 1..i) = o
Own(o) == {i \in FeatureOf(o) + 1 .. Len(records) :
             Cardinality(Features \cap 1..i) = o}

\* An attribute is answered by one getter, that of the type of the last record
\* of the object with this attribute and a single value, and with the value of
\* that record, whatever came before it; without such a record no getter does,
\* and the attribute is not listed.
LastValueAnswers ==
  \A o \in 1..Len(objects), row \in AttributeCodes :
    LET S == {i \in Own(o) : /\ records[i].code = row[1]
                             /\ records[i].valueType \in {0, 2, 4}}
        last == records[CHOOSE i \in S : \A j \in S : j <= i]
        T == CASE last.valueType = 0 -> "uint32_t" [] last.valueType = 2 -> "float"
               [] last.valueType = 4 -> "string"
    IN IF S = {} THEN row[2] \notin attributeList(o)
       ELSE /\ row[2] \in attributeList(o)
            /\ attribute(o, row[2], T) =
                 {IF T = "float" THEN Narrow[last.value] ELSE last.value}
            /\ \A U \in {"uint32_t", "float", "string"} \ {T} :
                 attribute(o, row[2], U) = {}

\* No two codes share a type or an attribute: objects of one known type come
\* from one code, and an object lists as many attributes as its records have
\* known codes.
CodesKeptApart ==
  /\ Len(objects) = Cardinality(Features)
  /\ \A o, p \in 1..Len(objects) :
       objects[o].type = objects[p].type /\ objects[o].type # "Unknown" =>
         records[FeatureOf(o)].code = records[FeatureOf(p)].code
  /\ \A o \in 1..Len(objects) :
       Cardinality(attributeList(o)) =
         Cardinality({records[i].code : i \in
           {j \in Own(o) : /\ \E row \in AttributeCodes : row[1] = records[j].code
                           /\ records[j].valueType \in {0, 2, 4}}})
\* An object answers for its own records: the last value of an attribute, and
\* no code's type or attribute for another's (S57::attribute, fromTypeCode).
ObjectsAsRecorded == LastValueAnswers /\ CodesKeptApart
=============================================================================
