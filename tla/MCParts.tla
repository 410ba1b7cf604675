--------------------------------- MODULE MCParts ---------------------------------
(***************************************************************************)
(* The parts of the library that keep to themselves, for TLC: a behaviour  *)
(* shows one of them, and the others stay as they are.                     *)
(***************************************************************************)
EXTENDS KeyListReader, Rect, S57Object, TLC

VARIABLE shown

allVars == <<keyVars, rectVars, objectVars, shown>>

PartsInit ==
  /\ KeyInit /\ RectInit /\ ObjectInit
  /\ shown \in {"keys", "rectangles", "objects"}
  /\ shown # "keys" => call = "readOesencKey" /\ lines = << >>

PartsNext ==
  /\ UNCHANGED shown
  /\ \/ shown = "keys" /\ KeyNext /\ UNCHANGED <<rectVars, objectVars>>
     \/ shown = "rectangles" /\ RectNext /\ UNCHANGED <<keyVars, objectVars>>
     \/ shown = "objects" /\ ObjectNext /\ UNCHANGED <<keyVars, rectVars>>

PartsSpec == PartsInit /\ [][PartsNext]_allVars

-----------------------------------------------------------------------------
SomeCharts == {[fileName |-> "n1", key |-> "k1"], [fileName |-> "n1", key |-> "k2"],
               [fileName |-> "n2", key |-> "k1"],
               [fileName |-> "n2", key |-> None], [fileName |-> None, key |-> "k1"]}
Keys == {"k1", "k2"}

Grid == -1..1
Symmetry == Permutations(Object) \cup Permutations(File)

\* Every code the tables have, and some they do not.
Feature(code) == [kind |-> "FEATURE_ID_RECORD", code |-> code]
Attribute(code, type, value) ==
  [kind |-> "FEATURE_ATTRIBUTE_RECORD", code |-> code, valueType |-> type, value |-> value]
FeatureCodes == {Feature(code) : code \in {row[1] : row \in TypeCodes} \cup {0, 2, 310}}
AttributeValues == {Attribute(code, 0, "n1") : code \in {row[1] : row \in AttributeCodes} \cup {0, 88}}

\* And every type of value; two doubles are one float.
Values ==
  {Attribute(87, 0, "n2"), Attribute(87, 4, "s1"), Attribute(116, 4, "s1")} \cup
  {Attribute(87, 2, d) : d \in {"d1", "d2"}} \cup
  {Attribute(87, type, "x") : type \in {1, 3, 5}}
Records == FeatureCodes \cup AttributeValues \cup Values
Floats == [d \in {"d1", "d2"} |-> "f1"]
=============================================================================
