----------------------------- MODULE MCRecordLayout -----------------------------
(***************************************************************************)
(* Charts of up to three records for TLC.                                  *)
(***************************************************************************)
EXTENDS RecordLayout

Rec(kind, needs, payload) == [kind |-> kind, needs |-> needs, length |-> HeaderSize + payload]

Small == {
  Rec("status", StatusNeeds, 12), Rec("other", IntegerNeeds, 7),
  Rec("feature", FeatureNeeds, 5), Rec("other", 0, 0), Rec("end", 0, 0)}
Large == {
  Rec("other", ExtentNeeds, 64), Rec("version", 2, 10),
  Rec("other", AreaNeeds(1, <<1>>, 0), AreaNeeds(1, <<1>>, 0))}
Odd == {
  [kind |-> "status", needs |-> StatusNeeds, length |-> 3],
  [kind |-> "other", needs |-> PointNeeds, length |-> 0],
  Rec("unknown", 0, 4), Rec("other", NodesNeed(3), 0), Rec("other", LineNeeds(1), 40),
  Rec("other", MultipointNeeds(6), 112), Rec("other", EdgesNeed(<<2, 3>>), 120)}

Records == Small \cup Large \cup Odd
Offsets(records) ==
  [i \in 1..Len(records) + 1 |->
     FoldLeft(LAMBDA n, r : n + SizeOf(r), 0, SubSeq(records, 1, i - 1))]

SomeCharts == {<< >>} \cup [1..1 -> Records] \cup [1..2 -> Records] \cup [1..3 -> Small]
SomeStarts == [records \in SomeCharts |-> Offsets(records)]
=============================================================================
