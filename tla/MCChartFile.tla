------------------------------- MODULE MCChartFile -------------------------------
(***************************************************************************)
(* Streams of records for TLC.                                             *)
(***************************************************************************)
EXTENDS ChartFile

Fields == {"version", "name"}
Attributes == {"a"}
Indices == {1, 2}

Statuses == [kind : {"status"}, oversized : {FALSE},
             expireStatus : BOOLEAN, decryptStatus : BOOLEAN]
            \cup {[kind |-> "status", oversized |-> TRUE]}
Headers == {[kind |-> "version", field |-> "version", value |-> 200, fits |-> b] :
              b \in BOOLEAN}
           \cup {[kind |-> "header", field |-> "name", value |-> v] : v \in 1..2}
Extents == [kind : {"extent"}, value : {"east", "west"}]
Feature(t) == [kind |-> "feature", value |-> t]
Geometries == [kind : GeometryKinds, value : {1}]
Attribution == [kind : {"attribute"}, attribute : {"a"}, scalar : {TRUE}, value : 1..2]
               \cup {[kind |-> "attribute", attribute |-> "a", scalar |-> FALSE],
                     [kind |-> "attribute", attribute |-> "other", scalar |-> TRUE,
                      value |-> 1]}
Tables == {[kind |-> "edges", entries |-> [i \in {1} |-> 1]],
           [kind |-> "edges", entries |-> [i \in {1, 2} |-> 2]],
           [kind |-> "nodes", entries |-> [i \in {1} |-> 1]]}
Bare == {[kind |-> k] : k \in {"skipped", "end", "unknown"}}

HeaderRecords == Statuses \cup Headers \cup Extents \cup Bare \cup {Feature(1)}
ObjectRecords == Extents \cup Geometries \cup Attribution \cup
                 {Feature(1), Feature(2), [kind |-> "end"]}
TableRecords == Extents \cup Tables \cup
                {Feature(1), [kind |-> "line", value |-> 1],
                 [kind |-> "multipoint", value |-> 1], [kind |-> "unknown"]}

\* A stream has records of one of three sets, and as many as to keep TLC's work
\* small.
Streams == {[records |-> HeaderRecords, most |-> 5],
            [records |-> ObjectRecords, most |-> 5],
            [records |-> TableRecords, most |-> 6]}
AllRecords == UNION {stream.records : stream \in Streams}
OfOneStream ==
  \E stream \in Streams :
    /\ \A i \in 1..Len(taken) : taken[i] \in AllRecords => taken[i] \in stream.records
    /\ \A i \in stream.most + 1..Len(taken) : taken[i].kind \in {"begin", "built", "stopped"}
StreamSpec == Init /\ [][Next /\ OfOneStream']_vars
=============================================================================
