------------------------------ MODULE RecordLayout ------------------------------
(***************************************************************************)
(* The bytes ChartFile::ingest200 reads: a record is a header of six bytes *)
(* with a type and a length that counts the header too, and a payload that *)
(* is read into one buffer, which grows and is used again for every record.*)
(* What a payload says is module ChartFile; here a record is the length it *)
(* claims and the bytes of payload that are looked at for what it claims   *)
(* to hold.                                                                *)
(***************************************************************************)
EXTENDS Naturals, Sequences, SequencesExt

CONSTANTS
  Record,     \* records: [kind, length, needs]
  Charts,     \* the charts a stream may hold, sequences of records
  Starts,     \* where the records of each chart start, and where it ends
  Word,       \* size_t counts modulo Word: 2^64, or 2^32 on small machines
  Memory,     \* the largest block realloc can give
  MaxCalls    \* bound: calls of readHeaders and read

HeaderSize == 2 + 4
\* A record that claims to be shorter than its header has no payload.
SizeOf(r) == IF r.length < HeaderSize THEN HeaderSize ELSE r.length

Kinds == {"end", "unknown", "status", "version", "feature", "other"}

ASSUME LayoutConstants ==
  /\ Word \in Nat /\ Memory \in Nat /\ MaxCalls \in Nat
  /\ 40 <= Word /\ Memory < Word
  /\ Record \subseteq [kind : Kinds, length : 0..(Word - 1), needs : Nat]
  /\ Charts \subseteq Seq(Record)
  /\ \A records \in Charts :
       LET start == Starts[records]
           n == Len(records)
       IN /\ start \in [1..n + 1 -> Nat] /\ start[1] = 0
          /\ \A i \in 1..n : start[i + 1] = start[i] + SizeOf(records[i])
          /\ \A i, j \in 1..n + 1 : i < j => start[i] < start[j]

VARIABLES
  chart,       \* the records that were sent
  size,        \* how many of their bytes the stream holds
  pos,         \* bytes read
  ended,       \* the stream has failed; it fails for ever
  allocated,   \* the size of the block at pBuffer, 0 for nullptr
  bufferSize,
  call,        \* the call in progress: "none", "readHeaders" or "read"
  results,     \* history: what the calls have returned; "killed" is the last
  whole,       \* history: records read to their end
  unframed,    \* history: a call has left a payload in the stream
  used         \* of what bytes the last payload looked at was made

streamVars == <<chart, size>>
bufferVars == <<allocated, bufferSize>>
vars == <<streamVars, pos, ended, bufferVars, call, results, whole, unframed, used>>

-----------------------------------------------------------------------------
(* The layouts (chartfile.h, packed), as bytes looked at in a payload.     *)

StatusNeeds == 3 * 2
FeatureNeeds == 2
IntegerNeeds == 2 + 1 + 4
PointNeeds == 2 * 8
ExtentNeeds == 8 * 8
LineNeeds(elements) == 4 * 8 + 4 + 16 * elements
MultipointNeeds(points) == 4 * 8 + 4 + 12 * points
NodesNeed(nodes) == 4 + nodes * (4 + 2 * 4)
\* points: of each edge; vertices: of each triangle primitive.
EdgesNeed(points) == FoldLeft(LAMBDA n, p : n + 4 + 4 + p * 2 * 4, 4, points)
Tessellation(contours, vertices) ==
  FoldLeft(LAMBDA n, v : n + 1 + 4 + 4 * 8 + v * 2 * 4, contours * 4, vertices)
AreaNeeds(contours, vertices, elements) ==
  4 * 8 + 3 * 4 + Tessellation(contours, vertices) + 16 * elements

-----------------------------------------------------------------------------
Init ==
  /\ chart \in Charts
  /\ size \in 0..Starts[chart][Len(chart) + 1]
  /\ pos = 0 /\ ended = FALSE
  /\ allocated = 0 /\ bufferSize = 0
  /\ call = "none" /\ results = << >> /\ whole = 0
  /\ unframed = FALSE /\ used = "none"

\* record_length - sizeof(OSENC_Record_Base), and length * 2, as size_t.
WithHeader(r) == r.length   \* mutant: the header is not subtracted
PayloadLength(r) ==
  IF r.length >= HeaderSize THEN r.length - HeaderSize ELSE Word + r.length - HeaderSize
Doubled(n) == IF 2 * n < Word THEN 2 * n ELSE 2 * n - Word
\* As the streamsize istream::read takes it, such a length is negative: no
\* byte is read, and the stream fails.
Negative(n) == 2 * n >= Word

\* The record whose header stands at pos: after a payload was left there, any.
Headers ==
  IF unframed THEN Record
  ELSE {chart[i] : i \in {j \in 1..Len(chart) : Starts[chart][j] = pos}}

Return(result) == call' = "none" /\ results' = Append(results, result)
GoesOn == UNCHANGED <<call, results>>

Begin(which) ==
  /\ call = "none" /\ Len(results) < MaxCalls
  /\ \A i \in 1..Len(results) : results[i] # "killed"
  /\ call' = which
  /\ UNCHANGED <<streamVars, pos, ended, bufferVars, results, whole, unframed, used>>

\* No record header can be read.
HeaderMissing == ended \/ size - pos < HeaderSize
EndOfStream ==
  /\ call # "none" /\ HeaderMissing
  /\ ended' = TRUE
  /\ Return("true")
  /\ UNCHANGED <<streamVars, pos, bufferVars, whole, unframed, used>>

Refused(r) ==
  \/ r.kind = "unknown"
  \/ r.kind = "status" /\ r.length >= 20
  \/ r.kind = "version" /\ (r.length < 6 \/ r.length >= 16)
Stops(r) == r.kind = "end" \/ (r.kind = "feature" /\ call = "readHeaders")

\* The call ends at a header; the payload after it stays in the stream.
StopAtHeader(r) ==
  /\ call # "none" /\ ~HeaderMissing
  /\ Refused(r) \/ Stops(r)
  /\ pos' = pos + HeaderSize
  /\ unframed' = (unframed \/ r.length > HeaderSize)
  /\ whole' = IF r.length > HeaderSize THEN whole ELSE whole + 1
  /\ Return(IF Refused(r) THEN "false" ELSE "true")
  /\ UNCHANGED <<streamVars, ended, bufferVars, used>>

\* getBuffer: a block that cannot be had is not noticed.
FitsExactly(n) ==   \* mutant: length for length * 2
  /\ bufferSize' = IF n > bufferSize THEN Doubled(n) ELSE bufferSize
  /\ allocated' = CASE n <= bufferSize -> allocated [] n <= Memory -> n [] OTHER -> 0
GetBuffer(n) ==
  IF n > bufferSize
  THEN /\ bufferSize' = Doubled(n)
       /\ allocated' = IF Doubled(n) <= Memory THEN Doubled(n) ELSE 0
  ELSE UNCHANGED bufferVars

Available == size - pos - HeaderSize

\* stream.read(buf, n) does not get n bytes: the call returns false.  With no
\* block at buf, the first byte there is to copy kills the process.
ShortGoesOn(n) ==   \* mutant: the result of the read is not looked at
  /\ Negative(n) \/ n > Available
  /\ ended' = TRUE
  /\ pos' = IF Negative(n) THEN pos + HeaderSize ELSE size
  /\ whole' = whole + 1
  /\ UNCHANGED <<call, results, used>>
ShortRead(n) ==
  /\ Negative(n) \/ n > Available
  /\ ended' = TRUE
  /\ pos' = IF Negative(n) THEN pos + HeaderSize ELSE size
  /\ Return(IF allocated' = 0 /\ ~Negative(n) /\ Available > 0 THEN "killed" ELSE "false")
  /\ UNCHANGED <<whole, used>>

\* Of what the bytes are made that are looked at once n of them were read.
Made(r, n) == CASE r.needs <= n /\ n <= allocated' -> "own"
                [] r.needs > n /\ r.needs <= allocated' -> "stale"
                [] OTHER -> "beyond"

\* All n bytes are read, and the payload is looked at: behind nullptr that
\* kills the process, behind the block it may.  A status may refuse the chart.
FullRead(r, n) ==
  /\ ~Negative(n) /\ n <= Available
  /\ pos' = pos + HeaderSize + n
  /\ used' = Made(r, n)
  /\ UNCHANGED ended
  /\ \/ /\ allocated' = 0 => n = 0 /\ r.needs = 0
        /\ whole' = whole + 1
        /\ GoesOn \/ (r.kind = "status" /\ Return("false"))
     \/ /\ (allocated' = 0 /\ n + r.needs > 0) \/ used' = "beyond"
        /\ Return("killed") /\ UNCHANGED whole

ReadPayload(r) ==
  /\ call # "none" /\ ~HeaderMissing
  /\ ~Refused(r) /\ ~Stops(r)
  /\ LET n == PayloadLength(r)
     IN GetBuffer(n) /\ (ShortRead(n) \/ FullRead(r, n))
  /\ UNCHANGED <<streamVars, unframed>>

Next ==
  \/ Begin("readHeaders") \/ Begin("read") \/ EndOfStream
  \/ \E r \in Headers : StopAtHeader(r) \/ ReadPayload(r)

Spec == Init /\ [][Next]_vars

-----------------------------------------------------------------------------
\* Every variable has its type; nothing is read past the end of the stream.
LayoutTypeOK ==
  /\ chart \in Charts /\ size \in Nat
  /\ pos \in 0..size
  /\ ended \in BOOLEAN /\ unframed \in BOOLEAN
  /\ allocated \in 0..Memory /\ bufferSize \in 0..(Word - 1)
  /\ call \in {"none", "readHeaders", "read"}
  /\ results \in Seq({"true", "false", "killed"}) /\ Len(results) <= MaxCalls
  /\ whole \in Nat
  /\ used \in {"none", "own", "stale", "beyond"}

\* Unless a call left a payload behind, every record header is read where a
\* record starts, whatever lengths the records before it claim.
Framed ==
  ~unframed /\ ~ended =>
    \E i \in 1..Len(chart) + 1 : Starts[chart][i] = pos

\* pBuffer points to as many bytes as bufferSize says, unless realloc failed;
\* then the stream has failed as well or the process is gone: no record is
\* ever read into a buffer that is not there.
Killed == \E i \in 1..Len(results) : results[i] = "killed"
BufferHolds ==
  \/ allocated = bufferSize
  \/ allocated = 0 /\ (ended \/ Killed)

\* Payloads are decoded without a look at their length (getBuffer).  All the
\* same only a record too short for what it says it holds is decoded from
\* bytes of earlier ones, whatever the sizes of those; and bytes behind the
\* block are looked at, or the process killed, only by a record that needs
\* more than any payload up to its own had, or one too large for memory.  The
\* record is one that was read, or the one being read.
Payload(r) == SizeOf(r) - HeaderSize
TooShort(r) == r.needs > Payload(r)
TooLarge(r) == 2 * Payload(r) > Memory
LongestYet(i) == \A j \in 1..i : chart[i].needs > Payload(chart[j])
OwnBytes ==
  ~unframed =>
    /\ used = "stale" => \E i \in 1..Len(chart) : i <= whole /\ TooShort(chart[i])
    /\ used = "beyond" \/ Killed =>
         \E i \in 1..Len(chart) :
           i <= whole + 1 /\ (TooLarge(chart[i]) \/ LongestYet(i))

AllTrue == \A i \in 1..Len(results) : results[i] = "true"
\* A call that returns true at the end of the stream, as the first that ends
\* there, has read all records but one whose very header is cut, if any: cut
\* within a payload is told from cut between two records, which is not told
\* from a chart that is complete.
TrueAtHeader ==
  ended /\ ~unframed /\ AllTrue =>
    /\ whole <= Len(chart)
    /\ size - Starts[chart][whole + 1] \in 0..(HeaderSize - 1)

\* Once a stream has failed, every later call returns true, with nothing read.
TrueOnceEnded ==
  [][ended => UNCHANGED <<pos, bufferVars, whole, used>>
              /\ (results' # results => Last(results') = "true")]_vars
=============================================================================
