--------------------------- MODULE RecordLayout_proofs ---------------------------
(***************************************************************************)
(* Proofs about RecordLayout, for any charts, streams cut anywhere and any *)
(* amount of memory.                                                       *)
(***************************************************************************)
EXTENDS RecordLayout, TLAPS

\* A call that is in progress has not been killed.
Alive == call # "none" => ~Killed /\ Len(results) < MaxCalls

\* As long as records are read where they start, the next to be read is the
\* one after those that were read to their end.
InStep ==
  ~unframed /\ ~ended =>
    \E i \in 1..Len(chart) + 1 :
      Starts[chart][i] = pos /\ (~Killed => i = whole + 1)

\* The block is as large as any payload read so far, and stays so: it never
\* shrinks.  (A stream that failed, or a process that is gone, reads no more.)
RoomForAll ==
  ~unframed /\ ~ended /\ ~Killed =>
    \A j \in 1..Len(chart) : j <= whole => Payload(chart[j]) <= allocated

\* The two conjuncts of OwnBytes, as reasons that stay true while records are
\* read.
ReadShort(n) == \E i \in 1..Len(chart) : i <= n /\ TooShort(chart[i])
ReadBeyond(n) ==
  \E i \in 1..Len(chart) : i <= n + 1 /\ (TooLarge(chart[i]) \/ LongestYet(i))

IInv ==
  /\ LayoutTypeOK /\ Alive /\ BufferHolds /\ InStep /\ TrueAtHeader
  /\ OwnBytes /\ RoomForAll

-----------------------------------------------------------------------------
\* What the starts of a chart are.
LEMMA StartsOf ==
  ASSUME NEW records \in Charts
  PROVE  /\ Len(records) \in Nat
         /\ \A i \in 1..Len(records) + 1 : Starts[records][i] \in Nat
         /\ Starts[records][1] = 0
         /\ \A i \in 1..Len(records) :
              /\ records[i] \in Record
              /\ Starts[records][i + 1] = Starts[records][i] + SizeOf(records[i])
         /\ \A i, j \in 1..Len(records) + 1 :
              i < j => Starts[records][i] < Starts[records][j]
<1>1. records \in Seq(Record)
  BY LayoutConstants
<1>2. Len(records) \in Nat /\ \A i \in 1..Len(records) : records[i] \in Record
  BY <1>1
<1>3. /\ Starts[records] \in [1..Len(records) + 1 -> Nat]
      /\ Starts[records][1] = 0
      /\ \A i \in 1..Len(records) :
           Starts[records][i + 1] = Starts[records][i] + SizeOf(records[i])
      /\ \A i, j \in 1..Len(records) + 1 :
           i < j => Starts[records][i] < Starts[records][j]
  BY LayoutConstants
<1>4. QED
  BY <1>2, <1>3

\* A length less than a header's is negative for istream::read, and no other
\* wraps around.
LEMMA Lengths ==
  ASSUME NEW r \in Record
  PROVE  /\ r.length \in Nat /\ r.needs \in Nat /\ SizeOf(r) \in Nat
         /\ SizeOf(r) >= HeaderSize
         /\ PayloadLength(r) \in 0..(Word - 1)
         /\ ~Negative(PayloadLength(r)) =>
              /\ r.length >= HeaderSize /\ PayloadLength(r) = r.length - HeaderSize
              /\ SizeOf(r) = HeaderSize + PayloadLength(r)
         /\ r.length <= HeaderSize => SizeOf(r) = HeaderSize
<1>1. r.length \in 0..(Word - 1) /\ r.needs \in Nat /\ Word \in Nat /\ Word >= 40
  BY LayoutConstants
<1>2. QED
  BY <1>1 DEF PayloadLength, SizeOf, HeaderSize, Negative

\* Payloads have a size.
LEMMA SizesOf ==
  ASSUME NEW records \in Charts, NEW i \in 1..Len(records)
  PROVE  Payload(records[i]) \in Nat
<1>1. records[i] \in Record
  BY StartsOf
<1>2. SizeOf(records[i]) \in Nat /\ SizeOf(records[i]) >= HeaderSize
  BY <1>1, Lengths
<1>3. QED
  BY <1>2 DEF Payload, HeaderSize

\* What getBuffer makes of a buffer it knows the size of.
LEMMA Buffers ==
  ASSUME LayoutTypeOK, allocated = bufferSize,
         NEW n \in 0..(Word - 1), GetBuffer(n)
  PROVE  /\ allocated' \in 0..Memory /\ bufferSize' \in 0..(Word - 1)
         /\ allocated' = bufferSize' \/ (allocated' = 0 /\ n > 0)
         /\ 2 * n <= Memory => allocated' = bufferSize' /\ n <= allocated'
         /\ ~Negative(n) /\ allocated' = bufferSize' =>
              n <= allocated' /\ allocated <= allocated'
<1>1. /\ Word \in Nat /\ Memory \in Nat /\ Memory < Word
      /\ allocated \in 0..Memory /\ bufferSize \in 0..(Word - 1)
  BY LayoutConstants DEF LayoutTypeOK
<1>2. CASE n > bufferSize
  <2>1. bufferSize' = Doubled(n) /\ allocated' = IF Doubled(n) <= Memory THEN Doubled(n) ELSE 0
    BY <1>2 DEF GetBuffer
  <2>2. Doubled(n) \in 0..(Word - 1) /\ (2 * n <= Memory => Doubled(n) = 2 * n)
    BY <1>1 DEF Doubled
  <2>3. ~Negative(n) => Doubled(n) = 2 * n
    BY <1>1 DEF Doubled, Negative
  <2>4. QED
    BY <1>1, <1>2, <2>1, <2>2, <2>3
<1>3. CASE ~(n > bufferSize)
  BY <1>1, <1>3 DEF GetBuffer, bufferVars
<1>4. QED
  BY <1>2, <1>3

\* Results are only added.
LEMMA Returned ==
  ASSUME LayoutTypeOK, Alive,
         NEW x \in {"true", "false", "killed"}, Return(x), call # "none"
  PROVE  /\ results' \in Seq({"true", "false", "killed"}) /\ Len(results') <= MaxCalls
         /\ Killed' <=> Killed \/ x = "killed"
         /\ AllTrue' => AllTrue /\ x = "true"
         /\ call' = "none"
<1>1. results \in Seq({"true", "false", "killed"}) /\ results' = Append(results, x)
  BY DEF LayoutTypeOK, Return
<1>2. /\ Len(results) \in Nat /\ Len(results') = Len(results) + 1
      /\ \A i \in 1..Len(results) : results'[i] = results[i]
      /\ results'[Len(results) + 1] = x
  BY <1>1
<1>3. Killed' <=> Killed \/ x = "killed"
  BY <1>2 DEF Killed
<1>4. AllTrue' => AllTrue /\ x = "true"
  BY <1>2 DEF AllTrue
<1>5. Len(results') <= MaxCalls
  BY <1>2, LayoutConstants DEF Alive
<1>6. QED
  BY <1>1, <1>3, <1>4, <1>5 DEF Return

\* A record that is read where it should be is that after those read so far.
LEMMA NextRecord ==
  ASSUME IInv, ~unframed, ~ended, ~Killed, NEW r \in Headers
  PROVE  /\ whole + 1 \in 1..Len(chart) /\ r = chart[whole + 1]
         /\ Starts[chart][whole + 1] = pos
         /\ Starts[chart][whole + 2] = pos + SizeOf(r)
<1>1. chart \in Charts /\ whole \in Nat
  BY DEF IInv, LayoutTypeOK
<1>2. whole + 1 \in 1..Len(chart) + 1 /\ Starts[chart][whole + 1] = pos
  BY DEF IInv, InStep
<1>3. PICK j \in 1..Len(chart) : Starts[chart][j] = pos /\ r = chart[j]
  BY DEF Headers
<1>4. j = whole + 1
  <2>1. Len(chart) \in Nat /\ \A i, k \in 1..Len(chart) + 1 :
                                i < k => Starts[chart][i] < Starts[chart][k]
    BY <1>1, StartsOf
  <2>2. \A i \in 1..Len(chart) + 1 : Starts[chart][i] \in Nat
    BY <1>1, StartsOf
  <2>3. ~(j < whole + 1) /\ ~(whole + 1 < j)
    BY <1>1, <1>2, <1>3, <2>1, <2>2
  <2>4. QED
    BY <1>1, <2>1, <2>3
<1>5. QED
  BY <1>1, <1>2, <1>3, <1>4, StartsOf

\* Headers are records.
LEMMA HeadersAreRecords ==
  ASSUME IInv, NEW r \in Headers
  PROVE  r \in Record
<1>1. chart \in Charts
  BY DEF IInv, LayoutTypeOK
<1>2. CASE unframed
  BY <1>2 DEF Headers
<1>3. CASE ~unframed
  BY <1>1, <1>3, StartsOf DEF Headers
<1>4. QED
  BY <1>2, <1>3

\* IInv holds before the first call.
LEMMA Start == Init => IInv
<1> SUFFICES ASSUME Init PROVE IInv
  OBVIOUS
<1>1. /\ chart \in Charts /\ Len(chart) \in Nat /\ Starts[chart][1] = 0
      /\ Starts[chart][Len(chart) + 1] \in Nat
  BY StartsOf DEF Init
<1>2. size \in Nat /\ results = << >> /\ Len(results) = 0
  BY <1>1 DEF Init
<1>3. ~Killed
  BY <1>2 DEF Killed
<1>4. LayoutTypeOK
  <2>1. Word \in Nat /\ 40 <= Word /\ Memory \in Nat /\ MaxCalls \in Nat
    BY LayoutConstants
  <2>2. results \in Seq({"true", "false", "killed"}) /\ Len(results) <= MaxCalls
    BY <1>2, <2>1
  <2>3. allocated \in 0..Memory /\ bufferSize \in 0..(Word - 1) /\ pos \in 0..size
    BY <1>2, <2>1 DEF Init
  <2>4. QED
    BY <1>1, <1>2, <2>2, <2>3 DEF Init, LayoutTypeOK
<1>5. InStep
  BY <1>1 DEF Init, InStep
<1>6. QED
  BY <1>1, <1>3, <1>4, <1>5
  DEF Init, IInv, Alive, BufferHolds, TrueAtHeader, OwnBytes, RoomForAll

-----------------------------------------------------------------------------
\* A record that was read, or is being read, is still so after a step.
LEMMA ReasonsStay ==
  ASSUME IInv, UNCHANGED <<chart, used>>, whole' \in Nat, whole' >= whole,
         ~unframed' => ~unframed, Killed' => Killed
  PROVE  OwnBytes'
<1>1. \A i \in 1..Len(chart) : (i <= whole => i <= whole') /\ (i <= whole + 1 => i <= whole' + 1)
  <2>1. whole \in Nat
    BY DEF IInv, LayoutTypeOK
  <2>2. ASSUME NEW m \in Nat, NEW n \in Nat, m <= n, NEW i \in Nat
        PROVE  (i <= m => i <= n) /\ (i <= m + 1 => i <= n + 1)
    BY <2>2
  <2>3. whole <= whole'
    BY <2>1
  <2>4. \A i \in 1..Len(chart) : i \in Nat
    OBVIOUS
  <2>5. QED
    BY <2>1, <2>2, <2>3, <2>4
<1>2. (ReadShort(whole) => ReadShort(whole')) /\ (ReadBeyond(whole) => ReadBeyond(whole'))
  <2>1. ReadShort(whole) => ReadShort(whole')
    BY <1>1 DEF ReadShort
  <2>2. ReadBeyond(whole) => ReadBeyond(whole')
    BY <1>1 DEF ReadBeyond
  <2>3. QED
    BY <2>1, <2>2
<1>3. OwnBytes
  BY DEF IInv
<1>4. QED
  BY <1>1, <1>2, <1>3 DEF OwnBytes, ReadShort, ReadBeyond, LongestYet

\* A call begins.
LEMMA BeginKeeps ==
  ASSUME IInv, NEW which \in {"readHeaders", "read"}, Begin(which)
  PROVE  IInv'
<1>1. /\ UNCHANGED <<chart, size, pos, ended, allocated, bufferSize, results, whole,
                     unframed, used>>
      /\ call' = which /\ ~Killed /\ Len(results) < MaxCalls
  BY DEF Begin, streamVars, bufferVars, Killed
<1>2. LayoutTypeOK'
  BY <1>1 DEF IInv, LayoutTypeOK
<1>3. (Killed' <=> Killed) /\ (AllTrue' <=> AllTrue)
  BY <1>1 DEF Killed, AllTrue
<1>5. OwnBytes' /\ RoomForAll'
  <2>1. whole' \in Nat /\ whole' >= whole
    BY <1>1 DEF IInv, LayoutTypeOK
  <2>2. OwnBytes'
    BY <1>1, <1>3, <2>1, ReasonsStay
  <2>3. RoomForAll'
    BY <1>1, <1>3 DEF IInv, RoomForAll
  <2>4. QED
    BY <2>2, <2>3
<1>6. InStep' /\ TrueAtHeader' /\ BufferHolds'
  BY <1>1, <1>3 DEF IInv, InStep, TrueAtHeader, BufferHolds
<1>7. QED
  BY <1>1, <1>2, <1>3, <1>5, <1>6 DEF IInv, Alive

\* A call meets the end of the stream where a header should be.
LEMMA EndKeeps ==
  ASSUME IInv, EndOfStream
  PROVE  IInv'
<1>1. /\ UNCHANGED <<chart, size, pos, allocated, bufferSize, whole, unframed, used>>
      /\ call # "none" /\ ended' = TRUE /\ Return("true") /\ HeaderMissing
  BY DEF EndOfStream, streamVars, bufferVars
<1>2. /\ results' \in Seq({"true", "false", "killed"}) /\ Len(results') <= MaxCalls
      /\ (Killed' <=> Killed) /\ (AllTrue' => AllTrue) /\ call' = "none"
  BY <1>1, Returned DEF IInv
<1>3. LayoutTypeOK'
  BY <1>1, <1>2 DEF IInv, LayoutTypeOK
<1>4. OwnBytes' /\ RoomForAll'
  <2>1. whole' \in Nat /\ whole' >= whole
    BY <1>1 DEF IInv, LayoutTypeOK
  <2>2. OwnBytes'
    BY <1>1, <1>2, <2>1, ReasonsStay
  <2>3. QED
    BY <1>1, <2>2 DEF RoomForAll
<1>5. TrueAtHeader'
  <2> SUFFICES ASSUME ~unframed, AllTrue
               PROVE  /\ whole <= Len(chart)
                      /\ size - Starts[chart][whole + 1] \in 0..(HeaderSize - 1)
    BY <1>1, <1>2 DEF TrueAtHeader
  <2>1. CASE ended
    BY <2>1 DEF IInv, TrueAtHeader
  <2>2. CASE ~ended
    <3>1. /\ chart \in Charts /\ size \in Nat /\ pos \in 0..size /\ whole \in Nat
          /\ Len(chart) \in Nat /\ size - pos < HeaderSize
      BY <1>1, <2>2, StartsOf DEF IInv, LayoutTypeOK, HeaderMissing
    <3>2. whole + 1 \in 1..Len(chart) + 1 /\ Starts[chart][whole + 1] = pos
      BY <1>1, <2>2 DEF IInv, Alive, InStep
    <3>3. QED
      BY <3>1, <3>2 DEF HeaderSize
  <2>3. QED
    BY <2>1, <2>2
<1>6. QED
  BY <1>1, <1>2, <1>3, <1>4, <1>5 DEF IInv, InStep, BufferHolds, Alive

\* What a call in progress can rely on before the end of the stream.
LEMMA InCall ==
  ASSUME IInv, call # "none", ~HeaderMissing
  PROVE  /\ ~ended /\ ~Killed /\ allocated = bufferSize
         /\ chart \in Charts /\ Len(chart) \in Nat /\ whole \in Nat
         /\ size \in Nat /\ pos \in Nat /\ size - pos >= HeaderSize
BY StartsOf DEF IInv, LayoutTypeOK, Alive, BufferHolds, HeaderMissing, HeaderSize

\* A call ends at a header and leaves the payload.
LEMMA StopKeeps ==
  ASSUME IInv, NEW r \in Headers, StopAtHeader(r)
  PROVE  IInv'
<1>1. /\ UNCHANGED <<chart, size, ended, allocated, bufferSize, used>>
      /\ call # "none" /\ ~HeaderMissing
      /\ pos' = pos + HeaderSize /\ unframed' = (unframed \/ r.length > HeaderSize)
      /\ whole' = IF r.length > HeaderSize THEN whole ELSE whole + 1
      /\ \E x \in {"true", "false"} : Return(x)
  BY DEF StopAtHeader, streamVars, bufferVars
<1>2. /\ results' \in Seq({"true", "false", "killed"}) /\ Len(results') <= MaxCalls
      /\ (Killed' <=> Killed) /\ call' = "none"
  BY <1>1, Returned DEF IInv
<1>3. /\ ~ended /\ ~Killed /\ allocated = bufferSize
      /\ chart \in Charts /\ Len(chart) \in Nat /\ whole \in Nat
      /\ size \in Nat /\ pos \in Nat /\ size - pos >= HeaderSize
  BY <1>1, InCall
<1>4. LayoutTypeOK'
  <2>1. pos' \in 0..size' /\ whole' \in Nat
    BY <1>1, <1>3 DEF HeaderSize
  <2>2. unframed' \in BOOLEAN
    BY <1>1
  <2>3. QED
    BY <1>1, <1>2, <2>1, <2>2 DEF IInv, LayoutTypeOK
<1>5. ~unframed' => /\ whole' \in Nat /\ whole' + 1 \in 1..Len(chart) + 1
                    /\ Starts[chart][whole' + 1] = pos'
  <2> SUFFICES ASSUME ~unframed'
               PROVE  /\ whole' \in Nat /\ whole' + 1 \in 1..Len(chart) + 1
                      /\ Starts[chart][whole' + 1] = pos'
    OBVIOUS
  <2>1. r \in Record /\ ~unframed /\ r.length <= HeaderSize /\ whole' = whole + 1
    <3>1. r \in Record
      BY HeadersAreRecords
    <3>2. r.length \in Nat
      BY <3>1, Lengths
    <3>3. ~unframed /\ ~(r.length > HeaderSize) /\ whole' = whole + 1
      BY <1>1
    <3>4. r.length <= HeaderSize
      BY <3>2, <3>3 DEF HeaderSize
    <3>5. QED
      BY <3>1, <3>3, <3>4
  <2>2. SizeOf(r) = HeaderSize
    BY <2>1, Lengths
  <2>3. whole + 1 \in 1..Len(chart) /\ Starts[chart][whole + 2] = pos + SizeOf(r)
    BY <1>3, <2>1, NextRecord
  <2>4. QED
    BY <1>1, <1>3, <2>1, <2>2, <2>3
<1>6. InStep'
  BY <1>1, <1>5 DEF InStep
<1>7. OwnBytes'
  <2>1. whole' >= whole
    BY <1>1, <1>3
  <2>2. ~unframed' => ~unframed
    BY <1>1
  <2>3. QED
    BY <1>1, <1>2, <1>3, <2>1, <2>2, ReasonsStay DEF IInv
<1>9. RoomForAll'
  <2> SUFFICES ASSUME ~unframed', NEW j \in 1..Len(chart), j <= whole'
               PROVE  Payload(chart[j]) <= allocated
    BY <1>1 DEF RoomForAll
  <2>1. ~unframed /\ ~(r.length > HeaderSize) /\ whole' = whole + 1
    BY <1>1
  <2>2. CASE j <= whole
    BY <1>3, <2>1, <2>2 DEF IInv, RoomForAll
  <2>3. CASE j = whole + 1
    <3>1. r = chart[j]
      BY <1>3, <2>1, <2>3, NextRecord
    <3>2. r \in Record
      BY HeadersAreRecords
    <3>3. r.length \in Nat /\ allocated \in Nat
      BY <3>2, Lengths, LayoutConstants DEF IInv, LayoutTypeOK
    <3>4. SizeOf(r) = HeaderSize
      BY <2>1, <3>2, <3>3, Lengths DEF HeaderSize
    <3>5. Payload(r) = 0
      BY <3>4 DEF Payload, HeaderSize
    <3>6. QED
      BY <3>1, <3>3, <3>5
  <2>4. QED
    BY <1>3, <2>1, <2>2, <2>3
<1>8. QED
  BY <1>1, <1>2, <1>3, <1>4, <1>6, <1>7, <1>9
  DEF IInv, Alive, BufferHolds, TrueAtHeader

\* The stream ends within a payload.
LEMMA ShortKeeps ==
  ASSUME IInv, NEW r \in Headers, ReadPayload(r), ShortRead(PayloadLength(r))
  PROVE  IInv'
<1> DEFINE n == PayloadLength(r)
<1>1. /\ UNCHANGED <<chart, size, whole, unframed, used>>
      /\ call # "none" /\ ~HeaderMissing
      /\ GetBuffer(n) /\ ended' = TRUE
      /\ pos' = IF Negative(n) THEN pos + HeaderSize ELSE size
  BY DEF ReadPayload, ShortRead, streamVars
<1>2. PICK x \in {"false", "killed"} :
        /\ Return(x)
        /\ x = "killed" => allocated' = 0 /\ ~Negative(n) /\ n > Available /\ Available > 0
  BY DEF ShortRead
<1>3. /\ results' \in Seq({"true", "false", "killed"}) /\ Len(results') <= MaxCalls
      /\ (Killed' <=> x = "killed") /\ ~AllTrue' /\ call' = "none"
  <2>1. ~Killed
    BY <1>1, InCall
  <2>2. QED
    BY <1>1, <1>2, <2>1, Returned DEF IInv
<1>4. /\ ~ended /\ ~Killed /\ allocated = bufferSize
      /\ chart \in Charts /\ Len(chart) \in Nat /\ whole \in Nat
      /\ size \in Nat /\ pos \in Nat /\ size - pos >= HeaderSize
  BY <1>1, InCall
<1>5. r \in Record /\ n \in 0..(Word - 1) /\ Word \in Nat /\ Memory \in Nat /\ Memory < Word
  BY HeadersAreRecords, Lengths, LayoutConstants
<1>6. /\ allocated' \in 0..Memory /\ bufferSize' \in 0..(Word - 1)
      /\ allocated' = bufferSize' \/ (allocated' = 0 /\ n > 0)
      /\ 2 * n <= Memory => allocated' = bufferSize' /\ n <= allocated'
  BY <1>1, <1>4, <1>5, Buffers DEF IInv
<1>7. LayoutTypeOK'
  <2>1. pos' \in 0..size'
    BY <1>1, <1>4 DEF HeaderSize
  <2>2. QED
    BY <1>1, <1>3, <1>6, <2>1 DEF IInv, LayoutTypeOK
<1>8. RoomForAll'
  BY <1>1 DEF RoomForAll
<1>9. OwnBytes'
  <2>1. CASE x = "false"
    <3>1. (Killed' => Killed) /\ whole' \in Nat /\ whole' >= whole
      BY <1>1, <1>3, <1>4, <2>1
    <3>2. QED
      BY <1>1, <3>1, ReasonsStay
  <2>2. CASE x = "killed"
    <3> SUFFICES ASSUME ~unframed PROVE OwnBytes'
      BY <1>1 DEF OwnBytes
    <3>1. ~(2 * n <= Memory) /\ ~Negative(n)
      <4>1. Available \in Int
        BY <1>4 DEF Available, HeaderSize
      <4>2. QED
        BY <1>2, <1>5, <1>6, <2>2, <4>1
    <3>2. whole + 1 \in 1..Len(chart) /\ r = chart[whole + 1]
      BY <1>4, NextRecord
    <3>3. TooLarge(chart[whole + 1])
      <4>1. SizeOf(r) = HeaderSize + n /\ SizeOf(r) \in Nat
        BY <1>5, <3>1, Lengths
      <4>2. Payload(r) = n
        BY <1>5, <4>1 DEF Payload, HeaderSize
      <4>3. QED
        BY <1>5, <3>1, <3>2, <4>2 DEF TooLarge
    <3>4. ReadBeyond(whole)
      BY <1>4, <3>2, <3>3 DEF ReadBeyond
    <3>5. used = "stale" => ReadShort(whole)
      BY DEF IInv, OwnBytes, ReadShort
    <3>6. QED
      BY <1>1, <3>4, <3>5 DEF OwnBytes, ReadShort, ReadBeyond, LongestYet
  <2>3. QED
    BY <2>1, <2>2
<1>10. QED
  BY <1>1, <1>3, <1>6, <1>7, <1>8, <1>9 DEF IInv, Alive, BufferHolds, TrueAtHeader, InStep

\* A payload is read, and decoded.
LEMMA FullKeeps ==
  ASSUME IInv, NEW r \in Headers, ReadPayload(r), FullRead(r, PayloadLength(r))
  PROVE  IInv'
<1> DEFINE n == PayloadLength(r)
<1>1. /\ UNCHANGED <<chart, size, ended, unframed>>
      /\ call # "none" /\ ~HeaderMissing
      /\ GetBuffer(n) /\ ~Negative(n) /\ n <= Available
      /\ pos' = pos + HeaderSize + n /\ used' = Made(r, n)
  BY DEF ReadPayload, FullRead, streamVars
<1>2. /\ ~ended /\ ~Killed /\ allocated = bufferSize
      /\ chart \in Charts /\ Len(chart) \in Nat /\ whole \in Nat
      /\ size \in Nat /\ pos \in Nat /\ size - pos >= HeaderSize
  BY <1>1, InCall
<1>3. r \in Record /\ n \in 0..(Word - 1) /\ Word \in Nat /\ Memory \in Nat /\ Memory < Word
  BY HeadersAreRecords, Lengths, LayoutConstants
<1>4. /\ r.length \in Nat /\ r.needs \in Nat
      /\ n = r.length - HeaderSize /\ SizeOf(r) = HeaderSize + n
  BY <1>1, <1>3, Lengths
<1>5. /\ allocated' \in 0..Memory /\ bufferSize' \in 0..(Word - 1)
      /\ allocated' = bufferSize' \/ (allocated' = 0 /\ n > 0)
      /\ 2 * n <= Memory => allocated' = bufferSize' /\ n <= allocated'
      /\ allocated' = bufferSize' => n <= allocated' /\ allocated <= allocated'
  BY <1>1, <1>2, <1>3, Buffers DEF IInv
<1>6. \/ /\ allocated' = 0 => n = 0 /\ r.needs = 0
         /\ whole' = whole + 1
         /\ \/ UNCHANGED <<call, results>>
            \/ Return("false")
      \/ /\ (allocated' = 0 /\ n + r.needs > 0) \/ used' = "beyond"
         /\ Return("killed") /\ whole' = whole
  BY DEF FullRead, GoesOn
<1>7. /\ results' \in Seq({"true", "false", "killed"}) /\ Len(results') <= MaxCalls
      /\ (Killed' /\ Return("killed")) \/ ~Killed'
      /\ AllTrue' => AllTrue
      /\ call' = "none" \/ (call' = call /\ Len(results') < MaxCalls /\ ~Killed')
  <2>1. CASE UNCHANGED <<call, results>>
    BY <1>1, <1>2, <2>1, LayoutConstants DEF IInv, LayoutTypeOK, Alive, Killed, AllTrue
  <2>2. CASE Return("false")
    BY <1>1, <1>2, <2>2, Returned DEF IInv
  <2>3. CASE Return("killed")
    BY <1>1, <1>2, <2>3, Returned DEF IInv
  <2>4. QED
    BY <1>6, <2>1, <2>2, <2>3
<1>8. LayoutTypeOK'
  <2>1. pos' \in 0..size' /\ whole' \in Nat
    BY <1>1, <1>2, <1>3, <1>6 DEF Available, HeaderSize
  <2>2. used' \in {"none", "own", "stale", "beyond"}
    BY <1>1 DEF Made
  <2>3. call' \in {"none", "readHeaders", "read"}
    BY <1>7 DEF IInv, LayoutTypeOK
  <2>4. QED
    BY <1>1, <1>5, <1>7, <2>1, <2>2, <2>3 DEF IInv, LayoutTypeOK
<1>9. BufferHolds'
  <2>1. Return("killed") => Killed'
    BY <1>1, Returned DEF IInv
  <2>2. QED
    BY <1>3, <1>5, <1>6, <2>1 DEF BufferHolds
<1>10. InStep'
  <2> SUFFICES ASSUME ~unframed
               PROVE  \E i \in 1..Len(chart) + 1 :
                        Starts[chart][i] = pos' /\ (~Killed' => i = whole' + 1)
    BY <1>1 DEF InStep
  <2>1. whole + 1 \in 1..Len(chart) /\ Starts[chart][whole + 2] = pos'
    <3>1. /\ whole + 1 \in 1..Len(chart)
          /\ Starts[chart][whole + 2] = pos + SizeOf(r)
      BY <1>2, NextRecord
    <3>2. pos + SizeOf(r) = pos'
      <4>1. pos' = (pos + HeaderSize) + n /\ SizeOf(r) = HeaderSize + n
        BY <1>1, <1>4
      <4> HIDE DEF n
      <4> QED
        BY <1>2, <1>3, <4>1 DEF HeaderSize
    <3>3. QED
      BY <3>1, <3>2
  <2>2. ~Killed' => whole' = whole + 1
    <3>1. Return("killed") => Killed'
      BY <1>1, Returned DEF IInv
    <3>2. QED
      BY <1>6, <3>1
  <2>3. whole + 2 \in 1..Len(chart) + 1
    BY <1>2, <2>1
  <2>4. ~Killed' => whole + 2 = whole' + 1
    BY <1>2, <2>2
  <2>5. QED
    BY <2>1, <2>3, <2>4
<1>11. ASSUME ~unframed
       PROVE  /\ whole + 1 \in 1..Len(chart) /\ r = chart[whole + 1]
              /\ Payload(r) = n
              /\ \A j \in 1..Len(chart) : j <= whole => Payload(chart[j]) <= allocated
  <2>1. whole + 1 \in 1..Len(chart) /\ r = chart[whole + 1]
    BY <1>2, <1>11, NextRecord
  <2>2. Payload(r) = n
    BY <1>3, <1>4 DEF Payload, HeaderSize
  <2>3. QED
    BY <1>2, <1>11, <2>1, <2>2 DEF IInv, RoomForAll
<1>12. ASSUME ~unframed, allocated' = bufferSize'
       PROVE  \A j \in 1..(whole + 1) : Payload(chart[j]) <= allocated'
  <2>1. n <= allocated' /\ allocated <= allocated'
    BY <1>1, <1>5, <1>12
  <2>2. TAKE j \in 1..(whole + 1)
  <2>3. CASE j = whole + 1
    BY <1>11, <1>12, <2>1, <2>3
  <2>4. CASE j <= whole
    <3>1. j \in 1..Len(chart)
      BY <1>2, <1>11, <1>12, <2>4
    <3>2. Payload(chart[j]) <= allocated /\ Payload(chart[j]) \in Nat
      BY <1>2, <1>11, <1>12, <2>4, <3>1, SizesOf
    <3>3. QED
      BY <1>5, <2>1, <3>2 DEF IInv, LayoutTypeOK
  <2>5. QED
    BY <1>2, <2>3, <2>4
<1>13. ~Killed' => allocated' = bufferSize' /\ whole' = whole + 1
  <2>1. Return("killed") => Killed'
    BY <1>1, Returned DEF IInv
  <2>2. QED
    BY <1>3, <1>5, <1>6, <2>1
<1>14. RoomForAll'
  BY <1>1, <1>2, <1>12, <1>13 DEF RoomForAll
<1>15. OwnBytes'
  <2> SUFFICES ASSUME ~unframed PROVE OwnBytes'
    BY <1>1 DEF OwnBytes
  <2>1. allocated' = bufferSize' \/ TooLarge(r)
    BY <1>3, <1>5, <1>11 DEF TooLarge
  <2>2. used' = "stale" => whole' = whole + 1 /\ TooShort(r)
    <3> SUFFICES ASSUME used' = "stale" PROVE whole' = whole + 1 /\ TooShort(r)
      OBVIOUS
    <3>1. r.needs > n /\ r.needs <= allocated'
      BY <1>1 DEF Made
    <3>2. QED
      BY <1>3, <1>4, <1>5, <1>6, <1>11, <3>1 DEF TooShort
  <2>3. used' = "beyond" /\ ~TooLarge(r) => r.needs > allocated'
    <3> SUFFICES ASSUME used' = "beyond", ~TooLarge(r) PROVE r.needs > allocated'
      OBVIOUS
    <3>1. n <= allocated'
      BY <1>1, <1>5, <2>1
    <3>2. QED
      BY <1>1, <1>3, <1>4, <1>5, <3>1 DEF Made
  <2>4. Killed' => used' = "beyond" \/ TooLarge(r)
    <3> SUFFICES ASSUME Killed', ~TooLarge(r) PROVE used' = "beyond"
      OBVIOUS
    <3>1. Return("killed") /\ ((allocated' = 0 /\ n + r.needs > 0) \/ used' = "beyond")
      <4>1. UNCHANGED <<call, results>> => ~Killed'
        BY <1>2 DEF Killed
      <4>2. Return("false") => ~Killed'
        BY <1>1, <1>2, Returned DEF IInv
      <4>3. QED
        BY <1>6, <4>1, <4>2
    <3>2. CASE allocated' = 0 /\ n + r.needs > 0
      <4>1. n <= allocated'
        BY <1>1, <1>5, <2>1
      <4>2. n = 0 /\ r.needs > 0
        BY <1>3, <1>4, <3>2, <4>1
      <4>3. Made(r, n) = "beyond"
        BY <1>4, <3>2, <4>2 DEF Made
      <4>4. QED
        BY <1>1, <4>3
    <3>3. QED
      BY <3>1, <3>2
  <2>5. used' = "beyond" \/ Killed' => ReadBeyond(whole)
    <3> SUFFICES ASSUME used' = "beyond" \/ Killed', ~TooLarge(r) PROVE ReadBeyond(whole)
      BY <1>2, <1>11 DEF ReadBeyond
    <3>1. r.needs > allocated' /\ allocated' = bufferSize'
      BY <2>1, <2>3, <2>4
    <3>2. \A j \in 1..(whole + 1) : Payload(chart[j]) <= allocated'
      BY <1>12, <3>1
    <3>3. \A j \in 1..(whole + 1) : Payload(chart[j]) \in Int
      <4>1. \A j \in 1..(whole + 1) : j \in 1..Len(chart)
        BY <1>2, <1>11
      <4>2. QED
        BY <1>2, <4>1, SizesOf
    <3>4. LongestYet(whole + 1)
      BY <1>4, <1>5, <1>11, <3>1, <3>2, <3>3, LayoutConstants DEF LongestYet
    <3>5. QED
      BY <1>2, <1>11, <3>4 DEF ReadBeyond
  <2>6. used' = "stale" => ReadShort(whole')
    BY <1>2, <1>11, <2>2 DEF ReadShort
  <2>7. ReadBeyond(whole) => ReadBeyond(whole')
    BY <1>2, <1>6 DEF ReadBeyond
  <2>8. QED
    BY <1>1, <2>5, <2>6, <2>7 DEF OwnBytes, ReadShort, ReadBeyond, LongestYet
<1>16. QED
  BY <1>1, <1>2, <1>7, <1>8, <1>9, <1>10, <1>14, <1>15 DEF IInv, Alive, TrueAtHeader

-----------------------------------------------------------------------------
\* Nothing happens.
LEMMA Stutter == IInv /\ UNCHANGED vars => IInv'
<1> SUFFICES ASSUME IInv, UNCHANGED vars PROVE IInv'
  OBVIOUS
<1>1. UNCHANGED <<chart, size, pos, ended, allocated, bufferSize, call, results, whole,
                  unframed, used>>
  BY DEF vars, streamVars, bufferVars
<1>2. (Killed' <=> Killed) /\ (AllTrue' <=> AllTrue)
  BY <1>1 DEF Killed, AllTrue
<1>3. LayoutTypeOK' /\ Alive' /\ BufferHolds'
  BY <1>1, <1>2 DEF IInv, LayoutTypeOK, Alive, BufferHolds
<1>4. InStep' /\ TrueAtHeader'
  BY <1>1, <1>2 DEF IInv, InStep, TrueAtHeader
<1>5. OwnBytes' /\ RoomForAll'
  <2>1. whole' \in Nat /\ whole' >= whole
    BY <1>1 DEF IInv, LayoutTypeOK
  <2>2. QED
    BY <1>1, <1>2, <2>1, ReasonsStay DEF IInv, RoomForAll
<1>6. QED
  BY <1>3, <1>4, <1>5 DEF IInv

\* IInv holds in every state: the framing and the buffer keep in step.
THEOREM LayoutInvariance == Spec => []IInv
<1>1. IInv /\ [Next]_vars => IInv'
  <2> SUFFICES ASSUME IInv, [Next]_vars PROVE IInv'
    OBVIOUS
  <2>1. CASE Begin("readHeaders") \/ Begin("read")
    BY <2>1, BeginKeeps
  <2>2. CASE EndOfStream
    BY <2>2, EndKeeps
  <2>3. ASSUME NEW r \in Headers, StopAtHeader(r)
        PROVE  IInv'
    BY <2>3, StopKeeps
  <2>4. ASSUME NEW r \in Headers, ReadPayload(r)
        PROVE  IInv'
    <3>1. ShortRead(PayloadLength(r)) \/ FullRead(r, PayloadLength(r))
      BY <2>4 DEF ReadPayload
    <3>2. QED
      BY <2>4, <3>1, ShortKeeps, FullKeeps
  <2>5. CASE UNCHANGED vars
    BY <2>5, Stutter
  <2>6. QED
    BY <2>1, <2>2, <2>3, <2>4, <2>5 DEF Next
<1>2. QED
  BY Start, <1>1, PTL DEF Spec

\* Every variable keeps its type; nothing is read past the end of the stream.
THEOREM LayoutTypeCorrect == Spec => []LayoutTypeOK
<1>1. IInv => LayoutTypeOK
  BY DEF IInv
<1>2. QED
  BY <1>1, LayoutInvariance, PTL

\* Record headers are read where records start (ChartFile::ingest200).
THEOREM KeepsFraming == Spec => []Framed
<1>1. IInv => Framed
  BY DEF IInv, InStep, Framed
<1>2. QED
  BY <1>1, LayoutInvariance, PTL

\* getBuffer's block is as large as bufferSize says whenever it is read into.
THEOREM BufferIsThere == Spec => []BufferHolds
<1>1. IInv => BufferHolds
  BY DEF IInv
<1>2. QED
  BY <1>1, LayoutInvariance, PTL

\* Bytes that are not a record's own are used only for a record that is too
\* short, and bytes behind the block only for one longer than all before it.
THEOREM DecodesOwnBytes == Spec => []OwnBytes
<1>1. IInv => OwnBytes
  BY DEF IInv
<1>2. QED
  BY <1>1, LayoutInvariance, PTL

\* read returns true at the end of a stream that is cut within a record header
\* or between two records, and within no payload.
THEOREM CutPayloadsAreSeen == Spec => []TrueAtHeader
<1>1. IInv => TrueAtHeader
  BY DEF IInv
<1>2. QED
  BY <1>1, LayoutInvariance, PTL

\* After a stream has failed every call returns true and reads nothing.
THEOREM NothingAfterEnd == Spec => TrueOnceEnded
<1>1. IInv /\ [Next]_vars =>
        [ended => UNCHANGED <<pos, bufferVars, whole, used>>
                  /\ (results' # results => Last(results') = "true")]_vars
  <2> SUFFICES ASSUME IInv, Next, ended
               PROVE  /\ UNCHANGED <<pos, bufferVars, whole, used>>
                      /\ results' # results => Last(results') = "true"
    OBVIOUS
  <2>1. CASE Begin("readHeaders") \/ Begin("read")
    BY <2>1 DEF Begin
  <2>2. CASE EndOfStream
    <3>1. results' = Append(results, "true") /\ results \in Seq({"true", "false", "killed"})
      BY <2>2 DEF EndOfStream, Return, IInv, LayoutTypeOK
    <3>2. Last(results') = "true"
      BY <3>1 DEF Last
    <3>3. QED
      BY <2>2, <3>2 DEF EndOfStream
  <2>3. QED
    BY <2>1, <2>2 DEF Next, StopAtHeader, ReadPayload, HeaderMissing
<1>2. QED
  BY <1>1, LayoutInvariance, PTL DEF Spec, TrueOnceEnded
=============================================================================
