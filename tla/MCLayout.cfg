SPECIFICATION Spec
CONSTANTS
  Record <- Records
  Charts <- SomeCharts
  Starts <- SomeStarts
  Word = 230
  Memory = 220
  MaxCalls = 2
\* All calls are made.
CHECK_DEADLOCK FALSE
INVARIANTS
  Framed
  BufferHolds
  OwnBytes
  TrueAtHeader
