SPECIFICATION PartsSpec
CONSTANTS
  File = {f1, f2}
  Chart <- SomeCharts
  Key <- Keys
  None = None
  MaxLength = 3
  Object = {a, b}
  Coordinate <- Grid
  MaxSteps = 2
  Record <- Records
  Narrow <- Floats
  MaxRecords = 3
SYMMETRY Symmetry
\* The call has returned, all operations are done, the records end.
CHECK_DEADLOCK FALSE
INVARIANTS
  KeysAsListed
  EdgesAsGiven
  PredicatesAgree
  ObjectsAsRecorded
