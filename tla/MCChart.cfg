SPECIFICATION StreamSpec
CONSTANTS
  Record <- AllRecords
  Field <- Fields
  Attribute <- Attributes
  Index <- Indices
  NoValue = NoValue
  MaxTaken = 6
  MaxCalls = 2
\* All calls are made.
CHECK_DEADLOCK FALSE
INVARIANTS
  ChartTypeOK
  ResultTells
  HeaderFromRecords
  ObjectsFromRecords
  LinesFromLastRead
  OneProjection
PROPERTIES
  HeadersLeaveObjects
