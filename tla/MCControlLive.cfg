SPECIFICATION UndisturbedSpec
CONSTANTS
  Client = {c1, c2}
  Server = {s1, s2}
  ReturnPipe = {r1, r2}
  StaleFifo = StaleFifo
  NoFile = NoFile
  PlainFile = PlainFile
  NoClient = NoClient
  NoMessage = NoMessage
  NoChild = NoChild
  Faults = {}
  FlagChoices <- AnyFlags
  Timeouts = {0, 1}
  PollsPerSecond = 2
  MaxCalls = 3
  OpenUnready = FALSE
CHECK_DEADLOCK FALSE
INVARIANTS
  RequestsReachAServer
PROPERTIES
  CallsReturn
  ReusesServer
  StopsServer
