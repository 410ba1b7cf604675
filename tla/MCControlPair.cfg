SPECIFICATION ControlSpec
CONSTANTS
  Client = {c1, c2}
  Server = {s1, s2}
  ReturnPipe = {r1, r2}
  StaleFifo = StaleFifo
  NoFile = NoFile
  PlainFile = PlainFile
  NoClient = NoClient
  NoMessage = NoMessage
  NoChild = NoChild
  Faults = {"crash", "fopen", "names"}
  FlagChoices <- AnyFlags
  Timeouts = {1}
  PollsPerSecond = 1
  MaxCalls = 1
  OpenUnready = TRUE
CHECK_DEADLOCK FALSE
SYMMETRY Symmetry
INVARIANTS
  ControlTypeOK
  ExitOnlyFromDestructor
  FileOnlyAfterExit
PROPERTIES
  Spec
