SPECIFICATION FairControlSpec
CONSTANTS
  Client = {c1, c2}
  Server = {s1}
  ReturnPipe = {r1, r2}
  StaleFifo = StaleFifo
  NoFile = NoFile
  PlainFile = PlainFile
  NoClient = NoClient
  NoMessage = NoMessage
  NoChild = NoChild
  Faults = {}
  FlagChoices <- AnyFlags
  Timeouts = {1}
  PollsPerSecond = 1
  MaxCalls = 1
  OpenUnready = FALSE
CHECK_DEADLOCK FALSE
PROPERTY
  DontBlockOnDeadPipe
