SPECIFICATION ControlSpec
CONSTANTS
  Client = {c1}
  Server = {s1}
  ReturnPipe = {r1}
  StaleFifo = StaleFifo
  NoFile = NoFile
  PlainFile = PlainFile
  NoClient = NoClient
  NoMessage = NoMessage
  NoChild = NoChild
  Faults = {}
  FlagChoices <- StartFlags
  Timeouts = {1}
  PollsPerSecond = 1
  MaxCalls = 1
  OpenUnready = FALSE
CHECK_DEADLOCK FALSE
INVARIANT
  ForkAlreadyExited
