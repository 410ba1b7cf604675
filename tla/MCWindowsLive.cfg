SPECIFICATION MCFairSpec
CONSTANTS
  Client = {c1, c2}
  Server = {s1}
  Name = {n1}
  PipeNames <- Default
  NoName = NoName
  NoServer = NoServer
  NoClient = NoClient
  FlagChoices <- Starts
  Polls = {2}
  MaxCalls = 1
  Size = 2
  MaxWrite = 5
  MaxSent = 6
  MaxEmpty = 3
  Junk = Junk
  Faults = {"crash", "create", "share"}
\* All objects are destroyed, or the answer is read.
CHECK_DEADLOCK FALSE
INVARIANTS
  BytesOfAnswer
PROPERTIES
  ReachesEof
  CallsReturn
  ServersFreed
