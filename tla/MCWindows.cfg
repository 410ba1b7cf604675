SPECIFICATION Spec
CONSTANTS
  Client = {c1, c2}
  Server = {s1, s2}
  Name = {n1, n2}
  PipeNames <- AnyNames
  NoName = NoName
  NoServer = NoServer
  NoClient = NoClient
  FlagChoices <- AnyFlags
  Polls = {0, 2}
  MaxCalls = 2
  Faults = {"crash", "create", "share"}
SYMMETRY Symmetry
\* All objects are destroyed.
CHECK_DEADLOCK FALSE
INVARIANTS
  HandlesAccounted
  EndsAgree
