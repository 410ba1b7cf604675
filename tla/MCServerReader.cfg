SPECIFICATION Spec
CONSTANTS
  Client = {c1, c2}
  Server = {s1, s2}
  ReturnPipe = {r1, r2, r3}
  StaleFifo = StaleFifo
  NoFile = NoFile
  PlainFile = PlainFile
  NoClient = NoClient
  NoMessage = NoMessage
  Faults = {"crash", "fopen", "names"}
SYMMETRY Symmetry
\* A client whose server is gone may wait for ever.
CHECK_DEADLOCK FALSE
INVARIANTS
  TypeOK
  FilesAccounted
  MessagesAwaited
  ReturnPipeNamedOnce
  AnswersOwnRequest
PROPERTIES
  KeepsPromise
