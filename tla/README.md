# oesenc in TLA+

TLA+ modules, TLC configurations and TLAPS proofs for liboesenc, the C++
library that reads encrypted nautical charts (`.oesu`, `.oesenc`) with the help
of the proprietary process `oexserverd`. Paths below are relative to the
repository; `servercontrol.cpp:172` is line 172 of that file in `src/`.

## The system

A program that uses the library does four things, in this order
(`examples/oesu_example.cpp`): it looks up the chart's key, makes sure that an
`oexserverd` is running, asks it through a pipe to decrypt the chart, and
decodes the stream of records it gets back.

| Component | State | Operations |
|---|---|---|
| `ServerControl` | `m_leaveServerRunning`, `m_oexserverdPid` or `m_processInfo`, the pipe's name | constructor, `isReady`, `waitUntilReady`, destructor |
| `ServerReader` (Linux) | none of its own: the FIFOs in `/tmp`, one `InputStream` per request | `request`, `openOesu`, `openOesenc` |
| `ServerReader` (Windows) | one pipe handle and a `PipeBuffer` per request | the same, and `underflow` |
| `oexserverd` (not in the repository) | the pipe it reads, the request it executes | take a message, answer it, exit |
| `ChartFile` | header fields, `m_extent`, `m_s57`; the tables, the buffer and `s57` of the call | `readHeaders`, `read` |
| `S57` | type, attributes, geometries, line elements | setters, getters, `buildGeometry`, `buildGeometries` |
| `KeyListReader` | none | `readOesuKeys`, `readOesencKey` |
| `Rect`, `Position` | two positions and `m_valid` | copies, setters, `intersects`, `contains`, `center` |
| `OpenCPN::fromSimpleMercator` | none | projection |

How they interact. On Linux every `ServerControl` object on the machine, and
every stream, uses the one FIFO `/tmp/OCPN_PIPEX`. A request makes a private
return FIFO `/tmp/oesenc_<random>`, writes its path and a command into the
well-known FIFO and opens the return FIFO for reading; a server that reads the
message opens it for writing. The well-known path, the FIFOs' contents and the
servers are therefore shared by processes that know nothing of each other. On
Windows each object has a named pipe of its own choice, one handle is both ends
of a request, and handles are closed by hand. That is where the hard behaviour
is:

- `isReady` looks whether somebody reads the FIFO (`isPipeOpenedByReader`) and
  then opens it again in `request`; the world may change in between;
- `fopen` on a FIFO nobody reads blocks; a write to one raises `SIGPIPE`;
- two constructors may fork two servers, and any destructor may stop the server
  everybody uses;
- servers crash with messages in the pipe or in hand;
- `WriteFile` fails, or a constructor's server is left running, and a handle
  stays open; a server splits its answer into any writes, empty ones among them;
- `ChartFile` reads a stream that can hold any records and end anywhere, twice
  if the user calls twice, and a record's meaning depends on those before it;
- a record's length is any 32-bit number, one buffer holds the payloads of all
  records, and `realloc` may fail;
- files come in the order of `directory_iterator`, which is none.

What makes each component correct:

- `ServerReader`: an answer reaches the client that asked; a request is executed
  at most once, with the command asked for; return FIFOs and handles are not
  left behind and not shared; a request in front of a live server is answered;
  the reader gets the bytes of the answer.
- `ServerControl`: calls return; a server that answers is reused and is stopped
  only by a destructor that should stop it.
- `ChartFile`: the result tells whether the chart was accepted; every attribute
  and geometry belongs to the right object; positions have one reference;
  records are found where they start and decoded from their own bytes.
- `S57`: no line element is lost; elements in order make one line, separate
  rings separate ones; direction is respected; codes and attributes are not
  taken for each other.
- `KeyListReader`: the keys are those of one list, whatever else lies there.
  `Rect`: `contains`, `intersects` and `center` agree.

The hazards of `PROJECT.json` list these at their lines with the properties
that cover them. Three have a note in place of a property: a destructor that comes
before its server listens (`servercontrol.cpp:91`), a `read` after `readHeaders` on
one stream (`chartfile.cpp:265`) and the chart given as bytes (`chartfile.cpp:64`).
There the code always does what one would not expect, and no document, comment or
test of the repository says otherwise, so there is nothing to hold it against.

## Modules

    Request  <== ServerReader  <-- ServerControl     Linux: what a request
        ^             ^                  ^           promises, requests, objects
        +--- ServerReader_proofs <-- ServerControl_proofs
    WindowsControl <-- Windows_proofs                Windows: objects, requests
    PipeBuffer    <---+                              and the bytes of an answer
    ChartFile     <-- ChartFile_proofs               records: their values
    RecordLayout  <-- RecordLayout_proofs            records: their bytes
    S57Lines      <-- S57Lines_proofs                buildGeometries
    S57Object     <-- Parts_proofs                   codes and attributes
    KeyListReader <---+                              the keys of a chart
    Rect          <---+                              rectangles
    Lemmas                                           for several proof modules
    MC...         for TLC; MCParts and MCWindowsLive put modules side by side

`<--` is EXTENDS, `<==` an INSTANCE with a refinement mapping.

### ServerReader

One action per system call of `request` that other processes can come between.
`step[c]` is the program counter of client `c`:

| `step` | action | code |
|---|---|---|
| `check` | `CheckPipe` | `exists`, `is_fifo` (serverreader.cpp:103) |
| `mkfifo` | `CreateReturnPipe` | `createReturnPipe` (80-111) |
| `open`, `blocked` | `OpenPipe`, `OpenFails` | `fopen` (113-117) |
| `send` | `Send` | `fwrite`, and the flush in `fclose` (119-125) |
| `await` | (the server's `OpenReply`) | the constructor of `InputStream` (126) |
| `stream` | `Close` | `~InputStream` (68-71) |
| `null`, `killed` | `SeeNull`, none | `return {}`; `SIGPIPE` |

The kernel and oexserverd are external. A FIFO's data goes with its last
descriptor (`Kept`); a FIFO inode keeps its identity when its path is removed,
so that the servers of an old inode and of a new one are told apart. A message
of 1025 bytes is no longer than `PIPE_BUF` and is written at once. A server is
forked, detaches from the launcher, opens or makes the well-known FIFO, takes
one message at a time, and may crash anywhere (`Faults`). `left` is a history
variable: the return FIFOs a request gave up on. The initial state includes a
FIFO left by an earlier server (`StaleFifo`), which is what the test
`DontBlockOnDeadPipe` sets up.

### Request

What `request` promises, without FIFOs, files or messages: it is put together
(`asking`), is `sent`, and may then be answered by one server that executes the
command asked for (`partial`, then `full` or `short`); or it is `refused` (null)
or its process is `killed`. ServerReader implements it: `Phase` maps `step` and
`reply` of a client to a phase, `Serving` a server's peer and job to the request
it serves, and `KeepsPromise` is the specification of Request under this mapping.
A server that takes a message whose sender is gone serves nobody.

### ServerControl

Extends ServerReader with one object per client. `life[c]` is the call the
object executes; `Probe` and `Answer` are the two halves of `isReady` and
`requestServerToExit` around the request; `Return` does what the caller of
either does with the result: the constructor forks or not, `waitUntilReady`
tries again, the destructor goes on to `wait`. The user may open a chart
between calls (`OpenChart`, `ChartDone`). `polls` counts the checks
`waitUntilReady` has left: five for each second of its timeout.

Two properties tell what the looks at the pipe are good for. Where no server exits,
they keep every request from a dead FIFO (`RequestsReachAServer`). Where servers do
exit, `fopen("wb")` may put a regular file in the place of a FIFO that was removed
after `is_fifo` saw it: `FileOnlyAfterExit` says that this takes a destructor that
asked a server to exit, and neither a crash nor a stale FIFO nor a chart opened
where nothing listens.

### WindowsControl and PipeBuffer

WindowsControl is both classes under `OESENC_WINDOWS`, for the request there is
short: `CreateFile` (fails, and does not wait, when no server of that name
listens), `WriteFile` (a failure leaves the handle open), and the stream that
`Close` ends. Names are the default, one given, or one drawn by the constructor;
nobody looks whether a drawn name is in use (`"share"`). `CreateProcess` keeps
the handle of the process, which `Reap` closes after `WaitForSingleObject`.
`handles` counts what a process has open and `broken` the failed `WriteFile`s.

PipeBuffer is the stream buffer over one handle: `underflow` as the two readers
above it meet it, `istream::read` (`Read`) and the iterators of `readUntilEof`
(`Peek`, `Step`). The server splits its answer into writes of any length, empty
and longer than `m_buffer` included. `ReadFile` of an empty write returns true
with no bytes, and `underflow` then hands out the first byte of the buffer
without looking: `BytesOfAnswer` says exactly how many such bytes a reader is
given, and that there are none when no write is empty.

### ChartFile

One action per group of cases of `ingest200`: a record is read together with
its payload, is refused, ends the call, or is cut short by the end of the
stream. A record is a kind and the values in it. Positions that
`fromSimpleMercator` computes are kept with the extent they were computed with.
`taken` is a history of the records and of the begin and end of calls; the
properties say what the state should be as a function of that history.
`built` of an object holds what `buildGeometry` was called with.

### RecordLayout

The same loop as bytes. `EndOfStream`, `StopAtHeader` and `ReadPayload` are the
three things that can happen at a record header; `ReadPayload` computes
`record_length - sizeof(OSENC_Record_Base)` modulo `Word`, grows the buffer as
`getBuffer` does (to twice the length, or to nothing when `realloc` fails), reads,
and looks at as many bytes as the kind of record needs. `used` says whether these
were the record's own, left from an earlier record, or beyond the block. That payloads
are looked at without regard to their length is not forbidden, being what the code
does: `OwnBytes` says what comes of it on any chart, that old bytes are used only
for a record that is too short, and bytes behind the block only for one that needs
more than any payload so far, since the block never shrinks, or for one too large
for memory. A call that stops at a header (`readHeaders` at the first feature, a
refused record, the end record) leaves the payload in the stream: after that (`unframed`) the next
header may be any bytes. Payload sizes come from the packed structures of
`chartfile.h` and the loops of `ingest200` and `skipTessellationData`.

### S57Lines

`buildGeometries`: one action per iteration of its two loops. `Join` is the
inner loop over the line strings, `Geometry` the drawing of one. The second
pass of an area (`m_polygonLineElements`) is the same function. `Runs` is what the
rings of the object are: a run begins where an element does not continue the one
before it, and the i-th run at the place of rank i among those (`Begin`).

### S57Object, KeyListReader and Rect

S57Object has the two tables of codes, every row of them, and the three kinds of
value under which attributes are kept and asked for; lists are not kept, as in
the code. KeyListReader reads key files one by one in any order and one Chart
element at a time, and the lines of `Chartinfo.txt`; an element is a name and a
key, or lacks one. Rect has the constructors, the copy that sets `m_valid`, the
assignment that does not, the setters that take a float for a double (on the grid
every other integer is a float), and the three predicates.

## Runs

Bounds are in the `.cfg` files. Under the same bounds TLC also finds each
property of a run violated when one definition of the code is replaced by a
mutant; the mutants stand next to the definitions they change.

| Run | Instance | Shows |
|---|---|---|
| reader | 2 clients, 2 servers, 3 names, all faults, symmetry | `TypeOK`, `FilesAccounted`, `MessagesAwaited`, `ReturnPipeNamedOnce`, `AnswersOwnRequest`, and that ServerReader implements Request (`KeepsPromise`) |
| control_live | 2 objects that leave the server running, with one call each, or one object alone with any flags and 3 calls; 2 servers, timeouts 0 and 1, no faults, fairness | `RequestsReachAServer`, `CallsReturn`, `ReusesServer`, `StopsServer` |
| control_pair | 2 objects, 2 servers, all flags and faults, charts opened without a ready server | `ControlTypeOK`, `ExitOnlyFromDestructor`, `FileOnlyAfterExit`, and that ServerControl implements `Spec` of ServerReader |
| windows | 2 objects, 2 servers, 2 names, any names and flags, all faults, symmetry | `HandlesAccounted`, `EndsAgree` |
| windows_live | 2 objects share 1 server that may crash, fairness; beside them an answer of up to 6 bytes in writes of up to 5 through a buffer of 2 | `CallsReturn`, `ServersFreed`; `BytesOfAnswer`, `ReachesEof` |
| chart | 2 calls on streams of header records, of objects, or of tables: 5, 5 and 6 records and marks of calls | `ChartTypeOK`, `ResultTells`, `HeaderFromRecords`, `ObjectsFromRecords`, `LinesFromLastRead`, `OneProjection`, `HeadersLeaveObjects` |
| layout | 2 calls on charts of up to 3 records with right, short and wrapping lengths, cut at every byte; memory for 220 bytes | `Framed`, `BufferHolds`, `OwnBytes`, `TrueAtHeader` |
| lines | up to 4 elements between 4 nodes, or 2 of any kind over any tables | `ChainIsOneLine`, `ElementsKept`, `RunsStayApart`, `DrawnTwiceOnlyIfBridging`, `DrawnBackwards` |
| parts | 2 key files of up to 3 Charts, or 3 lines; 2 rectangles and 2 operations on each; 3 records of objects | `KeysAsListed`, `EdgesAsGiven`, `PredicatesAgree`, `ObjectsAsRecorded` |
| control_reap, control_dead_pipe, control_open | 1 or 2 objects | one statement each of the repository, violated (below) |

Where modules stand side by side in one run (MCWindowsLive, MCParts) they share
no variable and a behaviour shows one of them only, chosen by `shown`.

Why the bounds are enough to be interesting: two clients and two servers give
every pair of roles in a race (two constructors, a probe and a destructor, two
servers on one inode, an old inode and a new one); three names let a stale one
and two live ones meet; two names on Windows let objects share a pipe or not. A
buffer of two bytes under a write of five is refilled twice and has an odd byte
left; three empty writes make the difference between the two readers visible.
Four elements over four nodes contain a line, a ring, a ring that goes on, two
rings and a bridge between two lines. Two calls and four records between their
marks contain a feature of each call with a record of its own, an extent before
and after a table, and a failure after a success. Charts of three records hold a
small record after a large one (stale bytes), one shorter than what it holds, one
that does not fit in memory, one whose length wraps around, and an end anywhere. Two files and three Charts
have a damaged list beside a good one and a name that comes twice.

Deadlock checking is off in all runs: a client whose Linux server is gone may
wait for ever; elsewhere all calls are made, all objects destroyed, all records
or files read.

### Disagreements with the repository's own words

Three runs each find one statement violated:

- control_reap: `servercontrol.cpp:199-200` says the forked process has already
  exited where `wait(nullptr)` is called; an object destroyed early enough waits
  for it.
- control_dead_pipe: the test `DontBlockOnDeadPipe` asks that `isReady` return
  on a pipe nobody reads. With a second object whose destructor stops the server
  between the look and the `fopen`, it blocks. `control_live` shows that this
  needs a destructor that stops a server another object uses: without one
  `RequestsReachAServer` holds.
- control_open: the README and the examples test the stream `openOesu` returns
  for null, the example after a failed `waitUntilReady`; on a dead FIFO `openOesu`
  does not return, for it takes no look at the pipe at all.

### Fairness

`UndisturbedSpec` of control_live assumes weak fairness of what a call does by
itself (`Running`: a thread that can run does run), of each server's steps
(oexserverd keeps reading its FIFO and answering) and of `ChartDone` (the owner of
a stream reads it to its end and drops it: without that a server may wait for
ever on a full return FIFO). The user need not call anything. Faults are off
there: after a crash a client may wait for ever, by design of the protocol.
`fork` may fail all the same.

On Windows the same three are assumed, and servers do crash: a read from a pipe
whose server is gone fails, `CreateFile` does not wait, and the destructor waits
for five seconds at most, so that calls return all the same. Of PipeBuffer only
the reader is fair (`Read`, `Peek`, `Step`); a server need neither write nor
close, and `ReachesEof` speaks of one that has.

## Proofs

All for any values of the constants, any faults and any number of steps; the
only assumptions are those named in the modules (`ConstantsDistinct`,
`ControlConstants`, `WindowsConstants`, `ChartConstants`, `LayoutConstants`,
`LinesConstants`, `RectConstants`, `BufferConstants`, `KeyListConstants`,
`ObjectConstants`), which give the constants their types, say that model values
differ, and, in `LayoutConstants`, that `Starts` is where the records of a chart
start. One theorem has an assumption of its own, `NothingExits`.

- `ServerReader_proofs`. The inductive invariant `IInv` adds to the checked
  properties what they need: `Connected` (which state of a server has a FIFO
  open, a job, a peer), `Opened` (a client has the FIFO it writes to open
  exactly while it sends) and `OwnsName` (a request has a return FIFO exactly
  while it holds one). Names are handed out only when unused, so those of
  requests in progress differ (`FilesAccounted`); hence messages under way name
  different FIFOs and their senders still wait (`MessagesAwaited`,
  `ReturnPipeNamedOnce`); hence the client that opens the FIFO a server answers
  on is the sender (`AnswersOwnRequest`). The lemmas follow that order.
  `ReaderKeepsPromise`: with `IInv` and one more fact, that a client holding its
  stream has been sent something (`StreamAnswered`), every step of the FIFO
  protocol is a step of Request or leaves its variables alone. That no request is
  executed twice rests on `ReturnPipeNamedOnce`, and that the command is the right
  one on `AnswersOwnRequest`.
- `ServerControl_proofs`. `ControlImplementsReader`: every step of an object is
  a step of a request or changes nothing of it. So `ControlIsolation`, and with
  it everything proved of ServerReader, holds of the objects. `ObjectInv` adds
  that a request in progress is the one its object's call makes (`InCall`) and
  that a server told to exit still has somebody at the other end
  (`ExitAnswered`); `ExitIsAsked` follows from both and from
  `MessagesAreAwaited`. `FileFollowsExit` proves `FileOnlyAfterExit` by following how
  a file gets there (`TakenAway`): until a destructor has asked, no server is exiting,
  so no path that `is_fifo` has seen goes away; and a destructor is never undone
  (`ToldForEver`). `RequestsArrive` proves `RequestsReachAServer` under
  `NothingExits` (all objects leave the server running, users open charts only
  when it is ready, no crash and no failing `fopen`: the two objects of
  control_live), with the invariant `Reached`: every server that listens reads
  the FIFO the path names, and whoever got past the look at the pipe can rely on
  it. control_dead_pipe shows that the assumption is needed.
- `Windows_proofs`. `HandlesAccounted` and `EndsAgree` are inductive
  together with the types and `InCall` (which call makes which request, and that
  only a destructor told to stop the server comes to wait for it). The count of
  handles is an integer in the induction; that no handle is closed that is not
  open (`WindowsTypeCorrect`) then follows from `HandlesAccounted`.
  `AnswerArrives` is `BytesOfAnswer` of PipeBuffer, for a buffer and writes of any
  size. The invariant (`BufferInv`) says of the `d` bytes read from the pipe so far
  that the writes in it go on after them without a gap (`Fed`), that the get area
  is the last of them and the rest of `m_buffer` older (`Kept`), and how many bytes
  the reader was given beyond those it has passed: one for each empty write, or for
  every second one where iterators read (`Counted`).
- `ChartFile_proofs`. The types, by numbering the objects without a gap, and
  `HeadersLeaveObjects`, because `s57` is null throughout `readHeaders`.
  `Understanding` is the invariant about the history `taken`: its places are
  numbered, every nonempty set of places has a last (`HasLast`, kept as an
  invariant because the history grows by one record at a time), and a call in
  progress has accepted all it has met since it began (`Accepting`). From it
  `AnswersTell` and `HeadersAreRead` follow. `PositionsShareExtent` proves
  `OneProjection` from three more: what objects and tables look like (`Shaped`),
  a position that is set was read from a record (`PositionsRead`), and while every
  extent comes before every record of positions, all of them are relative to the
  extent the user is told (`Projected`).
  `ObjectsHoldRecords` proves `ObjectsFromRecords`: the k-th object belongs to the
  feature record of rank k (`Features`), and one that is not current has had the
  next feature or the next call after it, so that its records are complete (`Held`,
  `OwnGrows`). `LinesHoldRecords` proves `LinesFromLastRead` from one more part,
  `Tabled`: the tables of a call in progress are those of the records since it
  began, and the object that records go to is younger than every read that has
  built lines, so that a change to it never makes built lines stale.
- `RecordLayout_proofs`. `Framed`, `BufferHolds`, `OwnBytes` and `TrueAtHeader` for
  any charts, any `Word` and `Memory`, and streams cut anywhere. The invariant
  ties the position to the number of records read (`InStep`), says that a call in
  progress was not killed (`Alive`), and that until the stream fails the block has
  room for every payload read so far (`RoomForAll`): so a record that reaches behind
  it needs more than all of them. The key lemma is `Lengths`: a length
  that wraps around is negative for `istream::read`. `NothingAfterEnd` is the
  action property that a stream which failed gives `true` and nothing else.
- `S57Lines_proofs`. All invariants but `DrawnBackwards`, with the types and `DrawnAsJoined` (what
  is drawn is what was joined) are inductive together; `Lengthened` and `Joined`
  say what `Join` does to a sequence of line strings.
  `RingsStayApart` proves `RunsStayApart`: an element that continues the one before
  it lengthens the last run and no other rank moves (`RunGoesOn`); one that does not
  begins a run (`RunBegins`). Runs that share no node after the step shared none
  before it, so the line strings were the runs, and the element fits its own run
  (`JoinsItsOwn`) or none (`JoinsNone`).
  `OnlyBridgesRepeat` proves `DrawnTwiceOnlyIfBridging`: two line strings that one
  element continues would end with the same element, for end nodes differ; that
  element connected two lines, so the new one starts where a line starts already,
  and start nodes differ too (`BridgingStep`).
  `DrawnEitherWay` proves `DrawnBackwards` of any line over any tables: drawing a
  line is flattening the ways of its elements (`GeometryOfWays`), the way of a
  turned element is the way reversed (`ElementBackwards`), and the mirror of a
  longer line begins with the turned element (`MirrorGoesOn`); then by induction
  on the length of the line (`LineBackwards`).
- `Parts_proofs`. `EdgesStayAsGiven` by induction over the operations of
  rectangles. `PredicatesAlwaysAgree` proves `PredicatesAgree` for coordinates of
  any size: where two rectangles overlap, a position half a unit inside the greater
  left and the greater bottom edge lies in both (`MeetingRectangles`).
  `KeysAreListed` proves `KeysAsListed` for any number of files, Charts and lines:
  no file that the loop has left has a good list (`Looking`), the list it parses is
  good so far and has given the keys there are (`Parsing`), no line it has passed
  matches (`Searching`).
  `ObjectsMirrorRecords` proves `ObjectsAsRecorded` for any number of records: the
  object of rank o has the type of its feature record and the last value of each
  attribute (`Mirrors`), and since no two rows of a table agree in one column only
  (`AttributesApart`, `TypesApart`), it answers for the codes of its own records.
- `Lemmas` has what these share: least and greatest numbers of a set, and the rank
  of a number in a set, by which features, objects and runs are numbered.

Induction over data is done through sets, not through the library's theorems over
operators, which the provers cannot instantiate: `Induction` says that a set of
natural numbers with 0 and with n + 1 for each n is all of them (from the
well-foundedness of <), and `SequenceInduction` the same of a set of sequences
closed under `Append`. `FlattenSeq` and `Reverse` of the community modules are
reasoned about by these and by their own definitions, which are recursive
functions.

`LinesTypeOK`, `LayoutTypeOK`, `WindowsTypeOK` and `TrueOnceEnded` are proved and
have no run of their own.

Every invariant, action property and refinement a passing run checks is a theorem.
Only model-checked is liveness: `CallsReturn`, `ReusesServer` and `StopsServer` of
control_live, and `CallsReturn`, `ServersFreed` and `ReachesEof` of windows_live.
It rests on fairness, that is on ENABLED, which is out of the prover's reach.

## Not modelled

- `OpenCPN::fromSimpleMercator`: a floating-point formula without state.
  `src/line.cpp`: dead code, its header does not exist. Examples, tests and the
  build.
- `randomAlphaNumericString`: ten draws in `createReturnPipe` are one choice, a
  name not in use or failure when names are in use (`"names"` in `Faults`).
- Time: `waitUntilReady` counts its checks, as the code does; the five seconds of
  the Windows destructor are a wait that may end at any moment.
- XML, regular expressions and the file system are external: what they return is
  in the model, how they do it is not.
- Initialisation order in the constructor of `ChartFile` from bytes: it is not a
  behaviour of the calls after it.
- `vectorEdgeDecimator`, a function of the user, is applied to the positions of an
  edge before they are kept: its result is the value of the table's entry.

## Plan

Modelled in this order, the behaviour that matters most first: ServerReader and
ServerControl, S57Lines and ChartFile; the abstract request; the bytes of records;
the Windows variant; keys, rectangles and attributes; and the proofs above. What
is left:

1. ServerReader's stream as the stream of ChartFile in one module, so that a
   server's crash within an answer and the `true` that `read` returns for it when
   it falls between two records (`TrueAtHeader`) are one behaviour.
2. Of liveness, the safety part that can be proved: a step that some process can
   always take while a call is in progress and nothing exits, and a rank that
   each such step makes smaller.
