---------------------------- MODULE ServerControl ----------------------------
(***************************************************************************)
(* ServerControl on Linux, one object per client: the constructor reuses a *)
(* server that answers or forks one, isReady and waitUntilReady ask whether*)
(* it answers, the destructor asks it to exit.  Between those calls the    *)
(* user opens charts with ServerReader::openOesu / openOesenc.  Requests   *)
(* are those of module ServerReader, interleaved with everybody else's.    *)
(***************************************************************************)
EXTENDS ServerReader

CONSTANTS
  FlagChoices,     \* the flags objects are built with: [start, leave : BOOLEAN]
  Timeouts,        \* the timeouts passed to waitUntilReady, in seconds
  PollsPerSecond,  \* 5 in the code: one second over checkInterval
  MaxCalls,        \* bound: calls a user makes on one object
  OpenUnready,     \* whether users open charts after waitUntilReady failed
  NoChild          \* m_oexserverdPid when nothing was forked, or fork failed

ASSUME ControlConstants ==
  /\ FlagChoices \subseteq [start : BOOLEAN, leave : BOOLEAN]
  /\ Timeouts \subseteq Nat
  /\ PollsPerSecond \in Nat \ {0}
  /\ MaxCalls \in Nat
  /\ OpenUnready \in BOOLEAN
  /\ NoChild \notin Server

VARIABLES
  flags,   \* the flags of each object; leave is m_leaveServerRunning
  life,    \* the call each object is executing
  polls,   \* checks waitUntilReady has left before its timeout
  child,   \* m_oexserverdPid
  ready,   \* what the last isReady or waitUntilReady returned to the user
  calls    \* calls made so far

controlVars == <<flags, life, polls, child, ready, calls>>
vars == <<readerVars, controlVars>>

Lives == {"unborn", "construct", "fork", "user", "isReady", "wait", "open",
          "destroy", "reap", "destroyed"}

ControlInit ==
  /\ Init
  /\ flags \in [Client -> FlagChoices]
  /\ life = [c \in Client |-> "unborn"]
  /\ polls = [c \in Client |-> 0]
  /\ child = [c \in Client |-> NoChild]
  /\ ready = [c \in Client |-> FALSE]
  /\ calls = [c \in Client |-> 0]

Enter(c, there) == life' = [life EXCEPT ![c] = there]

-----------------------------------------------------------------------------
(* The user's calls.                                                       *)

\* The constructor up to its first look at the pipe.
ForkAtOnce(c) ==   \* mutant: no look at whether a server is ready
  /\ life[c] = "unborn"
  /\ Enter(c, IF flags[c].start THEN "fork" ELSE "user")
  /\ UNCHANGED <<readerVars, flags, polls, child, ready, calls>>
Construct(c) ==
  /\ life[c] = "unborn"
  /\ Enter(c, IF flags[c].start THEN "construct" ELSE "user")
  /\ UNCHANGED <<readerVars, flags, polls, child, ready, calls>>

UserCalls(c) ==
  /\ life[c] = "user"
  /\ calls[c] < MaxCalls
  /\ calls' = [calls EXCEPT ![c] = @ + 1]
  /\ UNCHANGED <<flags, child>>

IsReady(c) ==
  /\ UserCalls(c)
  /\ Enter(c, "isReady")
  /\ UNCHANGED <<readerVars, polls, ready>>

\* The loop runs while passed < timeout, so a timeout of 0 checks nothing.
WaitUntilReady(c) ==
  /\ UserCalls(c)
  /\ \E timeout \in Timeouts :
       \/ /\ timeout = 0
          /\ ready' = [ready EXCEPT ![c] = FALSE]
          /\ UNCHANGED <<life, polls>>
       \/ /\ timeout > 0
          /\ Enter(c, "wait")
          /\ polls' = [polls EXCEPT ![c] = timeout * PollsPerSecond]
          /\ UNCHANGED ready
  /\ UNCHANGED readerVars

\* openOesu, openOesenc: the request starts without a look at the pipe.
OpenChart(c) ==
  /\ UserCalls(c)
  /\ ready[c] \/ OpenUnready
  /\ Enter(c, "open")
  /\ Call(c, "Read")
  /\ UNCHANGED <<polls, ready>>

\* openOesu returned null, or the user is done with the stream it returned.
ChartDone(c) ==
  /\ life[c] = "open"
  /\ SeeNull(c) \/ Close(c)
  /\ Enter(c, "user")
  /\ UNCHANGED <<flags, polls, child, ready, calls>>

\* The destructor up to requestServerToExit.
ExitAlways(c) ==   \* mutant: LeaveServerRunning is not looked at
  /\ life[c] = "user"
  /\ Enter(c, "destroy")
  /\ UNCHANGED <<readerVars, flags, polls, child, ready, calls>>
Destroy(c) ==
  /\ life[c] = "user"
  /\ Enter(c, IF flags[c].leave THEN "destroyed" ELSE "destroy")
  /\ UNCHANGED <<readerVars, flags, polls, child, ready, calls>>

-----------------------------------------------------------------------------
(* isReady, requestServerToExit and what their callers do with the result. *)

Probes == {"construct", "isReady", "wait", "destroy"}

\* Opening the path with O_WRONLY | O_NONBLOCK succeeds.
PipeExists == path # NoFile   \* mutant: only whether the path exists
IsPipeOpenedByReader == path = PlainFile \/ (path \in Fifo /\ HasReader(path))

\* waitUntilReady: the time that has passed, and whether it looks again.
TimeStandsStill(c, ok) == polls[c]   \* mutant: passed is not increased
PollsLeft(c, ok) == IF ok THEN 0 ELSE polls[c] - 1
OneMore(c, ok) == ~ok /\ polls[c] >= 1   \* mutant: passed <= timeout
PollsAgain(c, ok) == ~ok /\ polls[c] > 1

Return(c, ok) ==
  \/ /\ life[c] = "construct"
     /\ Enter(c, IF ok THEN "user" ELSE "fork")
     /\ UNCHANGED <<polls, ready>>
  \/ /\ life[c] = "isReady"
     /\ Enter(c, "user")
     /\ ready' = [ready EXCEPT ![c] = ok]
     /\ UNCHANGED polls
  \/ /\ life[c] = "wait"
     /\ polls' = [polls EXCEPT ![c] = PollsLeft(c, ok)]
     /\ IF PollsAgain(c, ok)
        THEN UNCHANGED <<life, ready>>
        ELSE Enter(c, "user") /\ ready' = [ready EXCEPT ![c] = ok]
  \/ /\ life[c] = "destroy"
     /\ Enter(c, "reap")
     /\ UNCHANGED <<polls, ready>>

OnlyTest(c) == "TestAvailability"   \* mutant: no request to exit
Asks(c) == IF life[c] = "destroy" THEN "Exit" ELSE "TestAvailability"

Probe(c) ==
  /\ life[c] \in Probes
  /\ step[c] = "out"
  /\ \/ /\ IsPipeOpenedByReader
        /\ Call(c, Asks(c))
        /\ UNCHANGED controlVars
     \/ /\ ~IsPipeOpenedByReader
        /\ Return(c, FALSE)
        /\ UNCHANGED <<readerVars, flags, child, calls>>

\* Mutant: the stream is not closed when the answer has been read.
LeakStream(c) ==
  /\ life[c] \in Probes
  /\ \/ SeeNull(c) /\ Return(c, FALSE)
     \/ /\ reply[c] \in {"full", "short"}
        /\ Goto(c, "out") /\ reply' = [reply EXCEPT ![c] = "none"]
        /\ UNCHANGED <<path, queue, files, left, cmd, ret, wfd, serverVars>>
        /\ Return(c, reply[c] = "full")
  /\ UNCHANGED <<flags, child, calls>>

\* readUntilEof, the comparison with "OK", and the end of the stream's scope.
Answer(c) ==
  /\ life[c] \in Probes
  /\ \/ SeeNull(c) /\ Return(c, FALSE)
     \/ /\ reply[c] \in {"full", "short"}
        /\ Close(c)
        /\ Return(c, reply[c] = "full")
  /\ UNCHANGED <<flags, child, calls>>

\* fork and execlp of oexserverd; fork may fail.
Fork(c) ==
  /\ life[c] = "fork"
  /\ Enter(c, "user")
  /\ \/ \E s \in Server : Start(s) /\ child' = [child EXCEPT ![c] = s]
     \/ UNCHANGED <<readerVars, child>>
  /\ UNCHANGED <<flags, polls, ready, calls>>

\* The end of the destructor: wait(nullptr) for the forked process, if any.
Reap(c) ==
  /\ life[c] = "reap"
  /\ child[c] \in Server => sstate[child[c]] # "starting"
  /\ Enter(c, "destroyed")
  /\ UNCHANGED <<readerVars, flags, polls, child, ready, calls>>

-----------------------------------------------------------------------------
\* What the calls in progress do by themselves; the user decides the rest.
Running(c) ==
  \/ Probe(c) \/ Answer(c) \/ Fork(c) \/ Reap(c)
  \/ RequestStep(c) /\ UNCHANGED controlVars

User(c) ==
  \/ Construct(c) \/ IsReady(c) \/ WaitUntilReady(c) \/ OpenChart(c)
  \/ ChartDone(c) \/ Destroy(c)

ControlNext ==
  \/ \E c \in Client :
       Running(c) \/ User(c) \/ (OpenFails(c) /\ UNCHANGED controlVars)
  \/ \E s \in Server : (ServerStep(s) \/ Crash(s)) /\ UNCHANGED controlVars

ControlSpec == ControlInit /\ [][ControlNext]_vars

\* Threads that can run do run, oexserverd keeps serving, and a user who
\* holds a stream reads it to its end and lets it go.
Fairness ==
  /\ \A c \in Client : WF_vars(Running(c)) /\ WF_vars(ChartDone(c))
  /\ \A s \in Server : WF_vars(ServerStep(s) /\ UNCHANGED controlVars)

FairControlSpec == ControlSpec /\ Fairness

-----------------------------------------------------------------------------
\* Every variable of the objects has its type: no destructor waits for a
\* child that is no server, and waitUntilReady never checks too often.
ControlTypeOK ==
  /\ flags \in [Client -> FlagChoices]
  /\ life \in [Client -> Lives]
  /\ polls \in [Client -> Nat]
  /\ child \in [Client -> Server \cup {NoChild}]
  /\ ready \in [Client -> BOOLEAN]
  /\ calls \in [Client -> 0..MaxCalls]

\* A server is told to exit only by the destructor of an object that was not
\* told to leave it running, and that destructor is still waiting for the
\* answer (servercontrol.cpp, ~ServerControl).
ExitOnlyFromDestructor ==
  \A s \in Server : sstate[s] \in {"answering", "writing"} /\ job[s].cmd = "Exit" =>
    \E c \in Client : /\ life[c] = "destroy" /\ ~flags[c].leave
                      /\ ret[c] = job[s].ret
                      /\ step[c] \in {"await", "stream"}

\* A regular file, which no server can listen on, takes the well-known FIFO's
\* place only after a destructor has asked a server to exit: the look at the
\* path before fopen("wb") (serverreader.cpp:103) leaves no other way, though
\* servers crash, FIFOs are stale and charts are opened where nothing listens.
Told == \E c \in Client : /\ ~flags[c].leave
                          /\ life[c] \in {"destroy", "reap", "destroyed"}
FileOnlyAfterExit == path = PlainFile => Told

\* Where no server exits under a client's feet, the look at the pipe before
\* a request keeps every request from a FIFO without a reader: none blocks
\* in fopen, dies of SIGPIPE, leaves its return FIFO behind or puts a
\* regular file in the well-known FIFO's place (isPipeOpenedByReader).
RequestsReachAServer ==
  /\ \A c \in Client : step[c] = "send" => HasReader(wfd[c])
  /\ \A c \in Client : step[c] \notin {"blocked", "killed"}
  /\ path # PlainFile
  /\ left = {}

\* Every call in progress returns to the user.
CallsReturn ==
  \A c \in Client : life[c] \notin {"unborn", "user", "destroyed"}
                       ~> life[c] \in {"user", "destroyed"}

\* An object built while a server is listening reuses it: its constructor
\* forks none (tests/servercontrol_test.cpp, ReusesServer).
ReusesServer ==
  \A c \in Client :
    [](life[c] = "unborn" /\ path \in Fifo /\ HasReader(path)
         => [](life[c] # "fork"))

\* A destructor that was not told to leave the server running stops a server
\* that was seen to answer.
StopsServer ==
  \A c \in Client : life[c] = "destroy" /\ ready[c]
    ~> \A s \in Server : sstate[s] \in {"unborn", "gone"}

\* What servercontrol.cpp says where it calls wait(nullptr): the forked
\* process has already exited.
ForkAlreadyExited ==
  \A c \in Client : life[c] = "reap" /\ child[c] \in Server
                       => sstate[child[c]] # "starting"

\* What the test DontBlockOnDeadPipe asks of isReady: it returns, also when
\* nobody reads the pipe.  (SIGPIPE ending the process is no blocking.)
DontBlockOnDeadPipe ==
  \A c \in Client : life[c] = "isReady"
                       ~> life[c] # "isReady" \/ step[c] = "killed"

\* What README.md and the examples rely on: openOesu returns, with null when
\* the chart cannot be opened.
OpenChartReturns ==
  \A c \in Client : life[c] = "open" ~> life[c] # "open" \/ step[c] = "killed"
=============================================================================
