----------------------------- MODULE WindowsControl -----------------------------
(***************************************************************************)
(* ServerControl and ServerReader::request on Windows: every object has a  *)
(* named pipe of its own choice, starts oexserverd with CreateProcess when *)
(* nobody answers on that pipe, and talks to it through one handle that is *)
(* both ends of a request.  Handles are counted, for CloseHandle is called *)
(* by hand.                                                                *)
(*                                                                         *)
(* Named pipes and oexserverd are external: a server serves one connection *)
(* at a time; CreateFile fails, and does not wait, while none of the       *)
(* servers of that name is listening.                                      *)
(***************************************************************************)
EXTENDS Naturals

CONSTANTS
  Client, Server, Name,
  PipeNames,       \* the names objects are given, NoName for the default
  NoName, NoServer, NoClient,
  FlagChoices,     \* the flags objects are built with: [start, leave : BOOLEAN]
  Polls,           \* the numbers of checks that timeouts leave waitUntilReady
  MaxCalls,        \* bound: calls a user makes on one object
  Faults           \* "crash" of oexserverd, "create" failing, "share": a name
                   \* that is drawn at random is in use

ASSUME WindowsConstants ==
  /\ PipeNames \subseteq Name \cup {NoName} /\ NoName \notin Name
  /\ NoServer \notin Server /\ NoClient \notin Client
  /\ FlagChoices \subseteq [start : BOOLEAN, leave : BOOLEAN]
  /\ Polls \subseteq Nat /\ MaxCalls \in Nat

VARIABLES
  flags, name,  \* of each object; NoName is the empty m_pipeName
  life,         \* the call each object is executing
  polls,        \* checks waitUntilReady has left
  child,        \* m_processInfo
  calls,        \* calls made so far
  step,         \* how far the request of that call has got
  cmd,          \* its command
  pipe,         \* the server its pipe handle is connected to
  reply,        \* what it has been sent: "none", "partial", "full", "short"
  handles,      \* how many handles its process has open
  broken,       \* history: requests whose WriteFile failed
  sstate, sname, peer, job

objectVars == <<flags, name, life, polls, child, calls>>
requestVars == <<step, cmd, pipe, reply>>
countVars == <<handles, broken>>
serverVars == <<sstate, sname, peer, job>>
vars == <<objectVars, requestVars, countVars, serverVars>>

Command == {"TestAvailability", "Exit", "Read"}
Lives == {"unborn", "construct", "create", "user", "isReady", "wait", "open",
          "destroy", "reap", "destroyed"}
ServerStates == {"unborn", "starting", "busy", "listening", "asked", "exiting", "gone"}

Init ==
  /\ flags \in [Client -> FlagChoices]
  /\ name = [c \in Client |-> NoName]
  /\ life = [c \in Client |-> "unborn"]
  /\ polls = [c \in Client |-> 0]
  /\ child = [c \in Client |-> NoServer]
  /\ calls = [c \in Client |-> 0]
  /\ step = [c \in Client |-> "out"]
  /\ cmd = [c \in Client |-> "TestAvailability"]
  /\ pipe = [c \in Client |-> NoServer]
  /\ reply = [c \in Client |-> "none"]
  /\ handles = [c \in Client |-> 0]
  /\ broken = [c \in Client |-> 0]
  /\ sstate = [s \in Server |-> "unborn"]
  /\ sname = [s \in Server |-> NoName]
  /\ peer = [s \in Server |-> NoClient]
  /\ job = [s \in Server |-> "TestAvailability"]

Enter(c, there) == life' = [life EXCEPT ![c] = there]
Goto(c, there) == step' = [step EXCEPT ![c] = there]
Become(s, there) == sstate' = [sstate EXCEPT ![s] = there]

-----------------------------------------------------------------------------
(* ServerReader::request and the PipeStream it returns.                    *)

\* An empty name makes the request fail at once.
Call(c, k) ==
  /\ step[c] = "out"
  /\ Goto(c, IF name[c] = NoName THEN "null" ELSE "connect")
  /\ cmd' = [cmd EXCEPT ![c] = k]
  /\ UNCHANGED <<pipe, reply>>

AnyListeners(c) == {s \in Server : sstate[s] = "listening"}   \* mutant: one name for all
Listeners(c) == {s \in Server : sstate[s] = "listening" /\ sname[s] = name[c]}
CreateFile(c) ==
  /\ step[c] = "connect"
  /\ \/ \E s \in Listeners(c) :
          /\ pipe' = [pipe EXCEPT ![c] = s]
          /\ handles' = [handles EXCEPT ![c] = @ + 1]
          /\ peer' = [peer EXCEPT ![s] = c]
          /\ Become(s, "busy")
          /\ Goto(c, "write")
     \/ /\ Listeners(c) = {}
        /\ Goto(c, "null")
        /\ UNCHANGED <<pipe, handles, peer, sstate>>
  /\ UNCHANGED <<objectVars, cmd, reply, broken, sname, job>>

\* When the server has gone WriteFile fails, and nobody closes the handle.
WriteFile(c) ==
  /\ step[c] = "write"
  /\ LET s == pipe[c]
     IN \/ /\ peer[s] = c
           /\ job' = [job EXCEPT ![s] = cmd[c]]
           /\ Become(s, "asked")
           /\ reply' = [reply EXCEPT ![c] = "partial"]
           /\ Goto(c, "read")
           /\ UNCHANGED <<pipe, broken>>
        \/ /\ peer[s] # c
           /\ pipe' = [pipe EXCEPT ![c] = NoServer]
           /\ broken' = [broken EXCEPT ![c] = @ + 1]
           /\ Goto(c, "null")
           /\ UNCHANGED <<reply, sstate, job>>
  /\ UNCHANGED <<objectVars, cmd, handles, sname, peer>>

\* ~PipeStream and ~PipeBuffer: the handle is closed, at the end of the
\* answer or before it.
Forget(c) ==   \* mutant: ~PipeBuffer does not close the handle
  /\ step[c] = "read"
  /\ Goto(c, "out")
  /\ pipe' = [pipe EXCEPT ![c] = NoServer]
  /\ reply' = [reply EXCEPT ![c] = "none"]
  /\ UNCHANGED <<cmd, countVars, serverVars>>
Close(c) ==
  /\ step[c] = "read"
  /\ Goto(c, "out")
  /\ pipe' = [pipe EXCEPT ![c] = NoServer]
  /\ reply' = [reply EXCEPT ![c] = "none"]
  /\ handles' = [handles EXCEPT ![c] = @ - 1]
  /\ peer' = [s \in Server |-> IF peer[s] = c THEN NoClient ELSE peer[s]]
  /\ UNCHANGED <<cmd, broken, sstate, sname, job>>

SeeNull(c) ==
  /\ step[c] = "null"
  /\ Goto(c, "out")
  /\ UNCHANGED <<cmd, pipe, reply, countVars, serverVars>>

-----------------------------------------------------------------------------
(* The constructor, the user's calls and the destructor.                   *)

\* Nobody looks whether a name that is drawn is in use: a chance in 16^10.
Drawn == IF "share" \in Faults THEN Name ELSE Name \ {name[c] : c \in Client}

Construct(c) ==
  /\ life[c] = "unborn"
  /\ \E given \in PipeNames, drawn \in Drawn :
       name' = [name EXCEPT ![c] = IF flags[c].start /\ given = NoName THEN drawn
                                   ELSE given]
  /\ Enter(c, IF flags[c].start THEN "construct" ELSE "user")
  /\ UNCHANGED <<flags, polls, child, calls, requestVars, countVars, serverVars>>

\* startOexserverd: the thread's handle is closed at once, the process's kept.
CreateProcess(c) ==
  /\ life[c] = "create"
  /\ Enter(c, "user")
  /\ \/ \E s \in Server :
          /\ sstate[s] = "unborn" /\ Become(s, "starting")
          /\ sname' = [sname EXCEPT ![s] = name[c]]
          /\ child' = [child EXCEPT ![c] = s]
          /\ handles' = [handles EXCEPT ![c] = @ + 1]
     \/ "create" \in Faults /\ UNCHANGED <<sstate, sname, child, handles>>
  /\ UNCHANGED <<flags, name, polls, calls, requestVars, broken, peer, job>>

UserCalls(c) ==
  /\ life[c] = "user" /\ calls[c] < MaxCalls
  /\ calls' = [calls EXCEPT ![c] = @ + 1]
  /\ UNCHANGED <<flags, name, child>>

IsReady(c) ==
  /\ UserCalls(c) /\ Enter(c, "isReady")
  /\ UNCHANGED <<polls, requestVars, countVars, serverVars>>

WaitUntilReady(c) ==
  /\ UserCalls(c)
  /\ \E n \in Polls : /\ polls' = [polls EXCEPT ![c] = n]
                      /\ Enter(c, IF n = 0 THEN "user" ELSE "wait")
  /\ UNCHANGED <<requestVars, countVars, serverVars>>

OpenChart(c) ==
  /\ UserCalls(c) /\ Enter(c, "open")
  /\ Call(c, "Read")
  /\ UNCHANGED <<polls, countVars, serverVars>>

ChartDone(c) ==
  /\ life[c] = "open" /\ Enter(c, "user")
  /\ SeeNull(c) \/ Close(c)
  /\ UNCHANGED <<flags, name, polls, child, calls>>

ExitAlways(c) ==   \* mutant: LeaveServerRunning is not looked at
  /\ life[c] = "user" /\ Enter(c, "destroy")
  /\ UNCHANGED <<flags, name, polls, child, calls, requestVars, countVars, serverVars>>
Destroy(c) ==
  /\ life[c] = "user"
  /\ Enter(c, IF flags[c].leave THEN "destroyed" ELSE "destroy")
  /\ UNCHANGED <<flags, name, polls, child, calls, requestVars, countVars, serverVars>>

\* isReady and requestServerToExit: the request, the answer, the caller.
Probe(c) ==
  /\ life[c] \in {"construct", "isReady", "wait", "destroy"}
  /\ Call(c, IF life[c] = "destroy" THEN "Exit" ELSE "TestAvailability")
  /\ UNCHANGED <<objectVars, countVars, serverVars>>

Again(c, ok) == life[c] = "wait" /\ ~ok /\ polls[c] > 1
Answer(c) ==
  /\ life[c] \in {"construct", "isReady", "wait", "destroy"}
  /\ SeeNull(c) \/ (reply[c] \in {"full", "short"} /\ Close(c))
  /\ LET ok == step[c] = "read" /\ reply[c] = "full"
     IN Enter(c, CASE life[c] = "construct" -> IF ok THEN "user" ELSE "create"
                   [] life[c] = "destroy" -> "reap"
                   [] Again(c, ok) -> "wait"
                   [] OTHER -> "user")
  /\ polls' = [polls EXCEPT ![c] = IF life[c] = "wait" THEN @ - 1 ELSE @]
  /\ UNCHANGED <<flags, name, child, calls>>

\* WaitForSingleObject returns when the process ends, or after five seconds.
NoTimeout(c) ==   \* mutant: INFINITE for serverExitTimeout
  /\ life[c] = "reap" /\ Enter(c, "destroyed")
  /\ child[c] # NoServer => sstate[child[c]] = "gone"
  /\ handles' = [handles EXCEPT ![c] = IF child[c] = NoServer THEN @ ELSE @ - 1]
  /\ UNCHANGED <<flags, name, polls, child, calls, requestVars, broken, serverVars>>
ReapAll(c) ==   \* mutant: the handle is closed also when no process was started
  /\ life[c] = "reap" /\ Enter(c, "destroyed")
  /\ handles' = [handles EXCEPT ![c] = @ - 1]
  /\ UNCHANGED <<flags, name, polls, child, calls, requestVars, broken, serverVars>>
Reap(c) ==
  /\ life[c] = "reap" /\ Enter(c, "destroyed")
  /\ handles' = [handles EXCEPT ![c] = IF child[c] = NoServer THEN @ ELSE @ - 1]
  /\ UNCHANGED <<flags, name, polls, child, calls, requestVars, broken, serverVars>>

-----------------------------------------------------------------------------
(* oexserverd, as the library relies on it.                                *)

\* A server makes its pipe, at first and after every connection, or ends.
Listen(s) ==
  /\ \/ sstate[s] \in {"busy", "asked"} /\ peer[s] = NoClient /\ Become(s, "listening")
     \/ sstate[s] = "starting" /\ \E there \in {"listening", "gone"} : Become(s, there)
  /\ UNCHANGED <<objectVars, requestVars, countVars, sname, peer, job>>

\* It writes its whole answer and closes the connection, then exits if told.
Finish(s) ==
  /\ sstate[s] = "asked"
  /\ \E c \in Client :
       /\ peer[s] = c /\ step[c] = "read"
       /\ reply' = [reply EXCEPT ![c] = "full"]
  /\ peer' = [peer EXCEPT ![s] = NoClient]
  /\ Become(s, IF job[s] = "Exit" THEN "exiting" ELSE "busy")
  /\ UNCHANGED <<objectVars, step, cmd, pipe, countVars, sname, job>>

Exit(s) ==
  /\ sstate[s] = "exiting" /\ Become(s, "gone")
  /\ UNCHANGED <<objectVars, requestVars, countVars, sname, peer, job>>

Crash(s) ==
  /\ "crash" \in Faults
  /\ sstate[s] \notin {"unborn", "gone"} /\ Become(s, "gone")
  /\ reply' = [c \in Client |-> IF peer[s] = c /\ step[c] = "read" THEN "short"
                                ELSE reply[c]]
  /\ peer' = [peer EXCEPT ![s] = NoClient]
  /\ UNCHANGED <<objectVars, step, cmd, pipe, countVars, sname, job>>

-----------------------------------------------------------------------------
Running(c) ==
  CreateFile(c) \/ WriteFile(c) \/ CreateProcess(c) \/ Probe(c) \/ Answer(c) \/ Reap(c)
User(c) ==
  \/ Construct(c) \/ IsReady(c) \/ WaitUntilReady(c) \/ OpenChart(c)
  \/ ChartDone(c) \/ Destroy(c)
ServerStep(s) == Listen(s) \/ Finish(s) \/ Exit(s)

Next ==
  \/ \E c \in Client : Running(c) \/ User(c)
  \/ \E s \in Server : ServerStep(s) \/ Crash(s)

\* Threads that can run do run, servers serve, streams are let go in the end.
Spec ==
  /\ Init /\ [][Next]_vars
  /\ \A c \in Client : WF_vars(Running(c)) /\ WF_vars(ChartDone(c))
  /\ \A s \in Server : WF_vars(ServerStep(s))

-----------------------------------------------------------------------------
\* Every variable has its type: no handle is closed twice.
WindowsTypeOK ==
  /\ flags \in [Client -> FlagChoices]
  /\ name \in [Client -> Name \cup {NoName}]
  /\ life \in [Client -> Lives]
  /\ polls \in [Client -> Nat]
  /\ child \in [Client -> Server \cup {NoServer}]
  /\ calls \in [Client -> 0..MaxCalls]
  /\ step \in [Client -> {"out", "connect", "write", "read", "null"}]
  /\ cmd \in [Client -> Command]
  /\ pipe \in [Client -> Server \cup {NoServer}]
  /\ reply \in [Client -> {"none", "partial", "full", "short"}]
  /\ handles \in [Client -> Nat] /\ broken \in [Client -> Nat]
  /\ sstate \in [Server -> ServerStates]
  /\ sname \in [Server -> Name \cup {NoName}]
  /\ peer \in [Server -> Client \cup {NoClient}]
  /\ job \in [Server -> Command]

\* The handles a process has open are that of the stream it reads, that of
\* the server its object started, which a destructor told to leave the server
\* running never closes, and one for each request whose WriteFile failed.
One(b) == IF b THEN 1 ELSE 0
HandlesAccounted ==
  \A c \in Client :
    handles[c] = One(step[c] \in {"write", "read"}) + broken[c]
                 + One(child[c] # NoServer /\ (life[c] = "destroyed" => flags[c].leave))

\* The two ends of a connection agree: a server answers the command of the
\* client whose handle leads to it, and no other server answers that client.
\* What it is told to do is what that client's call asks for: to exit only if
\* a destructor that was not told to leave it running does (~ServerControl).
EndsAgree ==
  \A s \in Server : peer[s] # NoClient =>
    LET c == peer[s]
    IN /\ pipe[c] = s /\ sname[s] = name[c] /\ sstate[s] \in {"busy", "asked"}
       /\ step[c] = IF sstate[s] = "asked" THEN "read" ELSE "write"
       /\ sstate[s] = "asked" => job[s] = cmd[c] /\ reply[c] = "partial"
       /\ cmd[c] = "Exit" => life[c] = "destroy" /\ ~flags[c].leave
       /\ \A t \in Server : peer[t] = c => t = s

\* Every call in progress returns, also when servers crash at any point or
\* are busy: no step waits for a server that is not there.
CallsReturn ==
  \A c \in Client : life[c] \notin {"unborn", "user", "destroyed"}
                       ~> life[c] \in {"user", "destroyed"}

\* A server that was connected to is free again in the end, or ends: no client
\* keeps it from the others by letting its stream go early.
ServersFreed ==
  \A s \in Server : sstate[s] \in {"busy", "asked"}
                       ~> sstate[s] \in {"listening", "exiting", "gone"}
=============================================================================
