----------------------------- MODULE ServerReader -----------------------------
(***************************************************************************)
(* ServerReader::request on Linux: a client makes a private return FIFO    *)
(* in /tmp, sends its path and a command through the well-known FIFO       *)
(* /tmp/OCPN_PIPEX, and reads the answer from the return FIFO.  Any number *)
(* of clients and oexserverd processes share the well-known FIFO.          *)
(*                                                                         *)
(* The kernel's FIFO rules and oexserverd are not in the repository; they  *)
(* are modelled from the calls the library makes.  A FIFO inode is named   *)
(* by the server that created it, so that a FIFO that was unlinked and one *)
(* made later under the same path stay apart.                              *)
(***************************************************************************)
EXTENDS Naturals, Sequences

CONSTANTS
  Client,      \* threads that call the library, each in a process of its own
  Server,      \* oexserverd processes that may be started
  ReturnPipe,  \* the names /tmp/oesenc_<random> that may be drawn
  StaleFifo,   \* a well-known FIFO left behind before the model starts
  NoFile,      \* "no file": a path that does not exist, a closed descriptor
  PlainFile,   \* a regular file at the well-known path
  NoClient, NoMessage,
  Faults       \* what may go wrong: "crash" of oexserverd, "fopen" failing,
               \* "names" all taken when a return FIFO is made

Fifo == Server \cup {StaleFifo}
Command == {"TestAvailability", "Exit", "Read"}
Message == [cmd : Command, ret : ReturnPipe]

ASSUME ConstantsDistinct ==
  /\ StaleFifo \notin Server
  /\ {NoFile, PlainFile} \cap Fifo = {}
  /\ NoFile # PlainFile
  /\ NoFile \notin ReturnPipe
  /\ NoClient \notin Client \cup [client : Client, cmd : Command]
  /\ NoMessage \notin Message
  /\ Faults \subseteq {"crash", "fopen", "names"}

VARIABLES
  path,    \* what /tmp/OCPN_PIPEX names: NoFile, PlainFile or a FIFO
  queue,   \* the bytes held in each FIFO, as a sequence of messages
  files,   \* the return FIFOs that exist in /tmp
  left,    \* history: those among them that a request gave up on
  step,    \* how far each client's request has got
  cmd,     \* the command of that request
  ret,     \* its return FIFO
  wfd,     \* the FIFO (or file) it has open, or is opening, for writing
  reply,   \* what it has been sent: "none", "partial", "full", "short"
  sstate,  \* life cycle of each oexserverd
  rfd,     \* the FIFO it reads
  job,     \* the message it is executing
  peer     \* the client at the other end of the return FIFO it writes

clientVars == <<files, left, step, cmd, ret, wfd, reply>>
serverVars == <<sstate, rfd, job, peer>>
readerVars == <<path, queue, clientVars, serverVars>>

Steps == {"out", "check", "mkfifo", "open", "blocked", "send", "await",
          "stream", "null", "killed"}
ServerStates == {"unborn", "starting", "detached", "listening",
                 "answering", "writing", "exiting", "gone"}

\* The request owns the return FIFO it has made.
Holding(c) == step[c] \in {"open", "blocked", "send", "await", "stream"}

HasReader(f) == \E s \in Server : rfd[s] = f

\* The kernel keeps a FIFO's data while somebody has it open (or is blocked
\* opening it), and drops it with the last descriptor.
Kept(q) == [f \in Fifo |-> IF \/ \E s \in Server : rfd'[s] = f
                              \/ \E c \in Client : wfd'[c] = f
                           THEN q[f] ELSE << >>]

Init ==
  /\ path \in {NoFile, StaleFifo}
  /\ queue = [f \in Fifo |-> << >>]
  /\ files = {} /\ left = {}
  /\ step = [c \in Client |-> "out"]
  /\ cmd \in [Client -> {"TestAvailability"}]
  /\ ret = [c \in Client |-> NoFile]
  /\ wfd = [c \in Client |-> NoFile]
  /\ reply = [c \in Client |-> "none"]
  /\ sstate = [s \in Server |-> "unborn"]
  /\ rfd = [s \in Server |-> NoFile]
  /\ job = [s \in Server |-> NoMessage]
  /\ peer = [s \in Server |-> NoClient]

-----------------------------------------------------------------------------
(* The client: ServerReader::request, one action per system call that      *)
(* another process can come between.                                       *)

Goto(c, there) == step' = [step EXCEPT ![c] = there]

Call(c, k) ==
  /\ step[c] = "out"
  /\ Goto(c, "check")
  /\ cmd' = [cmd EXCEPT ![c] = k]
  /\ UNCHANGED <<path, queue, files, left, ret, wfd, reply, serverVars>>

\* exists() and is_fifo() on the well-known path.
UncheckedPipe(c) ==   \* mutant: the path is not looked at
  /\ step[c] = "check"
  /\ Goto(c, "mkfifo")
  /\ UNCHANGED <<path, queue, files, left, cmd, ret, wfd, reply, serverVars>>
CheckPipe(c) ==
  /\ step[c] = "check"
  /\ Goto(c, IF path \in Fifo THEN "mkfifo" ELSE "null")
  /\ UNCHANGED <<path, queue, files, left, cmd, ret, wfd, reply, serverVars>>

\* A name in use, found by exists() or by mkfifo(), is drawn again.
AnyName == ReturnPipe   \* mutant: a FIFO that exists already is used
UnusedNames == ReturnPipe \ files

\* createReturnPipe: when every try hit a name in use the request fails.
CreateReturnPipe(c) ==
  /\ step[c] = "mkfifo"
  /\ \/ \E r \in UnusedNames :
          /\ files' = files \cup {r}
          /\ ret' = [ret EXCEPT ![c] = r]
          /\ Goto(c, "open")
     \/ /\ "names" \in Faults /\ files # {}
        /\ Goto(c, "null")
        /\ UNCHANGED <<files, ret>>
  /\ UNCHANGED <<path, queue, left, cmd, wfd, reply, serverVars>>

\* fopen(path, "wb"): creates a regular file where there is nothing, and
\* blocks on a FIFO that nobody reads.
OpenPipe(c) ==
  /\ step[c] = "open"
  /\ path' = IF path = NoFile THEN PlainFile ELSE path
  /\ wfd' = [wfd EXCEPT ![c] = path']
  /\ Goto(c, IF path \in Fifo /\ ~HasReader(path) THEN "blocked" ELSE "send")
  /\ UNCHANGED <<queue, files, left, cmd, ret, reply, serverVars>>

\* fopen returns nullptr: request returns {} and the return FIFO stays.
OpenFails(c) ==
  /\ "fopen" \in Faults
  /\ step[c] \in {"open", "blocked"}
  /\ Goto(c, "null")
  /\ wfd' = [wfd EXCEPT ![c] = NoFile]
  /\ left' = left \cup {ret[c]}
  /\ ret' = [ret EXCEPT ![c] = NoFile]
  /\ UNCHANGED <<path, files, cmd, reply, serverVars>>
  /\ queue' = Kept(queue)

\* Mutant: no return FIFO in the message, as in the Windows variant.
NamelessMessage(c) == [cmd |-> cmd[c], ret |-> NoFile]
UnsetCommand(c) == [cmd |-> "Read", ret |-> ret[c]]   \* mutant: message[0] is 0
CreateMessage(c) == [cmd |-> cmd[c], ret |-> ret[c]]

\* fwrite is buffered and fclose flushes it: one write of 1025 bytes, no
\* more than PIPE_BUF, so atomic.  Without a reader the write raises SIGPIPE.
Send(c) ==
  /\ step[c] = "send"
  /\ wfd' = [wfd EXCEPT ![c] = NoFile]
  /\ UNCHANGED <<path, files, cmd, reply, serverVars>>
  /\ \/ /\ wfd[c] = PlainFile
        /\ Goto(c, "await")
        /\ UNCHANGED <<queue, left, ret>>
     \/ /\ HasReader(wfd[c])
        /\ queue' = [queue EXCEPT ![wfd[c]] = Append(@, CreateMessage(c))]
        /\ Goto(c, "await")
        /\ UNCHANGED <<left, ret>>
     \/ /\ wfd[c] # PlainFile /\ ~HasReader(wfd[c])
        /\ queue' = Kept(queue)
        /\ Goto(c, "killed")
        /\ left' = left \cup {ret[c]}
        /\ ret' = [ret EXCEPT ![c] = NoFile]

\* Mutants: the return FIFO is not removed; a caller gives up waiting.
CloseOnly(c) ==
  /\ step[c] = "stream"
  /\ ret' = [ret EXCEPT ![c] = NoFile]
  /\ reply' = [reply EXCEPT ![c] = "none"]
  /\ Goto(c, "out")
  /\ peer' = [s \in Server |-> IF peer[s] = c THEN NoClient ELSE peer[s]]
  /\ UNCHANGED <<path, queue, files, left, cmd, wfd, sstate, rfd, job>>
GiveUp(c) ==
  /\ step[c] \in {"await", "stream"}
  /\ files' = files \ {ret[c]}
  /\ ret' = [ret EXCEPT ![c] = NoFile]
  /\ reply' = [reply EXCEPT ![c] = "none"]
  /\ Goto(c, "out")
  /\ peer' = [s \in Server |-> IF peer[s] = c THEN NoClient ELSE peer[s]]
  /\ UNCHANGED <<path, queue, left, cmd, wfd, sstate, rfd, job>>

\* ~InputStream: removes the return FIFO, then closes it.  The owner of the
\* stream may do so before the end; a server still writing loses its reader.
Close(c) ==
  /\ step[c] = "stream"
  /\ files' = files \ {ret[c]}
  /\ ret' = [ret EXCEPT ![c] = NoFile]
  /\ reply' = [reply EXCEPT ![c] = "none"]
  /\ Goto(c, "out")
  /\ peer' = [s \in Server |-> IF peer[s] = c THEN NoClient ELSE peer[s]]
  /\ UNCHANGED <<path, queue, left, cmd, wfd, sstate, rfd, job>>

\* The caller sees the null pointer request returned.
SeeNull(c) ==
  /\ step[c] = "null"
  /\ Goto(c, "out")
  /\ UNCHANGED <<path, queue, files, left, cmd, ret, wfd, reply, serverVars>>

-----------------------------------------------------------------------------
(* oexserverd, as the library relies on it.                                *)

Become(s, there) == sstate' = [sstate EXCEPT ![s] = there]

Start(s) ==
  /\ sstate[s] = "unborn"
  /\ Become(s, "starting")
  /\ UNCHANGED <<path, queue, clientVars, rfd, job, peer>>

\* The forked process spawns a child of its own and exits, or exec failed.
Detach(s) ==
  /\ sstate[s] = "starting"
  /\ \E there \in {"detached", "gone"} : Become(s, there)
  /\ UNCHANGED <<path, queue, clientVars, rfd, job, peer>>

\* Opens the well-known FIFO for reading, making it when there is none, and
\* so wakes every client blocked in fopen on it.
Listen(s) ==
  /\ sstate[s] = "detached"
  /\ \/ /\ path = PlainFile
        /\ Become(s, "gone")
        /\ UNCHANGED <<path, step, rfd>>
     \/ /\ path # PlainFile
        /\ path' = IF path = NoFile THEN s ELSE path
        /\ rfd' = [rfd EXCEPT ![s] = path']
        /\ Become(s, "listening")
        /\ step' = [c \in Client |->
                      IF step[c] = "blocked" /\ wfd[c] = path' THEN "send"
                      ELSE step[c]]
  /\ UNCHANGED <<queue, files, left, cmd, ret, wfd, reply, job, peer>>

Take(s) ==
  /\ sstate[s] = "listening"
  /\ queue[rfd[s]] # << >>
  /\ job' = [job EXCEPT ![s] = Head(queue[rfd[s]])]
  /\ queue' = [queue EXCEPT ![rfd[s]] = Tail(@)]
  /\ Become(s, "answering")
  /\ UNCHANGED <<path, clientVars, rfd, peer>>

\* The server's open for writing meets the client's open for reading.
OpenReply(s) ==
  /\ sstate[s] = "answering"
  /\ \E c \in Client :
       /\ step[c] = "await" /\ ret[c] = job[s].ret
       /\ Goto(c, "stream")
       /\ reply' = [reply EXCEPT ![c] = "partial"]
       /\ peer' = [peer EXCEPT ![s] = c]
  /\ Become(s, "writing")
  /\ UNCHANGED <<path, queue, files, left, cmd, ret, wfd, rfd, job>>

\* Closing the return FIFO ends the reader's stream there.
EndReply(s, how) ==
  reply' = [c \in Client |-> IF peer[s] = c THEN how ELSE reply[c]]

\* The whole answer is written; a server told to exit does so afterwards.
Finish(s) ==
  /\ sstate[s] = "writing"
  /\ EndReply(s, "full")
  /\ Become(s, IF job[s].cmd = "Exit" THEN "exiting" ELSE "listening")
  /\ job' = [job EXCEPT ![s] = NoMessage]
  /\ peer' = [peer EXCEPT ![s] = NoClient]
  /\ UNCHANGED <<path, queue, files, left, step, cmd, ret, wfd, rfd>>

\* The process ends and its descriptors close.
Die(s) ==
  /\ Become(s, "gone")
  /\ rfd' = [rfd EXCEPT ![s] = NoFile]
  /\ job' = [job EXCEPT ![s] = NoMessage]
  /\ peer' = [peer EXCEPT ![s] = NoClient]
  /\ UNCHANGED <<files, left, step, cmd, ret, wfd>>
  /\ queue' = Kept(queue)

\* An exit on request, with or without removing the well-known path.
Exit(s) ==
  /\ sstate[s] = "exiting"
  /\ path' \in {path, NoFile}
  /\ UNCHANGED reply
  /\ Die(s)

Crash(s) ==
  /\ "crash" \in Faults
  /\ sstate[s] \in {"detached", "listening", "answering", "writing", "exiting"}
  /\ UNCHANGED path
  /\ EndReply(s, "short")
  /\ Die(s)

-----------------------------------------------------------------------------
RequestStep(c) ==
  CheckPipe(c) \/ CreateReturnPipe(c) \/ OpenPipe(c) \/ Send(c)
CallerStep(c) == (\E k \in Command : Call(c, k)) \/ Close(c) \/ SeeNull(c)
ServerStep(s) ==
  Detach(s) \/ Listen(s) \/ Take(s) \/ OpenReply(s) \/ Finish(s) \/ Exit(s)

Next ==
  \/ \E c \in Client : RequestStep(c) \/ OpenFails(c) \/ CallerStep(c)
  \/ \E s \in Server : Start(s) \/ ServerStep(s) \/ Crash(s)

\* The protocol, whatever the callers decide.  Everything an object of module
\* ServerControl does with requests is a behaviour of it (servercontrol.cpp,
\* isReady and requestServerToExit: one request at a time, each stream closed).
Spec == Init /\ [][Next]_readerVars

-----------------------------------------------------------------------------
\* Every variable has its type: in particular a queue holds whole messages, a
\* job is one of them or none, and only return FIFOs are ever given up.
TypeOK ==
  /\ path \in Fifo \cup {NoFile, PlainFile}
  /\ queue \in [Fifo -> Seq(Message)]
  /\ files \subseteq ReturnPipe
  /\ left \subseteq ReturnPipe
  /\ step \in [Client -> Steps]
  /\ cmd \in [Client -> Command]
  /\ ret \in [Client -> ReturnPipe \cup {NoFile}]
  /\ wfd \in [Client -> Fifo \cup {NoFile, PlainFile}]
  /\ reply \in [Client -> {"none", "partial", "full", "short"}]
  /\ sstate \in [Server -> ServerStates]
  /\ rfd \in [Server -> Fifo \cup {NoFile}]
  /\ job \in [Server -> Message \cup {NoMessage}]
  /\ peer \in [Server -> Client \cup {NoClient}]

\* Every return FIFO in /tmp belongs to exactly one request in progress, or
\* was given up when fopen failed or the client was killed: the remove() in
\* ~InputStream leaves none behind and never takes another request's.
FilesAccounted ==
  /\ files = left \cup {ret[c] : c \in {d \in Client : Holding(d)}}
  /\ \A c \in Client : Holding(c) => ret[c] \notin left
  /\ \A c, d \in Client : Holding(c) /\ Holding(d) /\ ret[c] = ret[d] => c = d

\* A message on its way to a server, or taken by one and not yet answered,
\* comes from a client that is waiting on the return FIFO it names for the
\* answer to that very command.
Awaited(m) == \E c \in Client : /\ step[c] = "await"
                                /\ ret[c] = m.ret
                                /\ cmd[c] = m.cmd
MessagesAwaited ==
  /\ \A f \in Fifo : \A i \in 1..Len(queue[f]) : Awaited(queue[f][i])
  /\ \A s \in Server : sstate[s] = "answering" => Awaited(job[s])

\* Of the messages on their way or being taken, no two name the same return
\* FIFO: createReturnPipe never hands out a name that is still in use.
ReturnPipeNamedOnce ==
  /\ \A f, g \in Fifo : \A i \in 1..Len(queue[f]), j \in 1..Len(queue[g]) :
       queue[f][i].ret = queue[g][j].ret => f = g /\ i = j
  /\ \A s \in Server : sstate[s] = "answering" =>
       /\ \A f \in Fifo : \A i \in 1..Len(queue[f]) :
            queue[f][i].ret # job[s].ret
       /\ \A t \in Server :
            sstate[t] = "answering" /\ job[t].ret = job[s].ret => t = s

\* The answer a server is writing goes to the client that asked for it, and
\* no other server is answering that client.
AnswersOwnRequest ==
  \A s \in Server : peer[s] \in Client =>
    /\ sstate[s] = "writing"
    /\ step[peer[s]] = "stream" /\ reply[peer[s]] = "partial"
    /\ ret[peer[s]] = job[s].ret /\ cmd[peer[s]] = job[s].cmd
    /\ \A t \in Server : peer[t] = peer[s] => t = s

-----------------------------------------------------------------------------
(* What becomes of a request, for whoever made it.                         *)

Phase(c) ==
  CASE step[c] = "out" -> "idle"
    [] step[c] \in {"check", "mkfifo", "open", "blocked", "send"} -> "asking"
    [] step[c] = "await" -> "sent"
    [] step[c] = "stream" -> reply[c]
    [] step[c] = "null" -> "refused"
    [] step[c] = "killed" -> "killed"
Serving(s) ==
  IF peer[s] \in Client THEN [client |-> peer[s], cmd |-> job[s].cmd] ELSE NoClient

Promise == INSTANCE Request WITH
  Nobody <- NoClient, asked <- cmd,
  phase <- [c \in Client |-> Phase(c)],
  serving <- [s \in Server |-> Serving(s)]

\* Seen through its phases, a request made through the FIFOs is a request of
\* module Request: executed at most once, by one server, only after it was
\* sent and never after it was refused, and with the command the client asked
\* for, whatever other clients, stale FIFOs and crashing servers do.
KeepsPromise == Promise!Spec
=============================================================================
