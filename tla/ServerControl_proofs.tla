-------------------------- MODULE ServerControl_proofs --------------------------
(***************************************************************************)
(* Objects of class ServerControl make the requests of module ServerReader *)
(* and nothing else, so what is proved there holds for them.               *)
(***************************************************************************)
EXTENDS ServerControl, ServerReader_proofs

\* A step of an object or of its user is a step of a request or a stutter.
LEMMA ControlStep ==
  ASSUME [ControlNext]_vars
  PROVE  [Next]_readerVars
<1>1. ASSUME NEW c \in Client, Running(c)
      PROVE  [Next]_readerVars
  <2>1. CASE Probe(c)
    BY <2>1 DEF Probe, Asks, Next, CallerStep, Command
  <2>2. CASE Answer(c)
    BY <2>2 DEF Answer, Next, CallerStep
  <2>3. CASE Fork(c)
    BY <2>3 DEF Fork, Next
  <2>4. CASE Reap(c)
    BY <2>4 DEF Reap
  <2> QED
    BY <1>1, <2>1, <2>2, <2>3, <2>4 DEF Running, Next
<1>2. ASSUME NEW c \in Client, User(c)
      PROVE  [Next]_readerVars
  <2>1. CASE OpenChart(c)
    BY <2>1 DEF OpenChart, Next, CallerStep, Command
  <2>2. CASE ChartDone(c)
    BY <2>2 DEF ChartDone, Next, CallerStep
  <2> QED
    BY <1>2, <2>1, <2>2
       DEF User, Construct, IsReady, WaitUntilReady, Destroy
<1> QED
  BY <1>1, <1>2 DEF ControlNext, Next, vars

\* The objects use the server as ServerReader says a library does.
THEOREM ControlImplementsReader == ControlSpec => Spec
<1>1. ControlInit => Init
  BY DEF ControlInit
<1>2. [ControlNext]_vars => [Next]_readerVars
  BY ControlStep
<1> QED
  BY <1>1, <1>2, PTL DEF ControlSpec, Spec

\* Whatever flags and calls the objects are given, no client of theirs
\* receives the answer to another's request.
THEOREM ControlIsolation == ControlSpec => []AnswersOwnRequest
BY ControlImplementsReader, Isolation, PTL

-----------------------------------------------------------------------------
\* waitUntilReady has a check left as long as it goes on.
PollsCounted == \A c \in Client : life[c] = "wait" => polls[c] > 0

\* The types are kept by every step, with the count of checks.
LEMMA ControlTypeStep ==
  ASSUME ControlTypeOK, PollsCounted, [ControlNext]_vars
  PROVE  ControlTypeOK' /\ PollsCounted'
<1>1. ASSUME NEW c \in Client, NEW ok \in BOOLEAN, Return(c, ok),
             UNCHANGED <<flags, child, calls>>
      PROVE  ControlTypeOK' /\ PollsCounted'
  <2>1. CASE life[c] = "wait"
    <3>1. polls[c] \in Nat \ {0}
      BY <2>1 DEF PollsCounted, ControlTypeOK
    <3>2. /\ PollsLeft(c, ok) \in Nat
          /\ PollsAgain(c, ok) => PollsLeft(c, ok) > 0
      BY <3>1 DEF PollsLeft, PollsAgain
    <3>3. /\ polls' = [polls EXCEPT ![c] = PollsLeft(c, ok)]
          /\ \/ PollsAgain(c, ok) /\ UNCHANGED <<life, ready>>
             \/ Enter(c, "user") /\ ready' = [ready EXCEPT ![c] = ok]
      BY <1>1, <2>1 DEF Return
    <3> QED
      BY <1>1, <2>1, <3>2, <3>3
      DEF Enter, ControlTypeOK, PollsCounted, Lives
  <2>2. CASE life[c] # "wait"
    BY <1>1, <2>2 DEF Return, Enter, ControlTypeOK, PollsCounted, Lives
  <2> QED
    BY <2>1, <2>2
<1>2. ASSUME NEW c \in Client, Running(c)
      PROVE  ControlTypeOK' /\ PollsCounted'
  <2>1. CASE Probe(c)
    BY <2>1, <1>1 DEF Probe, controlVars, ControlTypeOK, PollsCounted
  <2>2. CASE Answer(c)
    BY <2>2, <1>1 DEF Answer
  <2>3. CASE Fork(c)
    BY <2>3 DEF Fork, Enter, ControlTypeOK, PollsCounted, Lives
  <2>4. CASE Reap(c)
    BY <2>4 DEF Reap, Enter, ControlTypeOK, PollsCounted, Lives
  <2>5. CASE UNCHANGED controlVars
    BY <2>5 DEF controlVars, ControlTypeOK, PollsCounted
  <2> QED
    BY <1>2, <2>1, <2>2, <2>3, <2>4, <2>5 DEF Running
<1>3. ASSUME NEW c \in Client, User(c)
      PROVE  ControlTypeOK' /\ PollsCounted'
  <2>1. CASE Construct(c) \/ ChartDone(c) \/ Destroy(c)
    BY <2>1 DEF Construct, ChartDone, Destroy, Enter, ControlTypeOK,
       PollsCounted, Lives
  <2>2. CASE IsReady(c) \/ OpenChart(c)
    BY <2>2, ControlConstants DEF IsReady, OpenChart, UserCalls, Enter,
       ControlTypeOK, PollsCounted, Lives
  <2>3. CASE WaitUntilReady(c)
    <3>1. /\ life[c] = "user" /\ calls[c] < MaxCalls
          /\ calls' = [calls EXCEPT ![c] = @ + 1] /\ UNCHANGED <<flags, child>>
      BY <2>3 DEF WaitUntilReady, UserCalls
    <3>2. PICK timeout \in Timeouts :
            \/ /\ timeout = 0
               /\ ready' = [ready EXCEPT ![c] = FALSE]
               /\ UNCHANGED <<life, polls>>
            \/ /\ timeout > 0
               /\ Enter(c, "wait")
               /\ polls' = [polls EXCEPT ![c] = timeout * PollsPerSecond]
               /\ UNCHANGED ready
      BY <2>3 DEF WaitUntilReady
    <3>3. timeout > 0 => timeout * PollsPerSecond \in Nat \ {0}
      <4>1. timeout \in Nat /\ PollsPerSecond \in Nat \ {0}
        BY ControlConstants
      <4>2. ASSUME NEW m \in Nat \ {0}, NEW n \in Nat \ {0}
            PROVE  m * n \in Nat \ {0}
        OBVIOUS
      <4>3. CASE timeout > 0
        <5>1. timeout \in Nat \ {0}
          BY <4>1, <4>3
        <5> QED
          BY <4>1, <4>2, <5>1
      <4> QED
        BY <4>3
    <3>4. calls' \in [Client -> 0..MaxCalls]
      BY <3>1, ControlConstants DEF ControlTypeOK
    <3>5. CASE timeout = 0
      <4>1. /\ ready' = [ready EXCEPT ![c] = FALSE]
            /\ UNCHANGED <<life, polls>>
        BY <3>2, <3>5
      <4> QED
        BY <3>1, <3>4, <4>1 DEF ControlTypeOK, PollsCounted
    <3>6. CASE timeout > 0
      <4> DEFINE n == timeout * PollsPerSecond
      <4>1. n \in Nat /\ n > 0
        BY <3>3, <3>6
      <4>2. polls' = [polls EXCEPT ![c] = n] /\ Enter(c, "wait") /\ UNCHANGED ready
        BY <3>2, <3>6
      <4> HIDE DEF n
      <4> QED
        BY <3>1, <3>4, <4>1, <4>2
        DEF Enter, ControlTypeOK, PollsCounted, Lives
    <3> QED
      BY <3>2, <3>5, <3>6, ControlConstants
  <2> QED
    BY <1>3, <2>1, <2>2, <2>3 DEF User
<1>4. CASE UNCHANGED controlVars
  BY <1>4 DEF controlVars, ControlTypeOK, PollsCounted
<1> QED
  BY <1>2, <1>3, <1>4 DEF ControlNext, vars

-----------------------------------------------------------------------------
\* The request in progress is the one its object's call makes: only the
\* destructor's asks a server to exit, and only where it may.
InCall ==
  /\ \A c \in Client : step[c] # "out" =>
       /\ life[c] \in Probes \cup {"open"}
       /\ cmd[c] = "Exit" => life[c] = "destroy"
  /\ \A c \in Client : life[c] = "destroy" => ~flags[c].leave

\* A server that is told to exit still has the destructor at the other end.
ExitAnswered ==
  \A s \in Server : sstate[s] = "writing" /\ job[s].cmd = "Exit"
                      => peer[s] \in Client

\* What a step of a server or of the inside of a request leaves alone.
LEMMA RequestKept ==
  ASSUME TypeOK,
         \/ \E c \in Client : RequestStep(c) \/ OpenFails(c)
         \/ \E s \in Server : ServerStep(s) \/ Crash(s)
  PROVE  /\ UNCHANGED cmd
         /\ \A c \in Client : step[c] = "out" <=> step'[c] = "out"
<1>1. ASSUME NEW c \in Client, RequestStep(c) \/ OpenFails(c)
      PROVE  /\ UNCHANGED cmd
             /\ \A d \in Client : step[d] = "out" <=> step'[d] = "out"
  BY <1>1 DEF RequestStep, CheckPipe, CreateReturnPipe, OpenPipe, Send,
     OpenFails, Goto, TypeOK
<1>2. ASSUME NEW s \in Server, ServerStep(s) \/ Crash(s)
      PROVE  /\ UNCHANGED cmd
             /\ \A d \in Client : step[d] = "out" <=> step'[d] = "out"
  BY <1>2 DEF ServerStep, Detach, Listen, Take, OpenReply, Finish, Exit, Crash,
     Die, Goto, clientVars, TypeOK
<1> QED
  BY <1>1, <1>2

\* A caller that has its result is not asking a server to exit.
LEMMA ReturnLeaves ==
  ASSUME ControlTypeOK, NEW c \in Client, NEW ok \in BOOLEAN, Return(c, ok)
  PROVE  /\ life'[c] # "destroy"
         /\ \A d \in Client \ {c} : life'[d] = life[d]
BY DEF Return, Enter, ControlTypeOK

\* Each call keeps to its request.
LEMMA InCallStep ==
  ASSUME TypeOK, ControlTypeOK, InCall, [ControlNext]_vars
  PROVE  InCall'
<1>1. ASSUME NEW c \in Client, Running(c) \/ User(c)
      PROVE  InCall'
  <2>1. CASE Probe(c)
    <3>1. CASE Call(c, Asks(c)) /\ UNCHANGED controlVars
      <4>1. /\ step' = [step EXCEPT ![c] = "check"]
            /\ cmd' = [cmd EXCEPT ![c] = Asks(c)]
            /\ UNCHANGED <<life, flags>>
        BY <3>1 DEF Call, Goto, controlVars
      <4>2. life[c] \in Probes /\ (Asks(c) = "Exit" => life[c] = "destroy")
        BY <2>1 DEF Probe, Asks
      <4> QED
        BY <4>1, <4>2 DEF InCall, TypeOK
    <3>2. CASE Return(c, FALSE) /\ UNCHANGED <<readerVars, flags>>
      <4>1. step[c] = "out" /\ UNCHANGED <<step, cmd, flags>>
        BY <2>1, <3>2 DEF Probe, readerVars, clientVars
      <4> QED
        BY <3>2, <4>1, ReturnLeaves DEF InCall
    <3> QED
      BY <2>1, <3>1, <3>2 DEF Probe
  <2>2. CASE Answer(c)
    <3>1. /\ step' = [step EXCEPT ![c] = "out"]
          /\ UNCHANGED <<cmd, flags>>
      BY <2>2 DEF Answer, SeeNull, Close, Goto
    <3>2. \E ok \in BOOLEAN : Return(c, ok)
      BY <2>2 DEF Answer
    <3> QED
      BY <3>1, <3>2, ReturnLeaves DEF InCall, TypeOK
  <2>3. CASE Fork(c)
    BY <2>3 DEF Fork, Start, Enter, readerVars, clientVars, TypeOK,
       ControlTypeOK, InCall, Probes
  <2>4. CASE Reap(c) \/ Construct(c) \/ IsReady(c) \/ Destroy(c)
    BY <2>4 DEF Reap, Construct, IsReady, UserCalls, Destroy, Enter,
       readerVars, clientVars, TypeOK, ControlTypeOK, InCall, Probes
  <2>5. CASE WaitUntilReady(c)
    BY <2>5 DEF WaitUntilReady, UserCalls, Enter, readerVars, clientVars,
       TypeOK, ControlTypeOK, InCall, Probes
  <2>6. CASE OpenChart(c)
    BY <2>6 DEF OpenChart, UserCalls, Call, Goto, Enter, TypeOK,
       ControlTypeOK, InCall, Probes
  <2>8. CASE ChartDone(c)
    BY <2>8 DEF ChartDone, SeeNull, Close, Goto, Enter, TypeOK,
       ControlTypeOK, InCall, Probes
  <2>7. CASE RequestStep(c) /\ UNCHANGED controlVars
    BY <2>7, RequestKept DEF controlVars, InCall
  <2> QED
    BY <1>1, <2>1, <2>2, <2>3, <2>4, <2>5, <2>6, <2>7, <2>8 DEF Running, User
<1>2. ASSUME \/ \E c \in Client : OpenFails(c)
             \/ \E s \in Server : ServerStep(s) \/ Crash(s),
             UNCHANGED controlVars
      PROVE  InCall'
  BY <1>2, RequestKept DEF controlVars, InCall
<1>3. CASE UNCHANGED vars
  BY <1>3 DEF vars, readerVars, clientVars, controlVars, InCall
<1> QED
  BY <1>1, <1>2, <1>3 DEF ControlNext

\* A destructor reads its answer to the end, so it is there when the server
\* that it told to exit has written it.
LEMMA ExitAnsweredStep ==
  ASSUME TypeOK, AnswersOwnRequest, InCall, ExitAnswered, [ControlNext]_vars
  PROVE  ExitAnswered'
<1>1. ASSUME UNCHANGED <<sstate, job, peer>>
      PROVE  ExitAnswered'
  BY <1>1 DEF ExitAnswered
<1>2. ASSUME NEW c \in Client, Close(c),
             reply[c] # "partial" \/ cmd[c] # "Exit"
      PROVE  ExitAnswered'
  <2>1. \A s \in Server : peer[s] = c => job[s].cmd # "Exit"
    BY <1>2 DEF AnswersOwnRequest
  <2> QED
    BY <1>2, <2>1 DEF Close, ExitAnswered
<1>3. ASSUME NEW c \in Client, Running(c) \/ User(c)
      PROVE  ExitAnswered'
  <2>1. CASE Answer(c)
    BY <2>1, <1>1, <1>2 DEF Answer, SeeNull, serverVars
  <2>2. CASE ChartDone(c)
    <3>1. Close(c) => cmd[c] # "Exit"
      BY <2>2 DEF ChartDone, Close, InCall
    <3> QED
      BY <2>2, <3>1, <1>1, <1>2 DEF ChartDone, SeeNull, serverVars
  <2>3. CASE Fork(c)
    BY <2>3, <1>1 DEF Fork, Start, Become, readerVars, serverVars, TypeOK,
       ExitAnswered
  <2>4. CASE Probe(c) \/ OpenChart(c)
    BY <2>4, <1>1 DEF Probe, OpenChart, Call, readerVars, serverVars
  <2>5. CASE Reap(c) \/ Construct(c) \/ IsReady(c) \/ WaitUntilReady(c) \/ Destroy(c)
    BY <2>5, <1>1 DEF Reap, Construct, IsReady, WaitUntilReady, Destroy,
       readerVars, serverVars
  <2>6. CASE RequestStep(c)
    BY <2>6, <1>1 DEF RequestStep, CheckPipe, CreateReturnPipe, OpenPipe, Send,
       serverVars
  <2> QED
    BY <1>3, <2>1, <2>2, <2>3, <2>4, <2>5, <2>6 DEF Running, User
<1>4. ASSUME NEW s \in Server, ServerStep(s) \/ Crash(s)
      PROVE  ExitAnswered'
  BY <1>4 DEF ServerStep, Detach, Listen, Take, OpenReply, Finish, Exit, Crash,
     Die, Become, TypeOK, ExitAnswered
<1>5. CASE \E c \in Client : OpenFails(c)
  BY <1>5, <1>1 DEF OpenFails, serverVars
<1>6. CASE UNCHANGED vars
  BY <1>6, <1>1 DEF vars, readerVars, serverVars
<1> QED
  BY <1>3, <1>4, <1>5, <1>6 DEF ControlNext
\* What holds of the objects in every reachable state, beside IInv.
ObjectInv == ControlTypeOK /\ PollsCounted /\ InCall /\ ExitAnswered

\* It holds in every reachable state.
THEOREM ObjectInvariance == ControlSpec => [](IInv /\ ObjectInv)
<1>1. ControlInit => ObjectInv
  <2> SUFFICES ASSUME ControlInit PROVE ObjectInv
    OBVIOUS
  <2>1. ControlTypeOK /\ PollsCounted
    BY ControlConstants DEF ControlInit, ControlTypeOK, PollsCounted, Lives
  <2>2. InCall /\ ExitAnswered
    BY DEF ControlInit, Init, InCall, ExitAnswered
  <2> QED
    BY <2>1, <2>2 DEF ObjectInv
<1>2. IInv /\ ObjectInv /\ [ControlNext]_vars => ObjectInv'
  BY ControlTypeStep, InCallStep, ExitAnsweredStep DEF IInv, ObjectInv
<1>3. ControlSpec => []IInv
  BY ControlImplementsReader, Invariance, PTL
<1> QED
  BY <1>1, <1>2, <1>3, PTL DEF ControlSpec

\* Every variable of the objects keeps its type, for any timeouts and faults.
THEOREM ControlTypeCorrect == ControlSpec => []ControlTypeOK
BY ObjectInvariance, PTL DEF ObjectInv

\* However objects are built and used, only a destructor that was not told to
\* leave the server running has it exit, and it is there to see the answer.
THEOREM ExitIsAsked == ControlSpec => []ExitOnlyFromDestructor
<1>1. IInv /\ ObjectInv => ExitOnlyFromDestructor
  <2> SUFFICES ASSUME IInv, ObjectInv, NEW s \in Server,
                      sstate[s] \in {"answering", "writing"},
                      job[s].cmd = "Exit"
               PROVE  \E c \in Client : /\ life[c] = "destroy" /\ ~flags[c].leave
                                        /\ ret[c] = job[s].ret
                                        /\ step[c] \in {"await", "stream"}
    BY DEF ExitOnlyFromDestructor
  <2>1. CASE sstate[s] = "answering"
    BY <2>1 DEF IInv, ObjectInv, MessagesAwaited, Awaited, InCall
  <2>2. CASE sstate[s] = "writing"
    BY <2>2 DEF IInv, ObjectInv, AnswersOwnRequest, ExitAnswered, InCall
  <2> QED
    BY <2>1, <2>2
<1> QED
  BY <1>1, ObjectInvariance, PTL

-----------------------------------------------------------------------------
\* How a regular file gets to the well-known path: a server that was told to
\* exit takes the FIFO away under a request that has already looked at it.
TakenAway ==
  /\ (\E s \in Server : sstate[s] = "exiting") => Told
  /\ path = NoFile /\ (\E c \in Client : step[c] \in {"mkfifo", "open"}) => Told
  /\ FileOnlyAfterExit

\* Destructors are never undone.
LEMMA ToldForEver ==
  ASSUME ControlTypeOK, Told, [ControlNext]_vars
  PROVE  Told'
<1>1. PICK d \in Client : ~flags[d].leave /\ life[d] \in {"destroy", "reap", "destroyed"}
  BY DEF Told
<1>2. UNCHANGED <<flags, life>> => Told'
  BY <1>1 DEF Told
<1>3. ASSUME NEW c \in Client, NEW ok \in BOOLEAN, Return(c, ok), UNCHANGED flags
      PROVE  Told'
  <2>1. life'[d] \in {"destroy", "reap", "destroyed"}
    BY <1>1, <1>3 DEF Return, Enter, ControlTypeOK
  <2> QED
    BY <1>1, <1>3, <2>1 DEF Told
<1>4. ASSUME NEW c \in Client, Running(c) \/ User(c)
      PROVE  Told'
  <2>1. CASE Probe(c)
    BY <2>1, <1>2, <1>3 DEF Probe, controlVars
  <2>2. CASE Answer(c)
    BY <2>2, <1>3 DEF Answer
  <2>3. CASE RequestStep(c) /\ UNCHANGED controlVars
    BY <2>3, <1>2 DEF controlVars
  <2>4. CASE Fork(c) \/ Reap(c) \/ User(c)
    <3>1. UNCHANGED flags /\ life'[d] \in {"destroy", "reap", "destroyed"}
      BY <1>1, <2>4 DEF Fork, Reap, User, Construct, IsReady, WaitUntilReady,
         OpenChart, ChartDone, Destroy, UserCalls, Enter, ControlTypeOK
    <3> QED
      BY <1>1, <3>1 DEF Told
  <2> QED
    BY <1>4, <2>1, <2>2, <2>3, <2>4 DEF Running
<1> QED
  BY <1>2, <1>4 DEF ControlNext, vars, controlVars

\* Until then no server exits, no path goes away, and no file comes.
LEMMA TakenAwayStep ==
  ASSUME TypeOK, ControlTypeOK, ExitOnlyFromDestructor, TakenAway,
         ~Told, [ControlNext]_vars
  PROVE  TakenAway' \/ Told'
<1>1. /\ \A s \in Server : sstate[s] # "exiting"
      /\ path # PlainFile
      /\ path = NoFile => \A c \in Client : step[c] \notin {"mkfifo", "open"}
  BY DEF TakenAway, FileOnlyAfterExit
<1>2. \A s \in Server : sstate[s] \in {"answering", "writing"} => job[s].cmd # "Exit"
  BY DEF ExitOnlyFromDestructor, Told
<1>3. ASSUME UNCHANGED <<path, sstate>>,
             \A c \in Client : step'[c] \in {"mkfifo", "open"} =>
               path # NoFile \/ step[c] \in {"mkfifo", "open"}
      PROVE  TakenAway'
  BY <1>1, <1>3 DEF TakenAway, FileOnlyAfterExit
<1>4. ASSUME NEW c \in Client, RequestStep(c) \/ OpenFails(c)
      PROVE  TakenAway'
  <2>1. UNCHANGED <<path, sstate>>
    BY <1>1, <1>4 DEF RequestStep, CheckPipe, CreateReturnPipe, OpenPipe, Send,
       OpenFails, serverVars
  <2>2. \A d \in Client : step'[d] \in {"mkfifo", "open"} =>
          path # NoFile \/ step[d] \in {"mkfifo", "open"}
    BY <1>4, ConstantsDistinct DEF RequestStep, CheckPipe, CreateReturnPipe,
       OpenPipe, Send, OpenFails, Goto, TypeOK
  <2> QED
    BY <1>3, <2>1, <2>2
<1>5. ASSUME NEW c \in Client, \/ Probe(c) \/ Answer(c) \/ Reap(c)
                               \/ Fork(c) \/ User(c)
      PROVE  TakenAway'
  <2>1. UNCHANGED path
    BY <1>5 DEF Probe, Answer, Fork, Reap, User, Construct, IsReady,
       WaitUntilReady, OpenChart, ChartDone, Destroy, Call, SeeNull, Close, Start,
       readerVars
  <2>2. \A s \in Server : sstate'[s] # "exiting"
    BY <1>1, <1>5 DEF Probe, Answer, Fork, Reap, User, Construct, IsReady,
       WaitUntilReady, OpenChart, ChartDone, Destroy, Call, SeeNull, Close, Start,
       Become, readerVars, serverVars, TypeOK
  <2>3. \A d \in Client : step'[d] \in {"mkfifo", "open"} => step[d] \in {"mkfifo", "open"}
    BY <1>5 DEF Probe, Answer, Fork, Reap, User, Construct, IsReady,
       WaitUntilReady, OpenChart, ChartDone, Destroy, Call, SeeNull, Close, Start,
       Goto, readerVars, clientVars, TypeOK
  <2> QED
    BY <1>1, <2>1, <2>2, <2>3 DEF TakenAway, FileOnlyAfterExit
<1>6. ASSUME NEW s \in Server, ServerStep(s) \/ Crash(s)
      PROVE  TakenAway'
  <2>1. \A t \in Server : sstate'[t] # "exiting"
    BY <1>1, <1>2, <1>6 DEF ServerStep, Detach, Listen, Take, OpenReply, Finish,
       Exit, Crash, Die, Become, TypeOK
  <2>2. path' # PlainFile /\ (path' = NoFile => path = NoFile)
    BY <1>1, <1>6, ConstantsDistinct DEF ServerStep, Detach, Listen, Take,
       OpenReply, Finish, Exit, Crash, Fifo, TypeOK
  <2>3. \A c \in Client : step'[c] \in {"mkfifo", "open"} => step[c] \in {"mkfifo", "open"}
    BY <1>6 DEF ServerStep, Detach, Listen, Take, OpenReply, Finish, Exit, Crash,
       Die, Goto, clientVars, TypeOK
  <2> QED
    BY <1>1, <2>1, <2>2, <2>3 DEF TakenAway, FileOnlyAfterExit
<1>7. CASE UNCHANGED vars
  BY <1>3, <1>7 DEF vars, readerVars, clientVars, serverVars
<1> QED
  BY <1>4, <1>5, <1>6, <1>7 DEF ControlNext, Running

\* Whatever crashes and whoever asks, a file takes the FIFO's place only after
\* a destructor asked a server to exit, for any number of objects and servers.
THEOREM FileFollowsExit == ControlSpec => []FileOnlyAfterExit
<1>1. ControlInit => TakenAway
  BY ConstantsDistinct DEF ControlInit, Init, TakenAway, FileOnlyAfterExit, Fifo
<1>2. Told' => TakenAway'
  BY DEF TakenAway, FileOnlyAfterExit
<1>3. IInv /\ ObjectInv /\ ExitOnlyFromDestructor /\ TakenAway /\ [ControlNext]_vars
        => TakenAway'
  BY <1>2, ToldForEver, TakenAwayStep DEF IInv, ObjectInv
<1>4. TakenAway => FileOnlyAfterExit
  BY DEF TakenAway
<1> QED
  BY <1>1, <1>3, <1>4, ObjectInvariance, ExitIsAsked, PTL DEF ControlSpec

-----------------------------------------------------------------------------
\* Objects that leave the server running and users who open charts only when
\* it is ready, with a server that does not crash and an fopen that succeeds.
NothingExits ==
  /\ \A f \in FlagChoices : f.leave
  /\ ~OpenUnready
  /\ Faults \cap {"crash", "fopen"} = {}

Reachable == path \in Fifo /\ HasReader(path)

\* Then the one FIFO with a reader is the one the path names, and a request
\* that got past the look at the pipe, or a user who was told so, can rely
\* on it.
Reached ==
  /\ path # PlainFile
  /\ left = {}
  /\ \A s \in Server : rfd[s] # NoFile => rfd[s] = path
  /\ \A s \in Server : sstate[s] # "exiting"
  /\ \A c \in Client : life[c] # "destroy"
  /\ \A c \in Client : step[c] \notin {"out", "null"} => Reachable
  /\ \A c \in Client : ready[c] => Reachable
  /\ \A c \in Client : step[c] = "send" => wfd[c] = path
  /\ \A c \in Client : step[c] \notin {"blocked", "killed"}

\* A step inside a request finds the server that the look at the pipe found.
LEMMA RequestReaches ==
  ASSUME TypeOK, Reached, NEW c \in Client, RequestStep(c), UNCHANGED controlVars
  PROVE  Reached'
<1>1. Reachable /\ path # NoFile
  BY ConstantsDistinct DEF RequestStep, CheckPipe, CreateReturnPipe, OpenPipe,
     Send, Reached, Reachable
<1>2. UNCHANGED <<path, rfd, sstate>>
  BY <1>1 DEF RequestStep, CheckPipe, CreateReturnPipe, OpenPipe, Send, serverVars
<1>3. Reachable'
  BY <1>1, <1>2 DEF Reachable, HasReader
<1>4. left' = {}
  BY <1>1, ConstantsDistinct DEF RequestStep, CheckPipe, CreateReturnPipe,
     OpenPipe, Send, Reached, Reachable
<1>5. /\ \A d \in Client : step'[d] \notin {"blocked", "killed"}
      /\ \A d \in Client : step'[d] = "send" => wfd'[d] = path
  BY <1>1, ConstantsDistinct DEF RequestStep, CheckPipe, CreateReturnPipe,
     OpenPipe, Send, Goto, Reached, Reachable, TypeOK
<1> QED
  BY <1>2, <1>3, <1>4, <1>5 DEF Reached, controlVars

\* A server that starts to listen reads the FIFO the others read.
LEMMA ServerReaches ==
  ASSUME NothingExits, TypeOK, ExitOnlyFromDestructor, Reached, NEW s \in Server,
         ServerStep(s) \/ Crash(s), UNCHANGED controlVars
  PROVE  Reached'
<1>1. ~Crash(s) /\ ~Exit(s)
  BY DEF NothingExits, Crash, Exit, Reached
<1>2. CASE Detach(s) \/ Take(s)
  BY <1>2 DEF Detach, Take, Become, Reached, Reachable, HasReader, TypeOK,
     clientVars, controlVars
<1>3. CASE Listen(s)
  <2>1. /\ path' \in Fifo /\ path' # NoFile /\ path' # PlainFile
        /\ path # NoFile => path' = path
        /\ rfd' = [rfd EXCEPT ![s] = path']
        /\ sstate' = [sstate EXCEPT ![s] = "listening"]
        /\ step' = step
        /\ UNCHANGED <<left, wfd>>
    <3>1. path # PlainFile /\ \A c \in Client : step[c] # "blocked"
      BY DEF Reached
    <3> QED
      BY <1>3, <3>1, ConstantsDistinct DEF Listen, Become, TypeOK, Fifo
  <2>2. \A t \in Server : rfd[t] # NoFile => path # NoFile /\ rfd[t] = path'
    BY <2>1 DEF Reached
  <2>3. \A t \in Server : rfd'[t] # NoFile => rfd'[t] = path'
    BY <2>1, <2>2 DEF TypeOK
  <2>4. Reachable'
    BY <2>1 DEF Reachable, HasReader, TypeOK
  <2>5. \A c \in Client : step[c] = "send" => path # NoFile
    BY ConstantsDistinct DEF Reached, Reachable
  <2> QED
    BY <2>1, <2>3, <2>4, <2>5 DEF Reached, controlVars, TypeOK
<1>4. CASE OpenReply(s)
  BY <1>4 DEF OpenReply, Become, Goto, Reached, Reachable, HasReader, TypeOK,
     controlVars
<1>5. CASE Finish(s)
  <2>1. job[s].cmd # "Exit"
    BY <1>5 DEF Finish, ExitOnlyFromDestructor, Reached
  <2> QED
    BY <1>5, <2>1 DEF Finish, Become, Reached, Reachable, HasReader, TypeOK,
       controlVars
<1> QED
  BY <1>1, <1>2, <1>3, <1>4, <1>5 DEF ServerStep

\* An object asks a server only where it has seen one.
LEMMA ObjectReaches ==
  ASSUME NothingExits, TypeOK, ControlTypeOK, Reached, NEW c \in Client,
         \/ Probe(c) \/ Answer(c) \/ Fork(c) \/ Reap(c) \/ User(c)
  PROVE  Reached'
<1>1. UNCHANGED <<path, rfd, left, wfd>>
  BY DEF Probe, Answer, Fork, Reap, User, Construct, IsReady, WaitUntilReady,
     OpenChart, ChartDone, Destroy, Call, SeeNull, Close, Start, readerVars,
     clientVars, serverVars
<1>2. Reachable' = Reachable
  BY <1>1 DEF Reachable, HasReader
<1>3. \A s \in Server : sstate'[s] # "exiting"
  BY DEF Probe, Answer, Fork, Reap, User, Construct, IsReady, WaitUntilReady,
     OpenChart, ChartDone, Destroy, Call, SeeNull, Close, Start, Become,
     readerVars, clientVars, serverVars, Reached, TypeOK
<1>4. \A d \in Client : life'[d] # "destroy"
  <2>1. flags[c].leave /\ life[c] # "destroy"
    BY DEF NothingExits, ControlTypeOK, Reached
  <2>2. CASE Probe(c)
    BY <2>2, ReturnLeaves DEF Probe, controlVars, Reached
  <2>3. CASE Answer(c)
    BY <2>3, ReturnLeaves DEF Answer, Reached
  <2>4. CASE Fork(c) \/ Reap(c)
    BY <2>4 DEF Fork, Reap, Enter, Reached, ControlTypeOK
  <2>5. CASE User(c)
    BY <2>5, <2>1 DEF User, Construct, IsReady, WaitUntilReady, OpenChart,
       ChartDone, Destroy, Enter, Reached, ControlTypeOK
  <2> QED
    BY <2>2, <2>3, <2>4, <2>5
<1>5. \A d \in Client : step'[d] = step[d] \/ step'[d] = "out"
                          \/ (step'[d] = "check" /\ Reachable)
  <2>1. Probe(c) => UNCHANGED step \/ (Call(c, Asks(c)) /\ Reachable)
    BY DEF Probe, IsPipeOpenedByReader, Reached, Reachable, readerVars, clientVars
  <2>2. OpenChart(c) => Call(c, "Read") /\ Reachable
    BY DEF OpenChart, NothingExits, Reached
  <2>3. Answer(c) \/ ChartDone(c) => SeeNull(c) \/ Close(c)
    BY DEF Answer, ChartDone
  <2>4. CASE Fork(c) \/ Reap(c) \/ Construct(c) \/ IsReady(c)
             \/ WaitUntilReady(c) \/ Destroy(c)
    BY <2>4 DEF Fork, Reap, Construct, IsReady, WaitUntilReady, Destroy, Start,
       readerVars, clientVars
  <2> QED
    BY <2>1, <2>2, <2>3, <2>4 DEF User, Call, SeeNull, Close, Goto, TypeOK
<1>6. \A d \in Client : ready'[d] => Reachable
  <2>1. Answer(c) => (Return(c, FALSE) \/ Reachable)
    BY DEF Answer, Close, Reached
  <2>2. ASSUME NEW ok \in BOOLEAN, Return(c, ok), ok => Reachable
        PROVE  \A d \in Client : ready'[d] => Reachable
    BY <2>2 DEF Return, Reached, ControlTypeOK
  <2>3. CASE Answer(c)
    <3>1. PICK ok \in BOOLEAN : Return(c, ok) /\ (ok => Reachable)
      BY <2>1, <2>3 DEF Answer
    <3> QED
      BY <3>1, <2>2
  <2>4. CASE Probe(c)
    BY <2>4, <2>2 DEF Probe, controlVars, Reached
  <2>5. CASE Fork(c) \/ Reap(c) \/ User(c)
    BY <2>5 DEF Fork, Reap, User, Construct, IsReady, WaitUntilReady, OpenChart,
       ChartDone, Destroy, Reached, ControlTypeOK
  <2> QED
    BY <2>3, <2>4, <2>5
<1> QED
  BY <1>1, <1>2, <1>3, <1>4, <1>5, <1>6 DEF Reached

\* Where nothing makes a server exit, the look at the pipe is enough: every
\* request reaches a server, for any number of objects, servers and calls.
THEOREM RequestsArrive ==
  ASSUME NothingExits
  PROVE  ControlSpec => []RequestsReachAServer
<1>1. ControlInit => Reached
  BY ConstantsDistinct DEF ControlInit, Init, Reached, Fifo
<1>2. IInv /\ ObjectInv /\ ExitOnlyFromDestructor /\ Reached /\ [ControlNext]_vars
        => Reached'
  <2> SUFFICES ASSUME IInv, ObjectInv, ExitOnlyFromDestructor, Reached,
                      [ControlNext]_vars
               PROVE  Reached'
    OBVIOUS
  <2>1. TypeOK /\ ControlTypeOK
    BY DEF IInv, ObjectInv
  <2>2. \A c \in Client : ~OpenFails(c)
    BY DEF NothingExits, OpenFails
  <2>3. CASE UNCHANGED vars
    BY <2>3 DEF vars, readerVars, clientVars, serverVars, controlVars, Reached,
       Reachable, HasReader
  <2> QED
    BY <2>1, <2>2, <2>3, RequestReaches, ServerReaches, ObjectReaches
    DEF ControlNext, Running
<1>3. Reached => RequestsReachAServer
  BY DEF Reached, RequestsReachAServer, Reachable
<1> QED
  BY <1>1, <1>2, <1>3, ObjectInvariance, ExitIsAsked, PTL DEF ControlSpec
=============================================================================
