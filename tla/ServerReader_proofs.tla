-------------------------- MODULE ServerReader_proofs --------------------------
(***************************************************************************)
(* For every number of clients, servers and names, and with every fault:   *)
(* return FIFOs are accounted for, each answer goes to the client that     *)
(* asked for it, and a request is what module Request says it is.          *)
(***************************************************************************)
EXTENDS ServerReader, TLAPS

\* What a server's state says of its descriptor and its job.
Connected ==
  \A s \in Server :
    /\ sstate[s] \in {"listening", "answering", "writing"} => rfd[s] \in Fifo
    /\ sstate[s] \in {"answering", "writing"} => job[s] \in Message

\* A client past fopen has something to write to.
Opened ==
  \A c \in Client : step[c] \in {"blocked", "send"} => wfd[c] # NoFile

\* A request has the name of a return FIFO exactly while it owns one.
OwnsName == \A c \in Client : Holding(c) <=> ret[c] \in ReturnPipe

IInv ==
  /\ TypeOK
  /\ Connected
  /\ Opened
  /\ OwnsName
  /\ FilesAccounted
  /\ MessagesAwaited
  /\ ReturnPipeNamedOnce
  /\ AnswersOwnRequest

-----------------------------------------------------------------------------
\* Dropping the data of closed FIFOs leaves each queue as it was, or empty.
LEMMA KeptQueues ==
  ASSUME TypeOK
  PROVE  /\ Kept(queue) \in [Fifo -> Seq(Message)]
         /\ \A f \in Fifo : \A i \in 1..Len(Kept(queue)[f]) :
              /\ i \in 1..Len(queue[f])
              /\ Kept(queue)[f][i] = queue[f][i]
BY DEF TypeOK, Kept

\* A request's place stays among the places there are.
LEMMA GotoSteps ==
  ASSUME TypeOK, NEW c \in Client, NEW there \in Steps, Goto(c, there)
  PROVE  step' \in [Client -> Steps]
BY DEF TypeOK, Goto

\* The types are preserved by every step.
LEMMA TypeStep ==
  ASSUME TypeOK, Connected, Opened, OwnsName, [Next]_readerVars
  PROVE  TypeOK' /\ Connected'
<1> USE DEF TypeOK, Connected, clientVars, serverVars
<1>1. ASSUME NEW c \in Client, RequestStep(c)
      PROVE  TypeOK' /\ Connected'
  <2>1. CASE CheckPipe(c)
    BY <2>1, GotoSteps DEF CheckPipe, Steps
  <2>2. CASE CreateReturnPipe(c)
    <3>1. step' \in [Client -> Steps]
      BY <2>2, GotoSteps DEF CreateReturnPipe, UnusedNames, Steps
    <3> QED
      BY <2>2, <3>1 DEF CreateReturnPipe, UnusedNames
  <2>3. CASE OpenPipe(c)
    <3>1. step' \in [Client -> Steps]
      BY <2>3, GotoSteps DEF OpenPipe, Steps
    <3> QED
      BY <2>3, <3>1 DEF OpenPipe
  <2>4. CASE Send(c)
    <3>1. step' \in [Client -> Steps]
      BY <2>4, GotoSteps DEF Send, CreateMessage, Steps
    <3>2. ret[c] \in ReturnPipe
      BY <2>4 DEF Send, CreateMessage, OwnsName, Holding
    <3>3. [cmd |-> cmd[c], ret |-> ret[c]] \in Message
      BY <3>2 DEF Message
    <3>4. HasReader(wfd[c]) => wfd[c] \in Fifo
      BY <2>4, ConstantsDistinct DEF Send, CreateMessage, HasReader, Opened
    <3> DEFINE m == [cmd |-> cmd[c], ret |-> ret[c]]
    <3>5. HasReader(wfd[c]) => Append(queue[wfd[c]], m) \in Seq(Message)
      BY <3>3, <3>4
    <3>6. queue' \in [Fifo -> Seq(Message)]
      <4>1. \/ queue' = queue
            \/ queue' = Kept(queue)
            \/ /\ HasReader(wfd[c])
               /\ queue' = [queue EXCEPT ![wfd[c]] = Append(@, m)]
        BY <2>4 DEF Send, CreateMessage
      <4> HIDE DEF m
      <4> QED
        BY <4>1, <3>4, <3>5, KeptQueues
    <3>7. /\ left' \subseteq ReturnPipe
          /\ ret' \in [Client -> ReturnPipe \cup {NoFile}]
      BY <2>4, <3>2 DEF Send, CreateMessage
    <3> QED
      BY <2>4, <3>1, <3>6, <3>7 DEF Send, CreateMessage, Goto
  <2> QED
    BY <1>1, <2>1, <2>2, <2>3, <2>4 DEF RequestStep
<1>2. ASSUME NEW c \in Client, OpenFails(c)
      PROVE  TypeOK' /\ Connected'
  <2>1. step' \in [Client -> Steps]
    BY <1>2, GotoSteps DEF OpenFails, Steps
  <2>2. ret[c] \in ReturnPipe
    BY <1>2 DEF OpenFails, OwnsName, Holding
  <2>3. queue' \in [Fifo -> Seq(Message)]
    BY <1>2 DEF OpenFails, Kept
  <2> QED
    BY <1>2, <2>1, <2>2, <2>3 DEF OpenFails
<1>3. ASSUME NEW c \in Client, CallerStep(c)
      PROVE  TypeOK' /\ Connected'
  <2>1. ASSUME NEW k \in Command, Call(c, k)
        PROVE  TypeOK' /\ Connected'
    BY <2>1, GotoSteps DEF Call, Steps
  <2>2. CASE Close(c)
    BY <2>2, GotoSteps DEF Close, Steps
  <2>3. CASE SeeNull(c)
    BY <2>3, GotoSteps DEF SeeNull, Steps
  <2> QED
    BY <1>3, <2>1, <2>2, <2>3 DEF CallerStep
<1>4. ASSUME NEW s \in Server, Start(s)
      PROVE  TypeOK' /\ Connected'
  BY <1>4 DEF Start, Become, ServerStates
<1>5. ASSUME NEW s \in Server, ServerStep(s)
      PROVE  TypeOK' /\ Connected'
  <2>1. CASE Detach(s)
    BY <2>1 DEF Detach, Become, ServerStates
  <2>2. CASE Listen(s)
    <3>1. path' \in Fifo \cup {NoFile, PlainFile}
      BY <2>2 DEF Listen, Fifo
    <3>2. step' \in [Client -> Steps]
      BY <2>2 DEF Listen, Steps
    <3>3. \/ rfd' = rfd /\ sstate' = [sstate EXCEPT ![s] = "gone"]
          \/ /\ path' \in Fifo
             /\ rfd' = [rfd EXCEPT ![s] = path']
             /\ sstate' = [sstate EXCEPT ![s] = "listening"]
      BY <2>2, <3>1 DEF Listen, Become, Fifo
    <3>4. /\ rfd' \in [Server -> Fifo \cup {NoFile}]
          /\ sstate' \in [Server -> ServerStates]
          /\ Connected'
      BY <2>2, <3>3 DEF Listen, ServerStates
    <3> QED
      BY <2>2, <3>1, <3>2, <3>4 DEF Listen
  <2>3. CASE Take(s)
    <3>1. rfd[s] \in Fifo /\ queue[rfd[s]] \in Seq(Message)
      BY <2>3 DEF Take
    <3>2. /\ Head(queue[rfd[s]]) \in Message
          /\ Tail(queue[rfd[s]]) \in Seq(Message)
      BY <2>3, <3>1 DEF Take
    <3> QED
      BY <2>3, <3>1, <3>2 DEF Take, Become, ServerStates
  <2>4. CASE OpenReply(s)
    <3>1. step' \in [Client -> Steps]
      BY <2>4, GotoSteps DEF OpenReply, Steps
    <3>2. /\ peer' \in [Server -> Client \cup {NoClient}]
          /\ reply' \in [Client -> {"none", "partial", "full", "short"}]
      BY <2>4 DEF OpenReply
    <3>3. sstate' \in [Server -> ServerStates] /\ Connected'
      BY <2>4 DEF OpenReply, Become, ServerStates
    <3> QED
      BY <2>4, <3>1, <3>2, <3>3 DEF OpenReply
  <2>5. CASE Finish(s)
    BY <2>5 DEF Finish, EndReply, Become, ServerStates
  <2>6. CASE Exit(s)
    BY <2>6 DEF Exit, Die, Kept, Become, ServerStates
  <2> QED
    BY <1>5, <2>1, <2>2, <2>3, <2>4, <2>5, <2>6 DEF ServerStep
<1>6. ASSUME NEW s \in Server, Crash(s)
      PROVE  TypeOK' /\ Connected'
  BY <1>6 DEF Crash, Die, EndReply, Kept, Become, ServerStates
<1>7. CASE UNCHANGED readerVars
  BY <1>7 DEF readerVars
<1> QED
  BY <1>1, <1>2, <1>3, <1>4, <1>5, <1>6, <1>7 DEF Next

\* fopen gives the client its descriptor, and Send gives it up.
LEMMA OpenedStep ==
  ASSUME TypeOK, Opened, [Next]_readerVars
  PROVE  Opened'
<1> USE DEF TypeOK, Opened
<1>1. ASSUME NEW c \in Client, RequestStep(c) \/ OpenFails(c) \/ CallerStep(c)
      PROVE  Opened'
  BY <1>1, ConstantsDistinct
     DEF RequestStep, CheckPipe, CreateReturnPipe, UnusedNames, OpenPipe, Send, CreateMessage, OpenFails,
         CallerStep, Call, Close, SeeNull, Goto
<1>2. ASSUME NEW s \in Server, Start(s) \/ ServerStep(s) \/ Crash(s)
      PROVE  Opened'
  BY <1>2 DEF Start, ServerStep, Detach, Listen, Take, OpenReply, Finish, Exit,
              Crash, Die, Goto, clientVars
<1>3. CASE UNCHANGED readerVars
  BY <1>3 DEF readerVars, clientVars
<1> QED
  BY <1>1, <1>2, <1>3 DEF Next

-----------------------------------------------------------------------------
\* A request takes its name when it makes the FIFO and loses it when it gives
\* the FIFO up or removes it.
LEMMA OwnsNameStep ==
  ASSUME TypeOK, OwnsName, [Next]_readerVars
  PROVE  OwnsName'
<1> USE ConstantsDistinct DEF TypeOK, OwnsName, Holding
<1>1. ASSUME NEW c \in Client, RequestStep(c)
      PROVE  OwnsName'
  <2>1. CASE CheckPipe(c)
    BY <2>1 DEF CheckPipe, Goto
  <2>2. CASE CreateReturnPipe(c)
    BY <2>2 DEF CreateReturnPipe, UnusedNames, Goto
  <2>3. CASE OpenPipe(c)
    BY <2>3 DEF OpenPipe, Goto
  <2>4. CASE Send(c)
    <3>1. /\ step[c] = "send"
          /\ \/ Goto(c, "await") /\ UNCHANGED ret
             \/ \E there \in Steps \ {"open", "blocked", "send", "await", "stream"} :
                  Goto(c, there) /\ ret' = [ret EXCEPT ![c] = NoFile]
      BY <2>4 DEF Send, Steps
    <3> QED
      BY <3>1 DEF Goto
  <2> HIDE ConstantsDistinct DEF TypeOK, OwnsName, Holding
  <2> QED
    BY <1>1, <2>1, <2>2, <2>3, <2>4 DEF RequestStep
<1>2. ASSUME NEW c \in Client, OpenFails(c) \/ CallerStep(c)
      PROVE  OwnsName'
  <2>1. CASE OpenFails(c)
    BY <2>1 DEF OpenFails, Goto
  <2>2. ASSUME NEW k \in Command, Call(c, k)
        PROVE  OwnsName'
    BY <2>2 DEF Call, Goto
  <2>3. CASE Close(c)
    BY <2>3 DEF Close, Goto
  <2>4. CASE SeeNull(c)
    BY <2>4 DEF SeeNull, Goto
  <2> QED
    BY <1>2, <2>1, <2>2, <2>3, <2>4 DEF CallerStep
<1>3. ASSUME NEW s \in Server, Start(s) \/ ServerStep(s) \/ Crash(s)
      PROVE  OwnsName'
  <2>1. CASE Start(s) \/ Detach(s) \/ Take(s)
    BY <2>1 DEF Start, Detach, Take, clientVars
  <2>2. CASE Listen(s)
    BY <2>2 DEF Listen
  <2>3. CASE OpenReply(s)
    BY <2>3 DEF OpenReply, Goto
  <2>4. CASE Finish(s) \/ Exit(s) \/ Crash(s)
    BY <2>4 DEF Finish, Exit, Crash, Die
  <2> QED
    BY <1>3, <2>1, <2>2, <2>3, <2>4 DEF ServerStep
<1>4. CASE UNCHANGED readerVars
  BY <1>4 DEF readerVars, clientVars
<1> QED
  BY <1>1, <1>2, <1>3, <1>4 DEF Next

\* The four ways a step of client c treats the return FIFOs: it keeps, makes,
\* gives up or removes one.
FilesChange(c) ==
  /\ \A d \in Client \ {c} : Holding(d)' = Holding(d) /\ ret'[d] = ret[d]
  /\ \/ /\ Holding(c)' = Holding(c) /\ ret'[c] = ret[c]
        /\ files' = files /\ left' = left
     \/ /\ ~Holding(c) /\ Holding(c)' /\ ret'[c] \notin files
        /\ files' = files \cup {ret'[c]} /\ left' = left
     \/ /\ Holding(c) /\ ~Holding(c)'
        /\ files' = files /\ left' = left \cup {ret[c]}
     \/ /\ Holding(c) /\ ~Holding(c)'
        /\ files' = files \ {ret[c]} /\ left' = left

\* Any of those changes leaves the names accounted for.
LEMMA FilesFrame ==
  ASSUME FilesAccounted, NEW c \in Client, FilesChange(c)
  PROVE  FilesAccounted'
<1> DEFINE held == {ret[d] : d \in {e \in Client \ {c} : Holding(e)}}
<1>1. held' = held
  BY DEF FilesChange
<1>2. {ret[d] : d \in {e \in Client : Holding(e)}} =
        IF Holding(c) THEN held \cup {ret[c]} ELSE held
  OBVIOUS
<1>3. {ret'[d] : d \in {e \in Client : Holding(e)'}} =
        IF Holding(c)' THEN held \cup {ret'[c]} ELSE held
  BY <1>1
<1>4. Holding(c) => ret[c] \notin held /\ ret[c] \notin left
  BY DEF FilesAccounted
<1>5. files' = left' \cup {ret'[d] : d \in {e \in Client : Holding(e)'}}
  <2> HIDE DEF held
  <2> QED
    BY <1>2, <1>3, <1>4 DEF FilesAccounted, FilesChange
<1>6. \A d \in Client : Holding(d)' => ret'[d] \notin left'
  BY DEF FilesAccounted, FilesChange
<1>7. \A d, e \in Client : Holding(d)' /\ Holding(e)' /\ ret'[d] = ret'[e] => d = e
  BY DEF FilesAccounted, FilesChange
<1> QED
  BY <1>5, <1>6, <1>7 DEF FilesAccounted

\* The names in /tmp are those of the requests in progress and those given up.
LEMMA FilesStep ==
  ASSUME TypeOK, FilesAccounted, [Next]_readerVars
  PROVE  FilesAccounted'
<1> USE DEF TypeOK, Holding
<1>1. ASSUME NEW c \in Client, RequestStep(c)
      PROVE  FilesChange(c)
  <2>1. CASE CheckPipe(c)
    BY <2>1 DEF CheckPipe, Goto, FilesChange
  <2>2. CASE CreateReturnPipe(c)
    BY <2>2 DEF CreateReturnPipe, UnusedNames, Goto, FilesChange
  <2>3. CASE OpenPipe(c)
    BY <2>3 DEF OpenPipe, Goto, FilesChange
  <2>4. CASE Send(c)
    BY <2>4 DEF Send, CreateMessage, Goto, FilesChange
  <2> QED
    BY <1>1, <2>1, <2>2, <2>3, <2>4 DEF RequestStep
<1>2. ASSUME NEW c \in Client, OpenFails(c) \/ CallerStep(c)
      PROVE  FilesChange(c)
  BY <1>2 DEF OpenFails, CallerStep, Call, Close, SeeNull, Goto, FilesChange
<1>3. ASSUME NEW s \in Server, Start(s) \/ ServerStep(s) \/ Crash(s)
      PROVE  FilesAccounted'
  <2>1. /\ files' = files /\ left' = left /\ ret' = ret
        /\ \A d \in Client : Holding(d)' = Holding(d)
    BY <1>3 DEF Start, ServerStep, Detach, Listen, Take, OpenReply, Finish, Exit,
                Crash, Die, Goto, clientVars
  <2> HIDE DEF Holding
  <2> QED
    BY <2>1 DEF FilesAccounted
<1>4. CASE UNCHANGED readerVars
  BY <1>4 DEF readerVars, clientVars, FilesAccounted
<1> QED
  BY <1>1, <1>2, <1>3, <1>4, FilesFrame DEF Next

-----------------------------------------------------------------------------
\* What most steps do to the messages: none is new, none is taken, and the
\* clients that wait for an answer go on waiting.
QueuesShrink ==
  \A f \in Fifo : \A i \in 1..Len(queue'[f]) :
    i \in 1..Len(queue[f]) /\ queue'[f][i] = queue[f][i]

JobsKept ==
  \A s \in Server : sstate'[s] = "answering" =>
    sstate[s] = "answering" /\ job'[s] = job[s]

AwaitersKept ==
  \A c \in Client : step[c] = "await" =>
    step'[c] = "await" /\ ret'[c] = ret[c] /\ cmd'[c] = cmd[c]

\* Such a step leaves the messages awaited and apart.
LEMMA QuietStep ==
  ASSUME MessagesAwaited, ReturnPipeNamedOnce,
         QueuesShrink, JobsKept, AwaitersKept
  PROVE  MessagesAwaited' /\ ReturnPipeNamedOnce'
<1>1. \A m : Awaited(m) => Awaited(m)'
  BY DEF AwaitersKept, Awaited
<1>2. MessagesAwaited'
  BY <1>1 DEF MessagesAwaited, QueuesShrink, JobsKept
<1>3. ReturnPipeNamedOnce'
  <2>1. ASSUME NEW f \in Fifo, NEW i \in 1..Len(queue'[f])
        PROVE  i \in 1..Len(queue[f]) /\ queue'[f][i] = queue[f][i]
    BY DEF QueuesShrink
  <2>2. \A f, g \in Fifo : \A i \in 1..Len(queue'[f]), j \in 1..Len(queue'[g]) :
          queue'[f][i].ret = queue'[g][j].ret => f = g /\ i = j
    <3> SUFFICES ASSUME NEW f \in Fifo, NEW g \in Fifo,
                        NEW i \in 1..Len(queue'[f]), NEW j \in 1..Len(queue'[g]),
                        queue'[f][i].ret = queue'[g][j].ret
                 PROVE  f = g /\ i = j
      OBVIOUS
    <3>1. /\ i \in 1..Len(queue[f]) /\ queue'[f][i] = queue[f][i]
          /\ j \in 1..Len(queue[g]) /\ queue'[g][j] = queue[g][j]
      BY <2>1
    <3> QED
      BY <3>1 DEF ReturnPipeNamedOnce
  <2>3. \A s \in Server : sstate'[s] = "answering" =>
          /\ \A f \in Fifo : \A i \in 1..Len(queue'[f]) :
               queue'[f][i].ret # job'[s].ret
          /\ \A t \in Server :
               sstate'[t] = "answering" /\ job'[t].ret = job'[s].ret => t = s
    BY <2>1 DEF ReturnPipeNamedOnce, JobsKept
  <2> QED
    BY <2>2, <2>3 DEF ReturnPipeNamedOnce
<1> QED
  BY <1>2, <1>3

\* A message put into a queue names a return FIFO that no other one names.
LEMMA SendStep ==
  ASSUME TypeOK, Opened, OwnsName, FilesAccounted, MessagesAwaited,
         ReturnPipeNamedOnce, NEW c \in Client, Send(c)
  PROVE  MessagesAwaited' /\ ReturnPipeNamedOnce'
<1> DEFINE m == [cmd |-> cmd[c], ret |-> ret[c]]
           n == Len(queue[wfd[c]]) + 1
<1>1. step[c] = "send" /\ JobsKept /\ UNCHANGED <<sstate, job>>
  BY DEF Send, CreateMessage, JobsKept, serverVars
<1>2. \/ queue' = queue
      \/ queue' = Kept(queue)
      \/ /\ HasReader(wfd[c])
         /\ queue' = [queue EXCEPT ![wfd[c]] = Append(@, m)]
         /\ step' = [step EXCEPT ![c] = "await"]
         /\ UNCHANGED <<ret, cmd>>
  BY DEF Send, CreateMessage, Goto
<1>3. AwaitersKept
  BY <1>1 DEF Send, CreateMessage, Goto, TypeOK, AwaitersKept
<1>4. CASE queue' = queue \/ queue' = Kept(queue)
  <2>1. QueuesShrink
    BY <1>4, KeptQueues DEF QueuesShrink
  <2> QED
    BY <2>1, <1>1, <1>3, QuietStep
<1>5. CASE /\ HasReader(wfd[c])
           /\ queue' = [queue EXCEPT ![wfd[c]] = Append(@, m)]
           /\ step' = [step EXCEPT ![c] = "await"]
           /\ UNCHANGED <<ret, cmd>>
  <2>1. wfd[c] \in Fifo
    BY <1>1, <1>5, ConstantsDistinct DEF HasReader, Opened, TypeOK
  <2>2. queue[wfd[c]] \in Seq(Message)
    BY <2>1 DEF TypeOK
  <2>3. ASSUME NEW f \in Fifo, NEW i \in 1..Len(queue'[f])
        PROVE  \/ i \in 1..Len(queue[f]) /\ queue'[f][i] = queue[f][i]
               \/ f = wfd[c] /\ i = n /\ queue'[f][i] = m
    BY <2>1, <2>2, <1>5 DEF TypeOK
  <2>4. \A x : Awaited(x) => Awaited(x)' /\ x.ret # ret[c]
    BY <1>1, <1>3 DEF AwaitersKept, Awaited, FilesAccounted, Holding
  <2>5. step'[c] = "await" /\ ret'[c] = m.ret /\ cmd'[c] = m.cmd
    BY <1>5 DEF TypeOK
  <2>6. m.ret = ret[c]
    OBVIOUS
  <2> HIDE DEF m, n
  <2>7. MessagesAwaited'
    <3>1. ASSUME NEW f \in Fifo, NEW i \in 1..Len(queue'[f])
          PROVE  Awaited(queue[f][i])'
      <4>1. CASE i \in 1..Len(queue[f]) /\ queue'[f][i] = queue[f][i]
        <5>1. Awaited(queue[f][i])
          BY <4>1 DEF MessagesAwaited
        <5> QED
          BY <4>1, <5>1, <2>4 DEF Awaited
      <4>2. CASE queue'[f][i] = m
        BY <4>2, <2>5 DEF Awaited
      <4> QED
        BY <2>3, <4>1, <4>2
    <3>2. ASSUME NEW s \in Server, sstate'[s] = "answering"
          PROVE  Awaited(job[s])'
      BY <1>1, <2>4, <3>2 DEF MessagesAwaited
    <3> QED
      BY <3>1, <3>2 DEF MessagesAwaited
  <2>8. \A f, g \in Fifo : \A i \in 1..Len(queue'[f]), j \in 1..Len(queue'[g]) :
          queue'[f][i].ret = queue'[g][j].ret => f = g /\ i = j
    <3>1. ASSUME NEW f \in Fifo, NEW i \in 1..Len(queue[f])
          PROVE  queue[f][i].ret # ret[c]
      BY <2>4 DEF MessagesAwaited
    <3>2. ASSUME NEW f \in Fifo, NEW g \in Fifo,
                 NEW i \in 1..Len(queue'[f]), NEW j \in 1..Len(queue'[g]),
                 queue'[f][i].ret = queue'[g][j].ret
          PROVE  f = g /\ i = j
      <4>1. CASE i \in 1..Len(queue[f]) /\ queue'[f][i] = queue[f][i]
        <5>1. j \in 1..Len(queue[g]) /\ queue'[g][j] = queue[g][j]
          BY <2>3, <2>6, <3>1, <3>2, <4>1
        <5> QED
          BY <3>2, <4>1, <5>1 DEF ReturnPipeNamedOnce
      <4>2. CASE f = wfd[c] /\ i = n /\ queue'[f][i] = m
        BY <2>3, <2>6, <3>1, <3>2, <4>2
      <4> QED
        BY <2>3, <4>1, <4>2
    <3> QED
      BY <3>2
  <2>9. \A s \in Server : sstate'[s] = "answering" =>
          /\ \A f \in Fifo : \A i \in 1..Len(queue'[f]) :
               queue'[f][i].ret # job'[s].ret
          /\ \A t \in Server :
               sstate'[t] = "answering" /\ job'[t].ret = job'[s].ret => t = s
    BY <1>1, <2>3, <2>4, <2>6 DEF MessagesAwaited, ReturnPipeNamedOnce
  <2> QED
    BY <2>7, <2>8, <2>9 DEF ReturnPipeNamedOnce
<1> QED
  BY <1>2, <1>4, <1>5

\* A message taken from a queue is in it no more.
LEMMA TakeStep ==
  ASSUME TypeOK, Connected, MessagesAwaited, ReturnPipeNamedOnce,
         NEW s \in Server, Take(s)
  PROVE  MessagesAwaited' /\ ReturnPipeNamedOnce'
<1> DEFINE h == rfd[s]
<1>1. /\ h \in Fifo /\ queue[h] \in Seq(Message) /\ queue[h] # << >>
      /\ queue' = [queue EXCEPT ![h] = Tail(@)]
      /\ job' = [job EXCEPT ![s] = Head(queue[h])]
      /\ sstate' = [sstate EXCEPT ![s] = "answering"]
      /\ sstate[s] = "listening"
      /\ UNCHANGED <<step, cmd, ret>>
  BY DEF Take, TypeOK, Connected, Become, clientVars
<1> HIDE DEF h
<1>2. 1 \in 1..Len(queue[h]) /\ job'[s] = queue[h][1]
  BY <1>1 DEF TypeOK
<1>3. ASSUME NEW f \in Fifo, NEW i \in 1..Len(queue'[f])
      PROVE  \/ f # h /\ i \in 1..Len(queue[f]) /\ queue'[f][i] = queue[f][i]
             \/ f = h /\ i + 1 \in 1..Len(queue[f]) /\ queue'[f][i] = queue[f][i + 1]
  BY <1>1 DEF TypeOK
<1>4. ASSUME NEW t \in Server, t # s
      PROVE  sstate'[t] = sstate[t] /\ job'[t] = job[t]
  BY <1>1, <1>4 DEF TypeOK
<1>5. \A x : Awaited(x)' <=> Awaited(x)
  BY <1>1 DEF Awaited
<1>6. MessagesAwaited'
  <2>1. ASSUME NEW f \in Fifo, NEW i \in 1..Len(queue'[f])
        PROVE  Awaited(queue[f][i])'
    BY <1>1, <1>3, <1>5 DEF MessagesAwaited
  <2>2. ASSUME NEW t \in Server, sstate'[t] = "answering"
        PROVE  Awaited(job[t])'
    BY <1>1, <1>2, <1>4, <1>5, <2>2 DEF MessagesAwaited
  <2> QED
    BY <2>1, <2>2 DEF MessagesAwaited
<1>7. \A f, g \in Fifo : \A i \in 1..Len(queue'[f]), j \in 1..Len(queue'[g]) :
        queue'[f][i].ret = queue'[g][j].ret => f = g /\ i = j
  <2> SUFFICES ASSUME NEW f \in Fifo, NEW g \in Fifo,
                      NEW i \in 1..Len(queue'[f]), NEW j \in 1..Len(queue'[g]),
                      queue'[f][i].ret = queue'[g][j].ret
               PROVE  f = g /\ i = j
    OBVIOUS
  <2> DEFINE was(k, q) == IF q = h THEN k + 1 ELSE k
  <2>1. /\ was(i, f) \in 1..Len(queue[f])
        /\ queue'[f][i] = queue[f][was(i, f)]
        /\ was(j, g) \in 1..Len(queue[g])
        /\ queue'[g][j] = queue[g][was(j, g)]
    BY <1>3
  <2>2. f = g /\ was(i, f) = was(j, g)
    BY <2>1 DEF ReturnPipeNamedOnce
  <2> QED
    BY <2>2
<1>8. ASSUME NEW f \in Fifo, NEW i \in 1..Len(queue'[f]),
             NEW t \in Server, sstate'[t] = "answering"
      PROVE  queue'[f][i].ret # job'[t].ret
  BY <1>1, <1>2, <1>3, <1>4, <1>8 DEF ReturnPipeNamedOnce
<1>9. ASSUME NEW t \in Server, NEW u \in Server, sstate'[t] = "answering",
             sstate'[u] = "answering", job'[u].ret = job'[t].ret
      PROVE  u = t
  BY <1>1, <1>2, <1>4, <1>9 DEF ReturnPipeNamedOnce
<1> QED
  BY <1>6, <1>7, <1>8, <1>9 DEF ReturnPipeNamedOnce

\* The client that is answered waits no more, and no other message names its
\* return FIFO.
LEMMA OpenReplyStep ==
  ASSUME TypeOK, MessagesAwaited, ReturnPipeNamedOnce,
         NEW s \in Server, OpenReply(s)
  PROVE  MessagesAwaited' /\ ReturnPipeNamedOnce'
<1> PICK c \in Client : /\ step[c] = "await" /\ ret[c] = job[s].ret
                        /\ step' = [step EXCEPT ![c] = "stream"]
  BY DEF OpenReply, Goto
<1>1. /\ sstate[s] = "answering"
      /\ sstate' = [sstate EXCEPT ![s] = "writing"]
      /\ UNCHANGED <<queue, ret, cmd, job>>
  BY DEF OpenReply, Become
<1>2. \A t \in Server : sstate'[t] = "answering" =>
        sstate[t] = "answering" /\ t # s
  BY <1>1 DEF TypeOK
<1>3. \A x : Awaited(x) /\ x.ret # job[s].ret => Awaited(x)'
  BY <1>1 DEF Awaited, TypeOK
<1>4. MessagesAwaited'
  BY <1>1, <1>2, <1>3 DEF MessagesAwaited, ReturnPipeNamedOnce
<1>5. ReturnPipeNamedOnce'
  BY <1>1, <1>2 DEF ReturnPipeNamedOnce
<1> QED
  BY <1>4, <1>5

\* Every step keeps the messages awaited and apart.
LEMMA MessagesStep ==
  ASSUME TypeOK, Connected, Opened, OwnsName, FilesAccounted, MessagesAwaited,
         ReturnPipeNamedOnce, [Next]_readerVars
  PROVE  MessagesAwaited' /\ ReturnPipeNamedOnce'
<1> USE DEF TypeOK, clientVars, serverVars, JobsKept, AwaitersKept
<1>1. ASSUME NEW c \in Client, RequestStep(c)
      PROVE  MessagesAwaited' /\ ReturnPipeNamedOnce'
  <2>1. CASE CheckPipe(c) \/ CreateReturnPipe(c) \/ OpenPipe(c)
    <3>1. JobsKept /\ AwaitersKept /\ queue' = queue
      BY <2>1 DEF CheckPipe, CreateReturnPipe, UnusedNames, OpenPipe, Goto
    <3> QED
      BY <3>1, QuietStep DEF QueuesShrink
  <2> QED
    BY <1>1, <2>1, SendStep DEF RequestStep
<1>2. ASSUME NEW c \in Client, OpenFails(c)
      PROVE  MessagesAwaited' /\ ReturnPipeNamedOnce'
  <2>1. JobsKept /\ AwaitersKept
    BY <1>2 DEF OpenFails, Goto
  <2>2. QueuesShrink
    BY <1>2, KeptQueues DEF OpenFails, QueuesShrink
  <2> QED
    BY <2>1, <2>2, QuietStep
<1>3. ASSUME NEW c \in Client, CallerStep(c)
      PROVE  MessagesAwaited' /\ ReturnPipeNamedOnce'
  <2>1. JobsKept /\ AwaitersKept /\ queue' = queue
    BY <1>3 DEF CallerStep, Call, Close, SeeNull, Goto
  <2> QED
    BY <2>1, QuietStep DEF QueuesShrink
<1>4. ASSUME NEW s \in Server, Start(s) \/ Detach(s) \/ Listen(s) \/ Finish(s)
      PROVE  MessagesAwaited' /\ ReturnPipeNamedOnce'
  <2>1. JobsKept /\ AwaitersKept /\ queue' = queue
    BY <1>4 DEF Start, Detach, Listen, Finish, Become
  <2> QED
    BY <2>1, QuietStep DEF QueuesShrink
<1>5. ASSUME NEW s \in Server, Exit(s) \/ Crash(s)
      PROVE  MessagesAwaited' /\ ReturnPipeNamedOnce'
  <2>1. JobsKept /\ AwaitersKept
    BY <1>5 DEF Exit, Crash, Die, Become
  <2>2. QueuesShrink
    BY <1>5, KeptQueues DEF Exit, Crash, Die, QueuesShrink
  <2> QED
    BY <2>1, <2>2, QuietStep
<1>6. CASE UNCHANGED readerVars
  <2>1. JobsKept /\ AwaitersKept /\ queue' = queue
    BY <1>6 DEF readerVars
  <2> QED
    BY <2>1, QuietStep DEF QueuesShrink
<1> QED
  BY <1>1, <1>2, <1>3, <1>4, <1>5, <1>6, TakeStep, OpenReplyStep
     DEF Next, ServerStep

\* A server writes to the client it was asked by until one of them closes.
LEMMA AnswersStep ==
  ASSUME TypeOK, FilesAccounted, MessagesAwaited, AnswersOwnRequest,
         [Next]_readerVars
  PROVE  AnswersOwnRequest'
<1> USE ConstantsDistinct DEF TypeOK, clientVars, serverVars, AnswersOwnRequest
<1>1. ASSUME NEW c \in Client, RequestStep(c) \/ OpenFails(c)
      PROVE  AnswersOwnRequest'
  BY <1>1 DEF RequestStep, CheckPipe, CreateReturnPipe, UnusedNames, OpenPipe, Send, CreateMessage,
              OpenFails, Goto
<1>2. ASSUME NEW c \in Client, CallerStep(c)
      PROVE  AnswersOwnRequest'
  BY <1>2 DEF CallerStep, Call, Close, SeeNull, Goto
<1>3. ASSUME NEW s \in Server, Start(s) \/ Detach(s) \/ Listen(s) \/ Take(s)
      PROVE  AnswersOwnRequest'
  BY <1>3 DEF Start, Detach, Listen, Take, Become
<1>4. ASSUME NEW s \in Server, OpenReply(s)
      PROVE  AnswersOwnRequest'
  <2> PICK c \in Client : /\ step[c] = "await" /\ ret[c] = job[s].ret
                          /\ step' = [step EXCEPT ![c] = "stream"]
                          /\ reply' = [reply EXCEPT ![c] = "partial"]
                          /\ peer' = [peer EXCEPT ![s] = c]
    BY <1>4 DEF OpenReply, Goto
  <2>1. /\ sstate[s] = "answering"
        /\ sstate' = [sstate EXCEPT ![s] = "writing"]
        /\ UNCHANGED <<ret, cmd, job>>
    BY <1>4 DEF OpenReply, Become
  <2>2. cmd[c] = job[s].cmd
    BY <2>1 DEF MessagesAwaited, Awaited, FilesAccounted, Holding
  <2>3. \A t \in Server : peer[t] # c
    OBVIOUS
  <2> QED
    BY <2>1, <2>2, <2>3
<1>5. ASSUME NEW s \in Server, Finish(s) \/ Exit(s) \/ Crash(s)
      PROVE  AnswersOwnRequest'
  BY <1>5 DEF Finish, Exit, Crash, Die, EndReply, Become
<1>6. CASE UNCHANGED readerVars
  BY <1>6 DEF readerVars
<1> QED
  BY <1>1, <1>2, <1>3, <1>4, <1>5, <1>6 DEF Next, ServerStep

-----------------------------------------------------------------------------
\* IInv holds in every reachable state: FIFOs are accounted for, messages are
\* awaited and apart, answers go where they should, all at once.
THEOREM Invariance == Spec => []IInv
<1>1. Init => IInv
  <2> HAVE Init
  <2>1. TypeOK
    <3>1. /\ path \in Fifo \cup {NoFile, PlainFile}
          /\ queue \in [Fifo -> Seq(Message)]
          /\ files \subseteq ReturnPipe /\ left \subseteq ReturnPipe
      BY DEF Init, Fifo
    <3>2. cmd \in [Client -> Command]
      BY DEF Init, Command
    <3>3. step \in [Client -> Steps] /\ sstate \in [Server -> ServerStates]
      BY DEF Init, Steps, ServerStates
    <3>4. /\ ret \in [Client -> ReturnPipe \cup {NoFile}]
          /\ wfd \in [Client -> Fifo \cup {NoFile, PlainFile}]
          /\ reply \in [Client -> {"none", "partial", "full", "short"}]
          /\ rfd \in [Server -> Fifo \cup {NoFile}]
          /\ job \in [Server -> Message \cup {NoMessage}]
          /\ peer \in [Server -> Client \cup {NoClient}]
      BY DEF Init
    <3> QED
      BY <3>1, <3>2, <3>3, <3>4 DEF TypeOK
  <2>2. Connected /\ Opened
    BY DEF Init, Connected, Opened
  <2>3. OwnsName /\ FilesAccounted
    BY ConstantsDistinct DEF Init, OwnsName, FilesAccounted, Holding
  <2>4. MessagesAwaited /\ ReturnPipeNamedOnce
    BY DEF Init, MessagesAwaited, ReturnPipeNamedOnce
  <2>5. AnswersOwnRequest
    BY ConstantsDistinct DEF Init, AnswersOwnRequest
  <2> QED
    BY <2>1, <2>2, <2>3, <2>4, <2>5 DEF IInv
<1>2. IInv /\ [Next]_readerVars => IInv'
  BY TypeStep, OpenedStep, OwnsNameStep, FilesStep, MessagesStep, AnswersStep
     DEF IInv
<1> QED
  BY <1>1, <1>2, PTL DEF Spec

\* Whatever faults occur, every variable keeps its type.
THEOREM TypeCorrect == Spec => []TypeOK
BY Invariance, PTL DEF IInv

\* However many clients and faults there are, /tmp holds the return FIFOs of
\* the requests in progress and those of requests given up, and no others.
THEOREM FilesAreAccounted == Spec => []FilesAccounted
BY Invariance, PTL DEF IInv

\* A message a server takes was sent by a client still waiting for its answer.
THEOREM MessagesAreAwaited == Spec => []MessagesAwaited
BY Invariance, PTL DEF IInv

\* No two messages under way name the same return FIFO.
THEOREM ReturnPipesNamedOnce == Spec => []ReturnPipeNamedOnce
BY Invariance, PTL DEF IInv

\* Clients never receive each other's answers.
THEOREM Isolation == Spec => []AnswersOwnRequest
BY Invariance, PTL DEF IInv

-----------------------------------------------------------------------------
(* ServerReader implements Request: each step of the FIFO protocol is a step *)
(* of a request or leaves all requests where they are.                     *)

\* A client that has its stream has been sent something, or is being sent it.
StreamAnswered ==
  \A c \in Client : step[c] = "stream" => reply[c] \in {"partial", "full", "short"}

PInv == IInv /\ StreamAnswered

PhaseOf == [c \in Client |-> Phase(c)]
ServingOf == [s \in Server |-> Serving(s)]

\* A client that holds its stream has been sent something, after every step.
LEMMA StreamStep ==
  ASSUME IInv, StreamAnswered, [Next]_readerVars
  PROVE  StreamAnswered'
<1> USE DEF StreamAnswered, IInv, TypeOK, clientVars, serverVars
<1>1. ASSUME NEW c \in Client, RequestStep(c) \/ OpenFails(c) \/ CallerStep(c)
      PROVE  StreamAnswered'
  BY <1>1 DEF RequestStep, OpenFails, CallerStep, CheckPipe, CreateReturnPipe,
     OpenPipe, Send, Call, Close, SeeNull, Goto
<1>2. ASSUME NEW s \in Server, Start(s) \/ ServerStep(s) \/ Crash(s)
      PROVE  StreamAnswered'
  BY <1>2 DEF Start, ServerStep, Crash, Detach, Listen, Take, OpenReply, Finish,
     Exit, Die, EndReply, Goto, Become
<1>3. CASE UNCHANGED readerVars
  BY <1>3 DEF readerVars
<1> QED
  BY <1>1, <1>2, <1>3 DEF Next

\* Where only one client moves, only its phase changes.
LEMMA OneMoves ==
  ASSUME NEW c \in Client,
         \A d \in Client \ {c} : Phase(d)' = Phase(d)
  PROVE  PhaseOf' = [PhaseOf EXCEPT ![c] = Phase(c)']
BY DEF PhaseOf

\* When no client changes its phase, and
LEMMA NoneMoves ==
  ASSUME \A d \in Client : Phase(d)' = Phase(d)
  PROVE  PhaseOf' = PhaseOf
BY DEF PhaseOf

\* no server whom it serves, the promise does not move.
LEMMA SameServing ==
  ASSUME \A s \in Server : Serving(s)' = Serving(s)
  PROVE  ServingOf' = ServingOf
BY DEF ServingOf

\* A step of one server changes whom that one serves.
LEMMA OneServer ==
  ASSUME NEW s \in Server,
         \A t \in Server \ {s} : Serving(t)' = Serving(t)
  PROVE  ServingOf' = [ServingOf EXCEPT ![s] = Serving(s)']
BY DEF ServingOf

\* Only a server that is writing has somebody at the other end.
LEMMA OnlyWritersServe ==
  ASSUME IInv, NEW s \in Server, sstate[s] # "writing"
  PROVE  peer[s] = NoClient /\ Serving(s) = NoClient
BY ConstantsDistinct DEF IInv, TypeOK, AnswersOwnRequest, Serving

\* A server with somebody at the other end is seen to serve it.
LEMMA WritersServe ==
  ASSUME IInv, NEW s \in Server, peer[s] \in Client
  PROVE  /\ Serving(s) = [client |-> peer[s], cmd |-> job[s].cmd]
         /\ Serving(s) # NoClient
<1>1. job[s].cmd \in Command
  BY DEF IInv, AnswersOwnRequest, Connected, Message
<1>2. Serving(s) = [client |-> peer[s], cmd |-> job[s].cmd]
  BY DEF Serving
<1>3. Serving(s) \in [client : Client, cmd : Command]
  BY <1>1, <1>2
<1> QED
  BY <1>2, <1>3, ConstantsDistinct

\* What a request's own steps before its answer do to its phase.
LEMMA RequestPromise ==
  ASSUME PInv, NEW c \in Client, RequestStep(c) \/ OpenFails(c)
  PROVE  [Promise!Next]_(Promise!requestVars)
<1> USE DEF PInv, IInv, TypeOK, clientVars, serverVars
<1>1. /\ \A d \in Client \ {c} : Phase(d)' = Phase(d)
      /\ cmd' = cmd
      /\ \A s \in Server : Serving(s)' = Serving(s)
  <2>1. CASE CheckPipe(c) \/ CreateReturnPipe(c)
    BY <2>1 DEF CheckPipe, CreateReturnPipe, Goto, Phase, Serving
  <2>2. CASE OpenPipe(c) \/ OpenFails(c)
    BY <2>2 DEF OpenPipe, OpenFails, Goto, Phase, Serving
  <2>3. CASE Send(c)
    BY <2>3 DEF Send, Goto, Phase, Serving
  <2> QED
    BY <2>1, <2>2, <2>3 DEF RequestStep
<1>2. /\ PhaseOf[c] = "asking"
      /\ Phase(c)' \in {"asking", "sent", "refused", "killed"}
  BY DEF RequestStep, OpenFails, CheckPipe, CreateReturnPipe, OpenPipe, Send,
     Goto, Phase, PhaseOf
<1>3. PhaseOf' = [PhaseOf EXCEPT ![c] = Phase(c)'] /\ ServingOf' = ServingOf
  BY <1>1, OneMoves, SameServing
<1>4. CASE Phase(c)' = "asking"
  <2>1. PhaseOf' = PhaseOf
    BY <1>2, <1>3, <1>4 DEF PhaseOf
  <2> QED
    BY <2>1, <1>1, <1>3 DEF Promise!requestVars, PhaseOf, ServingOf
<1>5. CASE Phase(c)' # "asking"
  <2>1. Promise!Settle(c)
    BY <1>1, <1>2, <1>3, <1>5 DEF Promise!Settle, Promise!Move, PhaseOf, ServingOf
  <2> QED
    BY <2>1 DEF Promise!Next
<1> QED
  BY <1>4, <1>5

\* A call begins a request.
LEMMA CallPromise ==
  ASSUME PInv, NEW c \in Client, NEW k \in Command, Call(c, k)
  PROVE  [Promise!Next]_(Promise!requestVars)
<1> USE DEF PInv, IInv, TypeOK, clientVars, serverVars
<1>1. /\ \A d \in Client \ {c} : Phase(d)' = Phase(d)
      /\ \A s \in Server : Serving(s)' = Serving(s)
      /\ PhaseOf[c] = "idle" /\ Phase(c)' = "asking"
      /\ cmd' = [cmd EXCEPT ![c] = k]
  BY DEF Call, Goto, Phase, Serving, PhaseOf
<1>2. PhaseOf' = [PhaseOf EXCEPT ![c] = "asking"] /\ ServingOf' = ServingOf
  BY <1>1, OneMoves, SameServing
<1>3. Promise!Ask(c)
  BY <1>1, <1>2 DEF Promise!Ask, Promise!Move, PhaseOf, ServingOf
<1> QED
  BY <1>3 DEF Promise!Next

\* Dropping a stream, and seeing null: whoever was answering this client is
\* left without it.
LEMMA DropPromise ==
  ASSUME PInv, NEW c \in Client, Close(c) \/ SeeNull(c)
  PROVE  [Promise!Next]_(Promise!requestVars)
<1> USE DEF PInv, IInv, TypeOK, clientVars, serverVars
<1>1. /\ \A d \in Client \ {c} : Phase(d)' = Phase(d)
      /\ PhaseOf[c] \in {"partial", "full", "short", "refused"}
      /\ Phase(c)' = "idle"
      /\ cmd' = cmd
  BY DEF Close, SeeNull, Goto, Phase, PhaseOf, StreamAnswered
<1>2. PhaseOf' = [PhaseOf EXCEPT ![c] = "idle"]
  BY <1>1, OneMoves
<1>3. ASSUME NEW s \in Server
      PROVE  ServingOf[s]' = IF ServingOf[s] # NoClient /\ ServingOf[s].client = c
                             THEN NoClient ELSE ServingOf[s]
  <2>1. ServingOf[s] # NoClient /\ ServingOf[s].client = c <=> peer[s] = c
    <3>1. CASE peer[s] \in Client
      <4>1. ServingOf[s] # NoClient /\ ServingOf[s].client = peer[s]
        BY <3>1, WritersServe DEF ServingOf
      <4> QED
        BY <4>1
    <3>2. CASE peer[s] \notin Client
      BY <3>2 DEF ServingOf, Serving
    <3> QED
      BY <3>1, <3>2
  <2>2. peer[s]' = (IF peer[s] = c THEN NoClient ELSE peer[s]) /\ job[s]' = job[s]
    <3>1. CASE Close(c)
      BY <3>1 DEF Close
    <3>2. CASE SeeNull(c)
      BY <3>2, ConstantsDistinct DEF SeeNull, AnswersOwnRequest
    <3> QED
      BY <3>1, <3>2
  <2> QED
    BY <2>1, <2>2, ConstantsDistinct DEF ServingOf, Serving
<1>4. ServingOf' = [s \in Server |->
                     IF ServingOf[s] # NoClient /\ ServingOf[s].client = c
                     THEN NoClient ELSE ServingOf[s]]
  BY <1>3 DEF ServingOf
<1>5. Promise!Drop(c)
  BY <1>1, <1>2, <1>4 DEF Promise!Drop, Promise!Move, PhaseOf, ServingOf
<1> QED
  BY <1>5 DEF Promise!Next

\* Steps of a server that changes neither whom it answers nor an answer.
LEMMA ServerStutters ==
  ASSUME PInv, NEW s \in Server, Start(s) \/ Detach(s) \/ Listen(s) \/ Take(s)
  PROVE  UNCHANGED Promise!requestVars
<1> USE DEF PInv, IInv, TypeOK, clientVars, serverVars
<1>1. \A d \in Client : Phase(d)' = Phase(d)
  <2> SUFFICES ASSUME NEW d \in Client PROVE Phase(d)' = Phase(d)
    OBVIOUS
  <2>1. reply'[d] = reply[d]
    BY DEF Start, Detach, Listen, Take
  <2>2. step'[d] = step[d] \/ (step[d] = "blocked" /\ step'[d] = "send")
    BY DEF Start, Detach, Listen, Take
  <2> QED
    BY <2>1, <2>2 DEF Phase
<1>2. cmd' = cmd /\ peer' = peer
  BY DEF Start, Detach, Listen, Take
<1>3. \A t \in Server : peer[t] \in Client => job[t]' = job[t]
  BY DEF Start, Detach, Listen, Take, AnswersOwnRequest
<1>4. \A t \in Server : Serving(t)' = Serving(t)
  BY <1>2, <1>3 DEF Serving
<1> QED
  BY <1>1, <1>2, <1>4, NoneMoves, SameServing
  DEF Promise!requestVars, PhaseOf, ServingOf

\* The client whose return FIFO the server opens is the one that asked.
LEMMA ServePromise ==
  ASSUME PInv, NEW s \in Server, OpenReply(s)
  PROVE  [Promise!Next]_(Promise!requestVars)
<1> USE DEF PInv, IInv, TypeOK, clientVars, serverVars
<1>1. PICK c \in Client :
        /\ step[c] = "await" /\ ret[c] = job[s].ret
        /\ Goto(c, "stream")
        /\ reply' = [reply EXCEPT ![c] = "partial"]
        /\ peer' = [peer EXCEPT ![s] = c]
  BY DEF OpenReply
<1>2. sstate[s] = "answering" /\ cmd' = cmd /\ job' = job
  BY DEF OpenReply
<1>3. job[s].cmd = cmd[c]
  <2>1. PICK d \in Client : step[d] = "await" /\ ret[d] = job[s].ret /\ cmd[d] = job[s].cmd
    BY <1>2 DEF MessagesAwaited, Awaited
  <2>2. c = d
    BY <1>1, <2>1 DEF FilesAccounted, Holding
  <2> QED
    BY <2>1, <2>2
<1>4. /\ \A d \in Client \ {c} : Phase(d)' = Phase(d)
      /\ PhaseOf[c] = "sent" /\ Phase(c)' = "partial"
  BY <1>1 DEF Goto, Phase, PhaseOf
<1>5. PhaseOf' = [PhaseOf EXCEPT ![c] = "partial"]
  BY <1>4, OneMoves
<1>6. ServingOf[s] = NoClient
  BY <1>2, OnlyWritersServe DEF ServingOf
<1>7. ServingOf' = [ServingOf EXCEPT ![s] = [client |-> c, cmd |-> cmd[c]]]
  BY <1>1, <1>2, <1>3 DEF ServingOf, Serving
<1>8. Promise!Serve(s, c)
  BY <1>2, <1>4, <1>5, <1>6, <1>7 DEF Promise!Serve, Promise!Move, PhaseOf, ServingOf
<1> QED
  BY <1>8 DEF Promise!Next

\* The end of an answer, whole or cut short, is seen by the client it is for.
LEMMA EndPromise ==
  ASSUME PInv, NEW s \in Server, NEW how \in {"full", "short"},
         EndReply(s, how), peer' = [peer EXCEPT ![s] = NoClient],
         job' = [job EXCEPT ![s] = NoMessage],
         UNCHANGED <<step, cmd>>
  PROVE  [Promise!Next]_(Promise!requestVars)
<1> USE DEF PInv, IInv, TypeOK
<1>1. \A t \in Server \ {s} : Serving(t)' = Serving(t)
  BY DEF Serving
<1>2. Serving(s)' = NoClient
  BY ConstantsDistinct DEF Serving
<1>3. CASE peer[s] = NoClient
  <2>1. \A d \in Client : Phase(d)' = Phase(d)
    BY <1>3, ConstantsDistinct DEF EndReply, Phase
  <2>2. \A t \in Server : Serving(t)' = Serving(t)
    BY <1>1, <1>2, <1>3, ConstantsDistinct DEF Serving
  <2> QED
    BY <2>1, <2>2, NoneMoves, SameServing DEF Promise!requestVars, PhaseOf, ServingOf
<1>4. CASE peer[s] \in Client
  <2>0. PICK c \in Client : c = peer[s]
    BY <1>4
  <2>1. step[c] = "stream" /\ reply[c] = "partial"
    BY <2>0 DEF AnswersOwnRequest
  <2>2. \A d \in Client \ {c} : Phase(d)' = Phase(d)
    BY <2>0 DEF EndReply, Phase
  <2>3. PhaseOf[c] = "partial" /\ Phase(c)' = how
    <3>1. reply'[c] = how /\ step'[c] = "stream"
      BY <2>0, <2>1 DEF EndReply
    <3> QED
      BY <2>1, <3>1 DEF Phase, PhaseOf
  <2>4. PhaseOf' = [PhaseOf EXCEPT ![c] = how]
    BY <2>2, <2>3, OneMoves
  <2>5. ServingOf[s] = [client |-> c, cmd |-> job[s].cmd] /\ ServingOf[s] # NoClient
    BY <2>0, WritersServe DEF ServingOf
  <2>6. ServingOf' = [ServingOf EXCEPT ![s] = NoClient]
    BY <1>1, <1>2, OneServer
  <2>7. ServingOf[s].client = c
    BY <2>5
  <2>8. Promise!EndAnswer(s)
    BY <2>3, <2>4, <2>5, <2>6, <2>7 DEF Promise!EndAnswer, Promise!Move, PhaseOf, ServingOf
  <2> QED
    BY <2>8 DEF Promise!Next
<1> QED
  BY <1>3, <1>4

\* Every step of the protocol is one of the promise, or none.
LEMMA PromiseStep ==
  ASSUME PInv, [Next]_readerVars
  PROVE  [Promise!Next]_(Promise!requestVars)
<1>1. ASSUME NEW c \in Client, RequestStep(c) \/ OpenFails(c) \/ CallerStep(c)
      PROVE  [Promise!Next]_(Promise!requestVars)
  BY <1>1, RequestPromise, CallPromise, DropPromise DEF CallerStep
<1>2. ASSUME NEW s \in Server, Start(s) \/ ServerStep(s) \/ Crash(s)
      PROVE  [Promise!Next]_(Promise!requestVars)
  <2>1. CASE Start(s) \/ Detach(s) \/ Listen(s) \/ Take(s)
    BY <2>1, ServerStutters
  <2>2. CASE OpenReply(s)
    BY <2>2, ServePromise
  <2>3. CASE Finish(s)
    BY <2>3, EndPromise DEF Finish
  <2>4. CASE Exit(s)
    <3>1. peer[s] = NoClient
      BY <2>4, OnlyWritersServe DEF Exit, PInv
    <3>2. EndReply(s, "full")
      BY <2>4, <3>1, ConstantsDistinct DEF Exit, EndReply, PInv, IInv, TypeOK
    <3> QED
      BY <2>4, <3>2, EndPromise DEF Exit, Die
  <2>5. CASE Crash(s)
    BY <2>5, EndPromise DEF Crash, Die
  <2> QED
    BY <1>2, <2>1, <2>2, <2>3, <2>4, <2>5 DEF ServerStep
<1>3. CASE UNCHANGED readerVars
  <2>1. \A d \in Client : Phase(d)' = Phase(d)
    BY <1>3 DEF readerVars, clientVars, Phase
  <2>2. cmd' = cmd /\ \A s \in Server : Serving(s)' = Serving(s)
    BY <1>3 DEF readerVars, clientVars, serverVars, Serving
  <2> QED
    BY <2>1, <2>2, NoneMoves, SameServing DEF Promise!requestVars, PhaseOf, ServingOf
<1> QED
  BY <1>1, <1>2, <1>3 DEF Next

\* Every behaviour of the FIFO protocol is one that module Request allows: a
\* request is executed at most once, after it was sent, with its own command.
THEOREM ReaderKeepsPromise == Spec => KeepsPromise
<1>1. Init => Promise!Init
  BY ConstantsDistinct DEF Init, Promise!Init, Phase, Serving, Command
<1>2. Init => StreamAnswered
  BY DEF Init, StreamAnswered
<1>3. PInv /\ [Next]_readerVars => [Promise!Next]_(Promise!requestVars)
  BY PromiseStep
<1>4. IInv /\ StreamAnswered /\ [Next]_readerVars => StreamAnswered'
  BY StreamStep
<1> QED
  BY <1>1, <1>2, <1>3, <1>4, Invariance, PTL DEF Spec, PInv, KeepsPromise, Promise!Spec
=============================================================================
