----------------------------- MODULE Windows_proofs -----------------------------
(***************************************************************************)
(* Proofs about WindowsControl, for any number of objects, servers and     *)
(* names, any flags and all faults: the types, the handles a process has   *)
(* open, and the agreement of the two ends of a connection.  Then about    *)
(* PipeBuffer, for a buffer and writes of any size: what a reader is given.*)
(***************************************************************************)
EXTENDS WindowsControl, PipeBuffer, Integers, SequenceTheorems, TLAPS

\* A request is made only from within a call, for the command of that call;
\* only a destructor that stops the server asks it to exit or waits for it;
\* a process is started once, by a constructor; waitUntilReady has a check left.
InCall ==
  \A c \in Client :
    /\ step[c] # "out" => life[c] \in {"construct", "isReady", "wait", "open", "destroy"}
    /\ step[c] # "out" /\ cmd[c] = "Exit" => life[c] = "destroy"
    /\ life[c] \in {"destroy", "reap"} => ~flags[c].leave
    /\ child[c] # NoServer => life[c] \notin {"unborn", "construct", "create"}
    /\ life[c] = "wait" => polls[c] > 0

\* The types without the counts, which HandlesAccounted keeps from below zero.
Types ==
  /\ flags \in [Client -> FlagChoices]
  /\ name \in [Client -> Name \cup {NoName}]
  /\ life \in [Client -> Lives]
  /\ polls \in [Client -> Nat]
  /\ child \in [Client -> Server \cup {NoServer}]
  /\ calls \in [Client -> 0..MaxCalls]
  /\ step \in [Client -> {"out", "connect", "write", "read", "null"}]
  /\ cmd \in [Client -> Command]
  /\ pipe \in [Client -> Server \cup {NoServer}]
  /\ reply \in [Client -> {"none", "partial", "full", "short"}]
  /\ handles \in [Client -> Int] /\ broken \in [Client -> Nat]
  /\ sstate \in [Server -> ServerStates]
  /\ sname \in [Server -> Name \cup {NoName}]
  /\ peer \in [Server -> Client \cup {NoClient}]
  /\ job \in [Server -> Command]

IInv == Types /\ InCall /\ HandlesAccounted /\ EndsAgree

-----------------------------------------------------------------------------
\* Every step keeps the types.
LEMMA TypesStep ==
  ASSUME Types, InCall, [Next]_vars
  PROVE  Types'
<1> USE WindowsConstants DEF Types
<1>1. ASSUME NEW c \in Client, Running(c) \/ User(c)
      PROVE  Types'
  <2>1. CASE CreateFile(c)
    <3>1. UNCHANGED <<flags, name, life, polls, child, calls, cmd, reply, broken, sname, job>>
      BY <2>1 DEF CreateFile, objectVars
    <3>2. step' \in [Client -> {"out", "connect", "write", "read", "null"}]
      <4>1. Goto(c, "write") \/ Goto(c, "null")
        BY <2>1 DEF CreateFile
      <4> QED
        BY <4>1 DEF Goto
    <3>3. pipe' \in [Client -> Server \cup {NoServer}]
      BY <2>1 DEF CreateFile, Listeners
    <3>4. handles' \in [Client -> Int]
      BY <2>1 DEF CreateFile
    <3>5. peer' \in [Server -> Client \cup {NoClient}]
      BY <2>1 DEF CreateFile, Listeners
    <3>6. sstate' \in [Server -> ServerStates]
      BY <2>1 DEF CreateFile, Listeners, Become, ServerStates
    <3> QED
      BY <3>1, <3>2, <3>3, <3>4, <3>5, <3>6
  <2>2. CASE WriteFile(c)
    <3>1. UNCHANGED <<flags, name, life, polls, child, calls, cmd, handles, sname, peer>>
      BY <2>2 DEF WriteFile, objectVars
    <3>2. step' \in [Client -> {"out", "connect", "write", "read", "null"}]
      BY <2>2 DEF WriteFile, Goto
    <3>3. pipe' \in [Client -> Server \cup {NoServer}]
      BY <2>2 DEF WriteFile
    <3>4. broken' \in [Client -> Nat]
      BY <2>2 DEF WriteFile
    <3>5. reply' \in [Client -> {"none", "partial", "full", "short"}]
      BY <2>2 DEF WriteFile
    <3>6. job' \in [Server -> Command]
      BY <2>2 DEF WriteFile
    <3>7. sstate' \in [Server -> ServerStates]
      BY <2>2 DEF WriteFile, Become, ServerStates
    <3> QED
      BY <3>1, <3>2, <3>3, <3>4, <3>5, <3>6, <3>7
  <2>3. CASE CreateProcess(c)
    <3>1. UNCHANGED <<flags, name, polls, calls, step, cmd, pipe, reply, broken, peer, job>>
      BY <2>3 DEF CreateProcess, requestVars
    <3>2. life' \in [Client -> Lives]
      BY <2>3 DEF CreateProcess, Enter, Lives
    <3>3. child' \in [Client -> Server \cup {NoServer}]
      BY <2>3 DEF CreateProcess
    <3>4. handles' \in [Client -> Int]
      BY <2>3 DEF CreateProcess
    <3>5. sname' \in [Server -> Name \cup {NoName}]
      BY <2>3 DEF CreateProcess
    <3>6. sstate' \in [Server -> ServerStates]
      BY <2>3 DEF CreateProcess, Become, ServerStates
    <3> QED
      BY <3>1, <3>2, <3>3, <3>4, <3>5, <3>6
  <2>4. CASE Probe(c)
    BY <2>4 DEF Probe, Call, Goto, objectVars, countVars, serverVars, Lives, Command, ServerStates
  <2>5. CASE Answer(c)
    <3>1. UNCHANGED <<flags, name, child, calls, cmd, broken, sstate, sname, job>>
      BY <2>5 DEF Answer, SeeNull, Close, countVars, serverVars
    <3>2. life' \in [Client -> Lives]
      BY <2>5 DEF Answer, Enter, Again, Lives
    <3>3. polls' \in [Client -> Nat]
      BY <2>5 DEF Answer, InCall
    <3>4. step' \in [Client -> {"out", "connect", "write", "read", "null"}]
      BY <2>5 DEF Answer, SeeNull, Close, Goto
    <3>5. pipe' \in [Client -> Server \cup {NoServer}]
      BY <2>5 DEF Answer, SeeNull, Close
    <3>6. reply' \in [Client -> {"none", "partial", "full", "short"}]
      BY <2>5 DEF Answer, SeeNull, Close
    <3>7. handles' \in [Client -> Int]
      BY <2>5 DEF Answer, SeeNull, Close, countVars
    <3>8. peer' \in [Server -> Client \cup {NoClient}]
      BY <2>5 DEF Answer, SeeNull, Close, serverVars
    <3> QED
      BY <3>1, <3>2, <3>3, <3>4, <3>5, <3>6, <3>7, <3>8
  <2>6. CASE Reap(c)
    BY <2>6 DEF Reap, Enter, requestVars, serverVars, Lives, Command, ServerStates
  <2>7. CASE Construct(c)
    BY <2>7 DEF Construct, Drawn, Enter, requestVars, countVars, serverVars, Lives, Command, ServerStates
  <2>8. CASE IsReady(c)
    BY <2>8 DEF IsReady, UserCalls, Enter, requestVars, countVars, serverVars, Lives, Command, ServerStates
  <2>9. CASE WaitUntilReady(c)
    BY <2>9 DEF WaitUntilReady, UserCalls, Enter, requestVars, countVars, serverVars, Lives, Command, ServerStates
  <2>10. CASE OpenChart(c)
    BY <2>10 DEF OpenChart, UserCalls, Call, Enter, Goto, countVars, serverVars, Lives, Command, ServerStates
  <2>11. CASE ChartDone(c)
    <3>1. UNCHANGED <<flags, name, polls, child, calls, cmd, broken, sstate, sname, job>>
      BY <2>11 DEF ChartDone, SeeNull, Close, countVars, serverVars
    <3>2. life' \in [Client -> Lives]
      BY <2>11 DEF ChartDone, Enter, Lives
    <3>3. step' \in [Client -> {"out", "connect", "write", "read", "null"}]
      BY <2>11 DEF ChartDone, SeeNull, Close, Goto
    <3>4. pipe' \in [Client -> Server \cup {NoServer}]
      BY <2>11 DEF ChartDone, SeeNull, Close
    <3>5. reply' \in [Client -> {"none", "partial", "full", "short"}]
      BY <2>11 DEF ChartDone, SeeNull, Close
    <3>6. handles' \in [Client -> Int]
      BY <2>11 DEF ChartDone, SeeNull, Close, countVars
    <3>7. peer' \in [Server -> Client \cup {NoClient}]
      BY <2>11 DEF ChartDone, SeeNull, Close, serverVars
    <3> QED
      BY <3>1, <3>2, <3>3, <3>4, <3>5, <3>6, <3>7
  <2>12. CASE Destroy(c)
    BY <2>12 DEF Destroy, Enter, requestVars, countVars, serverVars, Lives, Command, ServerStates
  <2> HIDE DEF Types
  <2> QED
    BY <1>1, <2>1, <2>2, <2>3, <2>4, <2>5, <2>6, <2>7, <2>8, <2>9, <2>10, <2>11, <2>12 DEF Running, User
<1>2. ASSUME NEW s \in Server, ServerStep(s) \/ Crash(s)
      PROVE  Types'
  <2>1. CASE Listen(s)
    BY <2>1 DEF Listen, Become, objectVars, requestVars, countVars, ServerStates
  <2>2. CASE Finish(s)
    BY <2>2 DEF Finish, Become, objectVars, countVars, ServerStates
  <2>3. CASE Exit(s)
    BY <2>3 DEF Exit, Become, objectVars, requestVars, countVars, ServerStates
  <2>4. CASE Crash(s)
    BY <2>4 DEF Crash, Become, objectVars, countVars, ServerStates
  <2> HIDE DEF Types
  <2> QED
    BY <1>2, <2>1, <2>2, <2>3, <2>4 DEF ServerStep
<1>3. CASE UNCHANGED vars
  BY <1>3 DEF vars, objectVars, requestVars, countVars, serverVars
<1> QED
  BY <1>1, <1>2, <1>3 DEF Next

\* Every step keeps requests within their calls.
LEMMA InCallStep ==
  ASSUME Types, InCall, [Next]_vars
  PROVE  InCall'
<1> USE WindowsConstants DEF Types, InCall
<1>1. ASSUME NEW c \in Client, Running(c) \/ User(c)
      PROVE  InCall'
  <2>1. CASE CreateFile(c)
    BY <2>1 DEF CreateFile, Goto, objectVars
  <2>2. CASE WriteFile(c)
    BY <2>2 DEF WriteFile, Goto, objectVars
  <2>3. CASE CreateProcess(c)
    BY <2>3 DEF CreateProcess, Enter, requestVars
  <2>4. CASE Probe(c)
    BY <2>4 DEF Probe, Call, Goto, objectVars
  <2>5. CASE Answer(c)
    BY <2>5 DEF Answer, SeeNull, Close, Enter, Goto, Again
  <2>6. CASE Reap(c)
    BY <2>6 DEF Reap, Enter, requestVars
  <2>7. CASE Construct(c)
    BY <2>7 DEF Construct, Enter, requestVars
  <2>8. CASE IsReady(c)
    BY <2>8 DEF IsReady, UserCalls, Enter, requestVars
  <2>9. CASE WaitUntilReady(c)
    BY <2>9 DEF WaitUntilReady, UserCalls, Enter, requestVars
  <2>10. CASE OpenChart(c)
    BY <2>10 DEF OpenChart, UserCalls, Call, Enter, Goto
  <2>11. CASE ChartDone(c)
    BY <2>11 DEF ChartDone, SeeNull, Close, Enter, Goto
  <2>12. CASE Destroy(c)
    BY <2>12 DEF Destroy, Enter, requestVars
  <2> HIDE DEF Types, InCall
  <2> QED
    BY <1>1, <2>1, <2>2, <2>3, <2>4, <2>5, <2>6, <2>7, <2>8, <2>9, <2>10, <2>11, <2>12 DEF Running, User
<1>2. ASSUME NEW s \in Server, ServerStep(s) \/ Crash(s)
      PROVE  InCall'
  <2>1. UNCHANGED <<flags, life, polls, child, step, cmd>>
    BY <1>2 DEF ServerStep, Listen, Finish, Exit, Crash, objectVars, requestVars
  <2> QED
    BY <2>1
<1>3. CASE UNCHANGED vars
  BY <1>3 DEF vars, objectVars, requestVars
<1> QED
  BY <1>1, <1>2, <1>3 DEF Next

-----------------------------------------------------------------------------
\* Every step keeps the count of the handles.
LEMMA HandlesStep ==
  ASSUME Types, InCall, HandlesAccounted, [Next]_vars
  PROVE  HandlesAccounted'
<1> USE WindowsConstants DEF Types, InCall, HandlesAccounted, One
<1>1. ASSUME NEW c \in Client, Running(c) \/ User(c)
      PROVE  HandlesAccounted'
  <2>1. CASE CreateFile(c)
    BY <2>1 DEF CreateFile, Goto, objectVars
  <2>2. CASE WriteFile(c)
    <3>1. UNCHANGED <<flags, life, child, handles>> /\ step[c] = "write"
      BY <2>2 DEF WriteFile, objectVars
    <3>2. \/ step' = [step EXCEPT ![c] = "read"] /\ broken' = broken
          \/ /\ step' = [step EXCEPT ![c] = "null"]
             /\ broken' = [broken EXCEPT ![c] = @ + 1]
      BY <2>2 DEF WriteFile, Goto
    <3> QED
      BY <3>1, <3>2
  <2>3. CASE CreateProcess(c)
    BY <2>3 DEF CreateProcess, Enter, requestVars
  <2>4. CASE Probe(c)
    BY <2>4 DEF Probe, Call, Goto, objectVars, countVars
  <2>5. CASE Answer(c)
    BY <2>5 DEF Answer, SeeNull, Close, Enter, Goto, Again, countVars
  <2>6. CASE Reap(c)
    BY <2>6 DEF Reap, Enter, requestVars
  <2>7. CASE Construct(c)
    BY <2>7 DEF Construct, Enter, requestVars, countVars
  <2>8. CASE IsReady(c)
    BY <2>8 DEF IsReady, UserCalls, Enter, requestVars, countVars
  <2>9. CASE WaitUntilReady(c)
    BY <2>9 DEF WaitUntilReady, UserCalls, Enter, requestVars, countVars
  <2>10. CASE OpenChart(c)
    BY <2>10 DEF OpenChart, UserCalls, Call, Enter, Goto, countVars
  <2>11. CASE ChartDone(c)
    BY <2>11 DEF ChartDone, SeeNull, Close, Enter, Goto, countVars
  <2>12. CASE Destroy(c)
    BY <2>12 DEF Destroy, Enter, requestVars, countVars
  <2> HIDE DEF Types, InCall, HandlesAccounted
  <2> QED
    BY <1>1, <2>1, <2>2, <2>3, <2>4, <2>5, <2>6, <2>7, <2>8, <2>9, <2>10, <2>11, <2>12 DEF Running, User
<1>2. ASSUME NEW s \in Server, ServerStep(s) \/ Crash(s)
      PROVE  HandlesAccounted'
  <2>1. UNCHANGED <<flags, life, child, step, handles, broken>>
    BY <1>2 DEF ServerStep, Listen, Finish, Exit, Crash, objectVars, requestVars, countVars
  <2> QED
    BY <2>1
<1>3. CASE UNCHANGED vars
  BY <1>3 DEF vars, objectVars, requestVars, countVars
<1> QED
  BY <1>1, <1>2, <1>3 DEF Next

\* Every step keeps the two ends of each connection in agreement.
LEMMA EndsStep ==
  ASSUME Types, InCall, EndsAgree, [Next]_vars
  PROVE  EndsAgree'
<1> USE WindowsConstants DEF Types, InCall, EndsAgree
<1>1. ASSUME NEW c \in Client, Running(c) \/ User(c)
      PROVE  EndsAgree'
  <2>1. CASE CreateFile(c)
    <3>1. UNCHANGED <<flags, life, name, cmd, reply, sname, job>> /\ step[c] = "connect"
      BY <2>1 DEF CreateFile, objectVars
    <3>2. \A t \in Server : peer[t] # c
      BY <3>1
    <3>3. CASE UNCHANGED <<pipe, peer, sstate>> /\ Goto(c, "null")
      BY <3>1, <3>2, <3>3 DEF Goto
    <3>4. ASSUME NEW s \in Listeners(c),
                 pipe' = [pipe EXCEPT ![c] = s], peer' = [peer EXCEPT ![s] = c],
                 Become(s, "busy"), Goto(c, "write")
          PROVE  EndsAgree'
      <4>1. s \in Server /\ sstate[s] = "listening" /\ sname[s] = name[c]
        BY DEF Listeners
      <4>2. peer[s] = NoClient
        BY <4>1
      <4> QED
        BY <3>1, <3>2, <3>4, <4>1, <4>2 DEF Goto, Become
    <3> QED
      BY <2>1, <3>3, <3>4 DEF CreateFile
  <2>2. CASE WriteFile(c)
    BY <2>2 DEF WriteFile, Goto, Become, objectVars
  <2>3. CASE CreateProcess(c)
    BY <2>3 DEF CreateProcess, Enter, Become, requestVars
  <2>4. CASE Probe(c)
    BY <2>4 DEF Probe, Call, Goto, objectVars, serverVars
  <2>5. CASE Answer(c)
    BY <2>5 DEF Answer, SeeNull, Close, Enter, Goto, serverVars
  <2>6. CASE Reap(c)
    BY <2>6 DEF Reap, Enter, requestVars, serverVars
  <2>7. CASE Construct(c)
    <3>1. step[c] = "out" /\ UNCHANGED <<flags, step, cmd, pipe, reply, serverVars>>
      BY <2>7 DEF Construct, requestVars
    <3>2. \A d \in Client \ {c} : name'[d] = name[d] /\ life'[d] = life[d]
      BY <2>7 DEF Construct, Enter
    <3> QED
      BY <3>1, <3>2 DEF serverVars
  <2>8. CASE IsReady(c)
    BY <2>8 DEF IsReady, UserCalls, Enter, requestVars, serverVars
  <2>9. CASE WaitUntilReady(c)
    BY <2>9 DEF WaitUntilReady, UserCalls, Enter, requestVars, serverVars
  <2>10. CASE OpenChart(c)
    BY <2>10 DEF OpenChart, UserCalls, Call, Enter, Goto, serverVars
  <2>11. CASE ChartDone(c)
    BY <2>11 DEF ChartDone, SeeNull, Close, Enter, Goto, serverVars
  <2>12. CASE Destroy(c)
    BY <2>12 DEF Destroy, Enter, requestVars, serverVars
  <2> HIDE DEF Types, InCall, EndsAgree
  <2> QED
    BY <1>1, <2>1, <2>2, <2>3, <2>4, <2>5, <2>6, <2>7, <2>8, <2>9, <2>10, <2>11, <2>12 DEF Running, User
<1>2. ASSUME NEW s \in Server, ServerStep(s) \/ Crash(s)
      PROVE  EndsAgree'
  <2>1. CASE Listen(s)
    BY <2>1 DEF Listen, Become, objectVars, requestVars
  <2>2. CASE Finish(s)
    BY <2>2 DEF Finish, Become, objectVars
  <2>3. CASE Exit(s)
    BY <2>3 DEF Exit, Become, objectVars, requestVars
  <2>4. CASE Crash(s)
    BY <2>4 DEF Crash, Become, objectVars
  <2> HIDE DEF Types, InCall, EndsAgree
  <2> QED
    BY <1>2, <2>1, <2>2, <2>3, <2>4 DEF ServerStep
<1>3. CASE UNCHANGED vars
  BY <1>3 DEF vars, objectVars, requestVars, serverVars
<1> QED
  BY <1>1, <1>2, <1>3 DEF Next

-----------------------------------------------------------------------------
\* The inductive invariant holds in every state.
THEOREM WindowsInvariance == Spec => []IInv
<1>1. Init => IInv
  <2> SUFFICES ASSUME Init
               PROVE  IInv
    OBVIOUS
  <2>1. Types
    BY WindowsConstants DEF Init, Types, Lives, Command, ServerStates
  <2>2. InCall /\ EndsAgree
    BY WindowsConstants DEF Init, InCall, EndsAgree
  <2>3. HandlesAccounted
    <3>1. \A c \in Client : /\ handles[c] = 0 /\ broken[c] = 0
                             /\ step[c] = "out" /\ child[c] = NoServer
      BY DEF Init
    <3>2. \A c \in Client :
            /\ ~(step[c] \in {"write", "read"})
            /\ ~(child[c] # NoServer /\ (life[c] = "destroyed" => flags[c].leave))
      BY <3>1
    <3>3. ASSUME NEW c \in Client
          PROVE  0 = One(step[c] \in {"write", "read"}) + 0
                     + One(child[c] # NoServer /\ (life[c] = "destroyed" => flags[c].leave))
      BY <3>2 DEF One
    <3> QED
      BY <3>1, <3>3 DEF HandlesAccounted
  <2> QED
    BY <2>1, <2>2, <2>3 DEF IInv
<1>2. IInv /\ [Next]_vars => IInv'
  BY TypesStep, InCallStep, HandlesStep, EndsStep DEF IInv
<1> QED
  BY <1>1, <1>2, PTL DEF Spec

\* The handles a process has open are those of the stream it reads, of the
\* server its object started, and of the requests whose WriteFile failed, for
\* any number of objects and servers (serverreader.cpp:205, servercontrol.cpp:194).
THEOREM HandlesAreAccounted == Spec => []HandlesAccounted
<1>1. IInv => HandlesAccounted
  BY DEF IInv
<1> QED
  BY <1>1, WindowsInvariance, PTL

\* A server answers the command of the client whose handle leads to it, and
\* exits only for a destructor that was not told to leave it running.
THEOREM EndsOfPipesAgree == Spec => []EndsAgree
<1>1. IInv => EndsAgree
  BY DEF IInv
<1> QED
  BY <1>1, WindowsInvariance, PTL

\* Every variable has its type; no handle is closed that is not open.
THEOREM WindowsTypeCorrect == Spec => []WindowsTypeOK
<1>1. IInv => WindowsTypeOK
  <2> SUFFICES ASSUME IInv
               PROVE  WindowsTypeOK
    OBVIOUS
  <2>1. handles \in [Client -> Nat]
    BY DEF IInv, Types, HandlesAccounted, One
  <2> QED
    BY <2>1 DEF IInv, Types, WindowsTypeOK
<1> QED
  BY <1>1, WindowsInvariance, PTL

-----------------------------------------------------------------------------
(* The bytes of an answer on their way through PipeBuffer.                 *)

ByteOrJunk == Nat \cup {Junk}
BufferTypes ==
  /\ sent \in Nat /\ empties \in Nat /\ next \in Nat /\ end \in 0..Size
  /\ closed \in BOOLEAN /\ peeked \in BOOLEAN /\ atEof \in BOOLEAN /\ iterates \in BOOLEAN
  /\ writes \in Seq(Seq(Nat))
  /\ buffer \in [1..Size -> ByteOrJunk]
  /\ got \in Seq(ByteOrJunk)

\* When d bytes have been read from the pipe, the writes in it are what comes
\* after them, without a gap: write w is preceded by start[w] bytes.
Fed(d) ==
  \E start \in [1..Len(writes) + 1 -> Nat] :
    /\ start[1] = d /\ start[Len(writes) + 1] = sent
    /\ \A w \in 1..Len(writes) :
         /\ start[w + 1] = start[w] + Len(writes[w])
         /\ \A i \in 1..Len(writes[w]) : writes[w][i] = start[w] + i

\* The get area holds the last of them; the rest of m_buffer is older, or what
\* it was before there was any.
Kept(d) ==
  /\ end <= d
  /\ \A i \in 1..Size : buffer[i] = Junk \/ buffer[i] \in 1..d
  /\ \A i \in 1..end : buffer[i] = d - end + i
  /\ d = 0 => \A i \in 1..Len(got) : got[i] = Junk
  /\ d > 0 => buffer[1] # Junk

\* The reader was given x bytes more than it has stepped over or looked at:
\* one for each empty write, or for each second one.
Passed == IF next < end THEN next ELSE end
Seen == IF peeked THEN 1 ELSE 0
Counted(d, x) ==
  /\ Len(got) = d - end + Passed + Seen + x
  /\ peeked => iterates
  /\ ~iterates => x = empties
  /\ iterates /\ ~atEof => 2 * x + (IF peeked /\ next >= end THEN 1 ELSE 0) <= empties
  /\ iterates /\ atEof => 2 * x <= empties + 1
  /\ atEof => ~peeked /\ next >= end /\ writes = << >> /\ closed

BufferInv ==
  /\ BufferTypes
  /\ \E d, x \in Nat : Fed(d) /\ Kept(d) /\ Counted(d, x)
  /\ DeliversAnswer /\ NothingAhead

\* ReadFile moves m bytes, those that come next, to the start of m_buffer.
LEMMA ReadMoves ==
  ASSUME BufferTypes, NEW d \in Nat, Fed(d), ReadFile
  PROVE  \E m \in 0..Size :
           /\ end' = m /\ Fed(d + m)'
           /\ empties' = IF m = 0 THEN empties + 1 ELSE empties
           /\ buffer' \in [1..Size -> ByteOrJunk]
           /\ \A i \in 1..Size : buffer'[i] = IF i <= m THEN d + i ELSE buffer[i]
           /\ writes' \in Seq(Seq(Nat)) /\ UNCHANGED <<sent, closed>>
<1>1. PICK start \in [1..Len(writes) + 1 -> Nat] :
        /\ start[1] = d /\ start[Len(writes) + 1] = sent
        /\ \A w \in 1..Len(writes) :
             /\ start[w + 1] = start[w] + Len(writes[w])
             /\ \A i \in 1..Len(writes[w]) : writes[w][i] = start[w] + i
  BY DEF Fed
<1>2. PICK N : N = Len(writes)
  OBVIOUS
<1>3. PICK write : write = writes[1]
  OBVIOUS
<1>4. PICK m : m = BytesRead(write)
  OBVIOUS
<1>5. /\ writes \in Seq(Seq(Nat)) /\ writes # << >> /\ N \in Nat /\ N >= 1
      /\ Head(writes) = write /\ write \in Seq(Nat) /\ Len(write) \in Nat
      /\ \A w \in 1..N : writes[w] \in Seq(Nat)
  BY <1>2, <1>3 DEF ReadFile, BufferTypes
<1>6. Size \in Nat /\ Size > 0
  BY BufferConstants
<1>7. m \in 0..Size /\ m <= Len(write) /\ (m < Len(write) => m = Size)
  BY <1>4, <1>5, <1>6 DEF BytesRead
<1>8. /\ buffer' = [i \in 1..Size |-> IF i <= m THEN write[i] ELSE buffer[i]]
      /\ end' = m
      /\ writes' = IF m < Len(write) THEN <<Rest(write)>> \o Tail(writes) ELSE Tail(writes)
      /\ empties' = IF m = 0 THEN empties + 1 ELSE empties
      /\ UNCHANGED <<sent, closed>>
  BY <1>4, <1>5 DEF ReadFile
<1>9. \A i \in 1..Len(write) : write[i] = d + i
  BY <1>1, <1>2, <1>3, <1>5
<1>10. /\ \A i \in 1..Size : buffer'[i] = IF i <= m THEN d + i ELSE buffer[i]
       /\ buffer' \in [1..Size -> ByteOrJunk]
  <2>1. \A i \in 1..Size : buffer'[i] = IF i <= m THEN d + i ELSE buffer[i]
    BY <1>6, <1>7, <1>8, <1>9
  <2>2. \A i \in 1..Size : buffer'[i] \in ByteOrJunk
    BY <1>6, <2>1 DEF BufferTypes, ByteOrJunk
  <2> QED
    BY <1>8, <2>1, <2>2
<1>11. start[2] = d + Len(write)
  BY <1>1, <1>2, <1>3, <1>5
<1>12. CASE m < Len(write)
  <2>1. m = Size /\ writes' = <<Rest(write)>> \o Tail(writes)
    BY <1>7, <1>8, <1>12
  <2>2. /\ Rest(write) \in Seq(Nat) /\ Len(Rest(write)) = Len(write) - m
        /\ \A i \in 1..Len(write) - m : Rest(write)[i] = d + m + i
    <3>1. /\ m + 1 \in Int /\ Len(write) \in Int /\ m + 1 <= Len(write)
          /\ \A i \in m + 1..Len(write) : write[i] \in Nat
      BY <1>5, <1>7, <1>12
    <3>2. /\ Rest(write) \in Seq(Nat) /\ Len(Rest(write)) = Len(write) - (m + 1) + 1
          /\ \A i \in 1..Len(write) - (m + 1) + 1 : Rest(write)[i] = write[(m + 1) + i - 1]
      <4>1. Rest(write) = SubSeq(write, m + 1, Len(write))
        BY <2>1 DEF Rest
      <4> QED
        BY <3>1, <4>1, SubSeqProperties
    <3>3. ASSUME NEW i \in 1..Len(write) - m
          PROVE  /\ i \in 1..Len(write) - (m + 1) + 1 /\ (m + 1) + i - 1 = m + i
                 /\ m + i \in 1..Len(write)
      BY <1>5, <1>7, <1>12
    <3>4. \A i \in 1..Len(write) - m : Rest(write)[i] = d + m + i
      BY <1>7, <1>9, <3>2, <3>3
    <3> QED
      BY <1>5, <1>7, <3>2, <3>4
  <2> HIDE DEF Rest
  <2>3. /\ Tail(writes) \in Seq(Seq(Nat)) /\ Len(Tail(writes)) = N - 1
        /\ \A w \in 1..N - 1 : Tail(writes)[w] = writes[w + 1]
    BY <1>2, <1>5
  <2>4. /\ writes' \in Seq(Seq(Nat)) /\ Len(writes') = N
        /\ writes'[1] = Rest(write)
        /\ \A w \in 2..N : writes'[w] = writes[w]
    BY <1>5, <2>1, <2>2, <2>3
  <2> DEFINE from == [start EXCEPT ![1] = d + m]
  <2>5. /\ from \in [1..N + 1 -> Nat] /\ from[1] = d + m
        /\ \A w \in 2..N + 1 : from[w] = start[w]
    BY <1>1, <1>2, <1>5, <1>7
  <2> HIDE DEF from
  <2>6. from[N + 1] = sent
    BY <1>1, <1>2, <1>5, <2>5
  <2>7. ASSUME NEW w \in 1..N
        PROVE  /\ from[w + 1] = from[w] + Len(writes'[w])
               /\ \A i \in 1..Len(writes'[w]) : writes'[w][i] = from[w] + i
    <3>1. CASE w = 1
      <4>1. from[2] = start[2] /\ from[1] = d + m /\ writes'[1] = Rest(write)
        BY <1>5, <2>4, <2>5
      <4>2. from[1] + Len(Rest(write)) = start[2]
        BY <1>5, <1>7, <1>11, <2>2, <4>1
      <4> QED
        BY <2>2, <3>1, <4>1, <4>2
    <3>2. CASE w # 1
      <4>1. w \in 2..N /\ w + 1 \in 2..N + 1 /\ w \in 2..N + 1
        BY <1>5, <3>2
      <4>2. from[w] = start[w] /\ from[w + 1] = start[w + 1] /\ writes'[w] = writes[w]
        BY <2>4, <2>5, <4>1
      <4> QED
        BY <1>1, <1>2, <4>2
    <3> QED
      BY <3>1, <3>2
  <2>8. Fed(d + m)'
    <3>1. /\ from \in [1..Len(writes') + 1 -> Nat]
          /\ from[1] = d + m /\ from[Len(writes') + 1] = sent'
          /\ \A w \in 1..Len(writes') :
               /\ from[w + 1] = from[w] + Len(writes'[w])
               /\ \A i \in 1..Len(writes'[w]) : writes'[w][i] = from[w] + i
      BY <1>8, <2>4, <2>5, <2>6, <2>7
    <3> QED
      BY <3>1 DEF Fed
  <2> QED
    BY <1>7, <1>8, <1>10, <2>4, <2>8
<1>13. CASE ~(m < Len(write))
  <2>1. m = Len(write) /\ writes' = Tail(writes)
    BY <1>5, <1>7, <1>8, <1>13
  <2>2. /\ writes' \in Seq(Seq(Nat)) /\ Len(writes') = N - 1
        /\ \A w \in 1..N - 1 : writes'[w] = writes[w + 1]
    BY <1>2, <1>5, <2>1
  <2> DEFINE from == [w \in 1..N |-> start[w + 1]]
  <2>3. /\ from \in [1..N -> Nat] /\ from[1] = d + m
        /\ \A w \in 1..N : from[w] = start[w + 1]
    BY <1>1, <1>2, <1>5, <1>11, <2>1
  <2> HIDE DEF from
  <2>4. ASSUME NEW w \in 1..N - 1
        PROVE  /\ from[w + 1] = from[w] + Len(writes'[w])
               /\ \A i \in 1..Len(writes'[w]) : writes'[w][i] = from[w] + i
    <3>1. w \in 1..N /\ w + 1 \in 1..N
      BY <1>5
    <3>2. writes'[w] = writes[w + 1] /\ from[w] = start[w + 1] /\ from[w + 1] = start[w + 2]
      BY <2>2, <2>3, <3>1
    <3>3. start[w + 2] = start[w + 1] + Len(writes[w + 1])
      BY <1>1, <1>2, <3>1
    <3> QED
      BY <1>1, <1>2, <3>1, <3>2, <3>3
  <2>5. Fed(d + m)'
    <3>1. Len(writes') + 1 = N /\ sent' = sent /\ from[N] = sent
      BY <1>1, <1>2, <1>5, <1>8, <2>2, <2>3
    <3>2. /\ from \in [1..Len(writes') + 1 -> Nat]
          /\ from[1] = d + m /\ from[Len(writes') + 1] = sent'
          /\ \A w \in 1..Len(writes') :
               /\ from[w + 1] = from[w] + Len(writes'[w])
               /\ \A i \in 1..Len(writes'[w]) : writes'[w][i] = from[w] + i
      BY <2>2, <2>3, <2>4, <3>1
    <3> QED
      BY <3>2 DEF Fed
  <2> QED
    BY <1>7, <1>8, <1>10, <2>2, <2>5
<1> QED
  BY <1>12, <1>13

\* A byte more for the reader, when it is not ahead of its place.
LEMMA GivenOne ==
  ASSUME BufferTypes, DeliversAnswer, NothingAhead, NEW b, got' = Append(got, b),
         b = Junk \/ b \in 1..Len(got) + 1,
         b = Junk => \A i \in 1..Len(got) : got[i] = Junk,
         empties' = 0 => empties = 0 /\ b = Len(got) + 1
  PROVE  /\ got' \in Seq(ByteOrJunk) /\ Len(got) \in Nat /\ Len(got') = Len(got) + 1
         /\ \A i \in 1..Len(got) : got'[i] = got[i]
         /\ got'[Len(got) + 1] = b
         /\ DeliversAnswer' /\ NothingAhead'
<1>1. got \in Seq(ByteOrJunk) /\ b \in ByteOrJunk /\ Len(got) \in Nat
  BY DEF BufferTypes, ByteOrJunk
<1>2. /\ got' \in Seq(ByteOrJunk) /\ Len(got') = Len(got) + 1
      /\ \A i \in 1..Len(got) : got'[i] = got[i]
      /\ got'[Len(got) + 1] = b
  BY <1>1
<1>3. \A i \in 1..Len(got') : i \in 1..Len(got) \/ i = Len(got) + 1
  BY <1>1, <1>2
<1>4. DeliversAnswer'
  BY <1>2, <1>3 DEF DeliversAnswer
<1>5. NothingAhead'
  <2> SUFFICES ASSUME NEW i \in 1..Len(got')
               PROVE  /\ got'[i] \in Nat => got'[i] <= i
                      /\ got'[i] = Junk => \A j \in 1..i : got'[j] = Junk
    BY DEF NothingAhead
  <2>1. CASE i \in 1..Len(got)
    <3>1. 1..i \subseteq 1..Len(got)
      BY <1>1, <2>1
    <3> QED
      BY <1>2, <2>1, <3>1 DEF NothingAhead
  <2>2. CASE i = Len(got) + 1
    <3>1. Junk \notin Nat
      BY BufferConstants
    <3>2. \A j \in 1..i : j \in 1..Len(got) \/ j = i
      BY <1>1, <2>2
    <3> QED
      BY <1>1, <1>2, <2>2, <3>1, <3>2
  <2> QED
    BY <1>3, <2>1, <2>2
<1> QED
  BY <1>1, <1>2, <1>4, <1>5

\* The server writes.
LEMMA WriteKeeps ==
  ASSUME BufferInv, NEW n \in Nat, Write(n)
  PROVE  BufferInv'
<1>1. PICK d, x \in Nat : Fed(d) /\ Kept(d) /\ Counted(d, x)
  BY DEF BufferInv
<1>2. PICK start \in [1..Len(writes) + 1 -> Nat] :
        /\ start[1] = d /\ start[Len(writes) + 1] = sent
        /\ \A w \in 1..Len(writes) :
             /\ start[w + 1] = start[w] + Len(writes[w])
             /\ \A i \in 1..Len(writes[w]) : writes[w][i] = start[w] + i
  BY <1>1 DEF Fed
<1>3. PICK N : N = Len(writes)
  OBVIOUS
<1>4. PICK bytes : bytes = [i \in 1..n |-> sent + i]
  OBVIOUS
<1>5. /\ ~closed /\ sent \in Nat /\ N \in Nat /\ writes \in Seq(Seq(Nat))
      /\ writes' = Append(writes, bytes) /\ sent' = sent + n
      /\ UNCHANGED <<closed, buffer, next, end, empties, peeked, got, atEof, iterates>>
  BY <1>3, <1>4 DEF Write, bufferVars, BufferInv, BufferTypes
<1>6. /\ bytes \in Seq(Nat) /\ Len(bytes) = n
      /\ \A i \in 1..n : bytes[i] = sent + i
  BY <1>4, <1>5
<1>7. /\ writes' \in Seq(Seq(Nat)) /\ Len(writes') = N + 1
      /\ \A w \in 1..N : writes'[w] = writes[w]
      /\ writes'[N + 1] = bytes
  BY <1>3, <1>5, <1>6
<1> DEFINE from == [w \in 1..N + 2 |-> IF w = N + 2 THEN sent + n ELSE start[w]]
<1>8. /\ from \in [1..N + 2 -> Nat] /\ from[N + 2] = sent + n
      /\ \A w \in 1..N + 1 : from[w] = start[w]
  BY <1>2, <1>3, <1>5
<1> HIDE DEF from
<1>9. ASSUME NEW w \in 1..N + 1
      PROVE  /\ from[w + 1] = from[w] + Len(writes'[w])
             /\ \A i \in 1..Len(writes'[w]) : writes'[w][i] = from[w] + i
  <2>1. CASE w = N + 1
    <3>1. from[w] = sent /\ from[w + 1] = sent + n /\ writes'[w] = bytes
      <4>1. N + 1 \in 1..N + 1 /\ (N + 1) + 1 = N + 2
        BY <1>5
      <4>2. from[N + 1] = sent
        BY <1>2, <1>3, <1>8, <4>1
      <4> QED
        BY <1>7, <1>8, <2>1, <4>1, <4>2
    <3> QED
      BY <1>6, <3>1
  <2>2. CASE w # N + 1
    <3>1. w \in 1..N /\ w + 1 \in 1..N + 1
      BY <1>5, <2>2
    <3>2. from[w] = start[w] /\ from[w + 1] = start[w + 1] /\ writes'[w] = writes[w]
      BY <1>7, <1>8, <3>1
    <3> QED
      BY <1>2, <1>3, <3>1, <3>2
  <2> QED
    BY <2>1, <2>2
<1>10. Fed(d)'
  <2>1. /\ from \in [1..Len(writes') + 1 -> Nat]
        /\ from[1] = d /\ from[Len(writes') + 1] = sent'
        /\ \A w \in 1..Len(writes') :
             /\ from[w + 1] = from[w] + Len(writes'[w])
             /\ \A i \in 1..Len(writes'[w]) : writes'[w][i] = from[w] + i
    <3>1. 1 \in 1..N + 1 /\ (N + 1) + 1 = N + 2
      BY <1>5
    <3>2. from[1] = d
      BY <1>2, <1>8, <3>1
    <3> QED
      BY <1>5, <1>7, <1>8, <1>9, <3>1, <3>2
  <2> QED
    BY <2>1 DEF Fed
<1>11. Kept(d)' /\ Counted(d, x)'
  <2>1. Kept(d)'
    BY <1>1, <1>5 DEF Kept
  <2>2. ~atEof
    BY <1>1, <1>5 DEF Counted
  <2> QED
    BY <1>1, <1>5, <2>1, <2>2 DEF Counted, Passed, Seen
<1>12. BufferTypes'
  <2>1. sent + n \in Nat
    BY <1>5
  <2> QED
    BY <1>5, <1>7, <2>1 DEF BufferInv, BufferTypes
<1>13. DeliversAnswer' /\ NothingAhead'
  BY <1>5 DEF BufferInv, DeliversAnswer, NothingAhead
<1> QED
  BY <1>1, <1>10, <1>11, <1>12, <1>13 DEF BufferInv

\* The end of the answer changes nothing that was read.
LEMMA DisconnectKeeps ==
  ASSUME BufferInv, Disconnect
  PROVE  BufferInv'
<1>1. PICK d, x \in Nat : Fed(d) /\ Kept(d) /\ Counted(d, x)
  BY DEF BufferInv
<1>2. /\ ~closed /\ closed' = TRUE
      /\ UNCHANGED <<sent, writes, buffer, next, end, empties, peeked, got, atEof, iterates>>
  BY DEF Disconnect, bufferVars
<1>3. Fed(d)' /\ Kept(d)' /\ Counted(d, x)'
  BY <1>1, <1>2 DEF Fed, Kept, Counted, Passed, Seen
<1>4. BufferTypes' /\ DeliversAnswer' /\ NothingAhead'
  BY <1>2 DEF BufferInv, BufferTypes, DeliversAnswer, NothingAhead
<1> QED
  BY <1>1, <1>3, <1>4 DEF BufferInv

\* underflow keeps m_buffer as it should be; what is at its start now is the
\* next byte, or what was there before when ReadFile read nothing.
LEMMA Refill ==
  ASSUME BufferTypes, NEW d \in Nat, Fed(d), Kept(d), ReadFile
  PROVE  \E m \in 0..Size :
           /\ end' = m /\ d + m \in Nat /\ Fed(d + m)'
           /\ empties' = IF m = 0 THEN empties + 1 ELSE empties
           /\ buffer' \in [1..Size -> ByteOrJunk]
           /\ writes' \in Seq(Seq(Nat)) /\ UNCHANGED <<sent, closed>>
           /\ buffer'[1] = IF m > 0 THEN d + 1 ELSE buffer[1]
           /\ (d + m = 0 => \A i \in 1..Len(got') : got'[i] = Junk) => Kept(d + m)'
<1>1. PICK m \in 0..Size :
        /\ end' = m /\ Fed(d + m)'
        /\ empties' = IF m = 0 THEN empties + 1 ELSE empties
        /\ buffer' \in [1..Size -> ByteOrJunk]
        /\ \A i \in 1..Size : buffer'[i] = IF i <= m THEN d + i ELSE buffer[i]
        /\ writes' \in Seq(Seq(Nat)) /\ UNCHANGED <<sent, closed>>
  BY ReadMoves
<1>2. Size \in Nat /\ Size > 0 /\ Junk \notin Nat /\ 1 \in 1..Size /\ m \in Nat /\ d + m \in Nat
  BY BufferConstants
<1>3. buffer'[1] = IF m > 0 THEN d + 1 ELSE buffer[1]
  BY <1>1, <1>2
<1>4. ASSUME d + m = 0 => \A i \in 1..Len(got') : got'[i] = Junk
      PROVE  Kept(d + m)'
  <2>1. m <= d + m
    BY <1>2
  <2>2. \A i \in 1..Size : buffer'[i] = Junk \/ buffer'[i] \in 1..d + m
    BY <1>1, <1>2 DEF Kept
  <2>3. \A i \in 1..m : buffer'[i] = d + m - m + i
    BY <1>1, <1>2
  <2>4. d + m > 0 => buffer'[1] # Junk
    BY <1>2, <1>3 DEF Kept
  <2> QED
    BY <1>1, <1>4, <2>1, <2>2, <2>3, <2>4 DEF Kept
<1> QED
  BY <1>1, <1>2, <1>3, <1>4

\* The reader is given the first byte of m_buffer after underflow.
LEMMA RefillGives ==
  ASSUME BufferInv, NEW d \in Nat, NEW x \in Nat, Fed(d), Kept(d), Counted(d, x),
         ReadFile, next >= end, ~peeked, ~atEof, got' = Append(got, buffer'[1])
  PROVE  \E m \in 0..Size :
           /\ end' = m /\ d + m \in Nat /\ Fed(d + m)' /\ Kept(d + m)'
           /\ empties' = IF m = 0 THEN empties + 1 ELSE empties
           /\ buffer' \in [1..Size -> ByteOrJunk]
           /\ writes' \in Seq(Seq(Nat)) /\ UNCHANGED <<sent, closed>>
           /\ got' \in Seq(ByteOrJunk) /\ Len(got) = d + x /\ Len(got') = d + x + 1
           /\ DeliversAnswer' /\ NothingAhead'
<1>1. BufferTypes /\ DeliversAnswer /\ NothingAhead
  BY DEF BufferInv
<1>2. PICK m \in 0..Size :
        /\ end' = m /\ d + m \in Nat /\ Fed(d + m)'
        /\ empties' = IF m = 0 THEN empties + 1 ELSE empties
        /\ buffer' \in [1..Size -> ByteOrJunk]
        /\ writes' \in Seq(Seq(Nat)) /\ UNCHANGED <<sent, closed>>
        /\ buffer'[1] = IF m > 0 THEN d + 1 ELSE buffer[1]
        /\ (d + m = 0 => \A i \in 1..Len(got') : got'[i] = Junk) => Kept(d + m)'
  BY <1>1, Refill
<1>3. PICK b : b = buffer'[1]
  OBVIOUS
<1>4. Size \in Nat /\ Size > 0 /\ Junk \notin Nat /\ 1 \in 1..Size /\ m \in Nat
  BY BufferConstants
<1>5. Len(got) = d + x /\ empties \in Nat /\ end \in Nat
  BY <1>1, <1>4 DEF Counted, Passed, Seen, BufferTypes
<1>6. buffer[1] = Junk \/ buffer[1] \in 1..d
  BY <1>4 DEF Kept
<1>7. b = Junk => m = 0 /\ d = 0
  BY <1>2, <1>3, <1>4 DEF Kept
<1>8. b = Junk \/ b \in 1..Len(got) + 1
  BY <1>2, <1>3, <1>4, <1>5, <1>6
<1>9. b = Junk => \A i \in 1..Len(got) : got[i] = Junk
  BY <1>7 DEF Kept
<1>10. empties' = 0 => empties = 0 /\ b = Len(got) + 1
  <2>1. empties = 0 => x = 0
    BY <1>1, <1>5 DEF Counted, BufferTypes
  <2> QED
    BY <1>2, <1>3, <1>4, <1>5, <2>1
<1>11. /\ got' \in Seq(ByteOrJunk) /\ Len(got) \in Nat /\ Len(got') = Len(got) + 1
       /\ \A i \in 1..Len(got) : got'[i] = got[i]
       /\ got'[Len(got) + 1] = b
       /\ DeliversAnswer' /\ NothingAhead'
  BY ONLY <1>1, <1>3, <1>8, <1>9, <1>10, got' = Append(got, buffer'[1]), GivenOne
<1>12. d + m = 0 => \A i \in 1..Len(got') : got'[i] = Junk
  <2> SUFFICES ASSUME d + m = 0, NEW i \in 1..Len(got')
               PROVE  got'[i] = Junk
    OBVIOUS
  <2>1. d = 0 /\ m = 0
    BY <1>4
  <2>2. b = Junk
    BY <1>2, <1>3, <1>6, <2>1
  <2>3. i \in 1..Len(got) \/ i = Len(got) + 1
    BY <1>11
  <2> QED
    BY <1>11, <2>1, <2>2, <2>3 DEF Kept
<1> QED
  BY <1>2, <1>5, <1>11, <1>12

\* The end of the file.
LEMMA EofKeeps ==
  ASSUME BufferInv, ~atEof, next >= end, Eof, peeked' = FALSE,
         UNCHANGED <<got, iterates>>
  PROVE  BufferInv'
<1>1. PICK d, x \in Nat : Fed(d) /\ Kept(d) /\ Counted(d, x)
  BY DEF BufferInv
<1>2. /\ atEof' = TRUE /\ writes = << >> /\ closed
      /\ UNCHANGED <<sent, writes, closed, buffer, next, end, empties>>
  BY DEF Eof, ReadFileFails, sentVars, bufferVars
<1>3. empties \in Nat /\ end \in Nat /\ next \in Nat /\ Len(got) \in Nat
  BY BufferConstants DEF BufferInv, BufferTypes
<1>4. Fed(d)' /\ Kept(d)'
  BY <1>1, <1>2 DEF Fed, Kept
<1>5. \E y \in Nat : Counted(d, y)'
  <2>1. CASE ~peeked
    <3>1. Counted(d, x)'
      BY <1>1, <1>2, <1>3, <2>1 DEF Counted, Passed, Seen
    <3> QED
      BY <3>1
  <2>2. CASE peeked
    <3>1. /\ iterates /\ Len(got) = d - end + end + 1 + x /\ 2 * x + 1 <= empties
      BY <1>1, <1>3, <2>2 DEF Counted, Passed, Seen
    <3>2. Counted(d, x + 1)'
      BY <1>2, <1>3, <3>1 DEF Counted, Passed, Seen
    <3> QED
      BY <3>2
  <2> QED
    BY <2>1, <2>2
<1>6. BufferTypes'
  BY <1>2, <1>3 DEF BufferInv, BufferTypes
<1>7. DeliversAnswer' /\ NothingAhead'
  BY <1>2 DEF BufferInv, DeliversAnswer, NothingAhead
<1> QED
  BY <1>1, <1>4, <1>5, <1>6, <1>7 DEF BufferInv

\* A byte from the get area.
LEMMA FromBuffer ==
  ASSUME BufferInv, NEW d \in Nat, NEW x \in Nat, Fed(d), Kept(d), Counted(d, x),
         ~atEof, ~peeked, next < end,
         got' = Append(got, buffer[next + 1]),
         UNCHANGED <<sent, writes, closed, buffer, end, empties>>
  PROVE  /\ got' \in Seq(ByteOrJunk) /\ Len(got') = Len(got) + 1
         /\ DeliversAnswer' /\ NothingAhead' /\ Fed(d)' /\ Kept(d)'
<1>1. BufferTypes /\ DeliversAnswer /\ NothingAhead
  BY DEF BufferInv
<1>2. PICK b : b = buffer[next + 1]
  OBVIOUS
<1>3. /\ Size \in Nat /\ Junk \notin Nat /\ end \in 0..Size /\ end \in Nat /\ next \in Nat
      /\ next + 1 \in 1..end /\ empties \in Nat
  BY <1>1, BufferConstants DEF BufferTypes
<1>4. b = d - end + next + 1 /\ end <= d
  BY <1>2, <1>3 DEF Kept
<1>5. Len(got) = d - end + next + x /\ (empties = 0 => x = 0)
  BY <1>1, <1>3 DEF Counted, Passed, Seen, BufferTypes
<1>6. /\ b \in 1..Len(got) + 1 /\ b \in Nat
      /\ empties = 0 => b = Len(got) + 1
  BY <1>3, <1>4, <1>5
<1>7. b # Junk
  BY <1>3, <1>6
<1>8. empties' = 0 => empties = 0 /\ b = Len(got) + 1
  BY <1>6
<1>9. got' = Append(got, b)
  BY <1>2
<1>10. /\ got' \in Seq(ByteOrJunk) /\ Len(got) \in Nat /\ Len(got') = Len(got) + 1
       /\ \A i \in 1..Len(got) : got'[i] = got[i]
       /\ DeliversAnswer' /\ NothingAhead'
  BY ONLY <1>1, <1>6, <1>7, <1>8, <1>9, GivenOne
<1>11. Fed(d)'
  BY DEF Fed
<1>12. d > 0
  BY <1>3, <1>4
<1>13. Kept(d)'
  BY <1>3, <1>12 DEF Kept
<1> QED
  BY <1>10, <1>11, <1>13

\* istream::read takes a byte; each empty write gives it one too many.
LEMMA ReadKeeps ==
  ASSUME BufferInv, Read
  PROVE  BufferInv'
<1>1. PICK d, x \in Nat : Fed(d) /\ Kept(d) /\ Counted(d, x)
  BY DEF BufferInv
<1>2. ~iterates /\ ~atEof /\ Uflow /\ UNCHANGED <<peeked, iterates>>
  BY DEF Read
<1>3. /\ BufferTypes /\ empties \in Nat /\ end \in Nat /\ next \in Nat
      /\ ~peeked /\ x = empties
  BY <1>1, <1>2, BufferConstants DEF BufferInv, BufferTypes, Counted
<1>4. CASE next < end /\ got' = Append(got, buffer[next + 1]) /\ next' = next + 1
           /\ UNCHANGED <<sentVars, buffer, end, empties, atEof>>
  <2>1. UNCHANGED <<sent, writes, closed, buffer, end, empties, atEof>>
    BY <1>4 DEF sentVars
  <2>2. /\ got' \in Seq(ByteOrJunk) /\ Len(got') = Len(got) + 1
        /\ DeliversAnswer' /\ NothingAhead' /\ Fed(d)' /\ Kept(d)'
    BY <1>1, <1>2, <1>3, <1>4, <2>1, FromBuffer
  <2>3. Counted(d, x)'
    BY <1>1, <1>2, <1>3, <1>4, <2>1, <2>2 DEF Counted, Passed, Seen
  <2>4. BufferTypes'
    BY <1>2, <1>3, <1>4, <2>1, <2>2 DEF BufferTypes
  <2> QED
    BY <1>1, <2>2, <2>3, <2>4 DEF BufferInv
<1>5. CASE next >= end /\ ReadFile /\ got' = Append(got, buffer'[1]) /\ next' = 1
           /\ UNCHANGED atEof
  <2>1. PICK m \in 0..Size :
          /\ end' = m /\ d + m \in Nat /\ Fed(d + m)' /\ Kept(d + m)'
          /\ empties' = IF m = 0 THEN empties + 1 ELSE empties
          /\ buffer' \in [1..Size -> ByteOrJunk]
          /\ writes' \in Seq(Seq(Nat)) /\ UNCHANGED <<sent, closed>>
          /\ got' \in Seq(ByteOrJunk) /\ Len(got) = d + x /\ Len(got') = d + x + 1
          /\ DeliversAnswer' /\ NothingAhead'
    BY <1>1, <1>2, <1>3, <1>5, RefillGives
  <2>2. m \in Nat /\ (m = 0 \/ m >= 1)
    BY BufferConstants
  <2>3. BufferTypes'
    BY <1>2, <1>3, <1>5, <2>1, <2>2 DEF BufferTypes
  <2>4. \E y \in Nat : Counted(d + m, y)'
    <3>1. CASE m = 0
      <4>1. Counted(d + m, x + 1)'
        BY <1>2, <1>3, <1>5, <2>1, <3>1 DEF Counted, Passed, Seen
      <4> QED
        BY <4>1
    <3>2. CASE m >= 1
      <4>1. Counted(d + m, x)'
        BY <1>2, <1>3, <1>5, <2>1, <2>2, <3>2 DEF Counted, Passed, Seen
      <4> QED
        BY <4>1
    <3> QED
      BY <2>2, <3>1, <3>2
  <2> QED
    BY <2>1, <2>3, <2>4 DEF BufferInv
<1>6. CASE next >= end /\ Eof /\ UNCHANGED got
  <2>1. peeked' = FALSE
    BY <1>2, <1>3 DEF BufferTypes
  <2> QED
    BY <1>2, <1>6, <2>1, EofKeeps
<1> QED
  BY <1>2, <1>4, <1>5, <1>6 DEF Uflow

\* The iterator looks at a byte and leaves it.
LEMMA PeekKeeps ==
  ASSUME BufferInv, Peek
  PROVE  BufferInv'
<1>1. PICK d, x \in Nat : Fed(d) /\ Kept(d) /\ Counted(d, x)
  BY DEF BufferInv
<1>2. iterates /\ ~atEof /\ ~peeked /\ iterates' = iterates
  BY DEF Peek
<1>3. /\ BufferTypes /\ empties \in Nat /\ end \in Nat /\ next \in Nat
      /\ 2 * x <= empties
  BY <1>1, <1>2, BufferConstants DEF BufferInv, BufferTypes, Counted
<1>4. CASE next < end /\ got' = Append(got, buffer[next + 1]) /\ peeked' = TRUE
           /\ UNCHANGED <<sentVars, bufferVars, atEof>>
  <2>1. UNCHANGED <<sent, writes, closed, buffer, next, end, empties, atEof>>
    BY <1>4 DEF sentVars, bufferVars
  <2>2. /\ got' \in Seq(ByteOrJunk) /\ Len(got') = Len(got) + 1
        /\ DeliversAnswer' /\ NothingAhead' /\ Fed(d)' /\ Kept(d)'
    BY <1>1, <1>2, <1>3, <1>4, <2>1, FromBuffer
  <2>3. Counted(d, x)'
    BY <1>1, <1>2, <1>3, <1>4, <2>1, <2>2 DEF Counted, Passed, Seen
  <2>4. BufferTypes'
    BY <1>2, <1>3, <1>4, <2>1, <2>2 DEF BufferTypes
  <2> QED
    BY <1>1, <2>2, <2>3, <2>4 DEF BufferInv
<1>5. CASE next >= end /\ ReadFile /\ next' = 0 /\ got' = Append(got, buffer'[1])
           /\ peeked' = TRUE /\ UNCHANGED atEof
  <2>1. PICK m \in 0..Size :
          /\ end' = m /\ d + m \in Nat /\ Fed(d + m)' /\ Kept(d + m)'
          /\ empties' = IF m = 0 THEN empties + 1 ELSE empties
          /\ buffer' \in [1..Size -> ByteOrJunk]
          /\ writes' \in Seq(Seq(Nat)) /\ UNCHANGED <<sent, closed>>
          /\ got' \in Seq(ByteOrJunk) /\ Len(got) = d + x /\ Len(got') = d + x + 1
          /\ DeliversAnswer' /\ NothingAhead'
    BY <1>1, <1>2, <1>3, <1>5, RefillGives
  <2>2. m \in Nat /\ (m = 0 \/ m >= 1)
    BY BufferConstants
  <2>3. BufferTypes'
    BY <1>2, <1>3, <1>5, <2>1, <2>2 DEF BufferTypes
  <2>4. Counted(d + m, x)'
    BY <1>2, <1>3, <1>5, <2>1, <2>2 DEF Counted, Passed, Seen
  <2> QED
    BY <2>1, <2>3, <2>4 DEF BufferInv
<1>6. CASE next >= end /\ Eof /\ UNCHANGED <<got, peeked>>
  <2>1. peeked' = FALSE
    BY <1>2, <1>3, <1>6 DEF BufferTypes
  <2> QED
    BY <1>2, <1>6, <2>1, EofKeeps
<1> QED
  BY <1>4, <1>5, <1>6 DEF Peek

\* It steps over it, and fills the buffer if that was the last.
LEMMA StepKeeps ==
  ASSUME BufferInv, Step
  PROVE  BufferInv'
<1>1. PICK d, x \in Nat : Fed(d) /\ Kept(d) /\ Counted(d, x)
  BY DEF BufferInv
<1>2. iterates /\ peeked /\ ~atEof /\ got' = got /\ iterates' = iterates
  BY <1>1 DEF Step, Counted
<1>3. /\ BufferTypes /\ empties \in Nat /\ end \in Nat /\ next \in Nat /\ Len(got) \in Nat
      /\ DeliversAnswer /\ NothingAhead
  BY BufferConstants DEF BufferInv, BufferTypes
<1>4. CASE next < end /\ next' = next + 1 /\ peeked' = FALSE
           /\ UNCHANGED <<sentVars, buffer, end, empties, atEof>>
  <2>1. UNCHANGED <<sent, writes, closed, buffer, end, empties, atEof>>
    BY <1>4 DEF sentVars
  <2>2. Fed(d)' /\ Kept(d)'
    BY <1>1, <1>2, <2>1 DEF Fed, Kept
  <2>3. Counted(d, x)'
    BY <1>1, <1>2, <1>3, <1>4, <2>1 DEF Counted, Passed, Seen
  <2>4. BufferTypes'
    <3>1. next' = next + 1 /\ peeked' = FALSE
      BY <1>4
    <3>2. got' = got /\ iterates' = iterates
      BY <1>2
    <3>3. next + 1 \in Nat /\ FALSE \in BOOLEAN
      BY <1>3
    <3> QED
      BY <1>3, <2>1, <3>1, <3>2, <3>3 DEF BufferTypes
  <2>5. DeliversAnswer' /\ NothingAhead'
    BY <1>2, <1>3, <2>1 DEF DeliversAnswer, NothingAhead
  <2> QED
    BY <1>1, <2>2, <2>3, <2>4, <2>5 DEF BufferInv
<1>5. CASE next >= end /\ ReadFile /\ next' = 1 /\ peeked' = FALSE /\ UNCHANGED atEof
  <2>1. PICK m \in 0..Size :
          /\ end' = m /\ d + m \in Nat /\ Fed(d + m)'
          /\ empties' = IF m = 0 THEN empties + 1 ELSE empties
          /\ buffer' \in [1..Size -> ByteOrJunk]
          /\ writes' \in Seq(Seq(Nat)) /\ UNCHANGED <<sent, closed>>
          /\ (d + m = 0 => \A i \in 1..Len(got') : got'[i] = Junk) => Kept(d + m)'
    BY <1>1, <1>3, <1>5, Refill
  <2>2. m \in Nat /\ (m = 0 \/ m >= 1)
    BY BufferConstants
  <2>3. Kept(d + m)'
    <3>1. d + m = 0 => d = 0
      BY <2>2
    <3> QED
      BY <1>1, <1>2, <2>1, <3>1 DEF Kept
  <2>4. empties' \in Nat /\ (empties' = 0 => empties = 0)
    BY <1>3, <2>1
  <2>5. BufferTypes' /\ DeliversAnswer' /\ NothingAhead'
    BY <1>2, <1>3, <1>5, <2>1, <2>4 DEF BufferTypes, DeliversAnswer, NothingAhead
  <2>6. Len(got) = d + 1 + x /\ 2 * x + 1 <= empties
    BY <1>1, <1>2, <1>3, <1>5 DEF Counted, Passed, Seen
  <2>7. \E y \in Nat : Counted(d + m, y)'
    <3>1. CASE m = 0
      <4>1. Counted(d + m, x + 1)'
        BY <1>2, <1>3, <1>5, <2>1, <2>6, <3>1 DEF Counted, Passed, Seen
      <4> QED
        BY <4>1
    <3>2. CASE m >= 1
      <4>1. Counted(d + m, x)'
        BY <1>2, <1>3, <1>5, <2>1, <2>2, <2>6, <3>2 DEF Counted, Passed, Seen
      <4> QED
        BY <4>1
    <3> QED
      BY <2>2, <3>1, <3>2
  <2> QED
    BY <2>1, <2>3, <2>5, <2>7 DEF BufferInv
<1>6. CASE next >= end /\ Eof /\ peeked' = FALSE
  BY <1>2, <1>6, EofKeeps
<1> QED
  BY <1>4, <1>5, <1>6 DEF Step

\* BufferInv is inductive,
LEMMA BufferStep == BufferInv /\ [BufferNext]_pipeBufferVars => BufferInv'
<1> SUFFICES ASSUME BufferInv, [BufferNext]_pipeBufferVars
             PROVE  BufferInv'
  OBVIOUS
<1>1. ASSUME NEW n \in 0..MaxWrite, Write(n)
      PROVE  BufferInv'
  BY <1>1, BufferConstants, WriteKeeps
<1>2. CASE UNCHANGED pipeBufferVars
  <2>1. UNCHANGED <<sent, writes, closed, buffer, next, end, empties, peeked, got, atEof,
                    iterates>>
    BY <1>2 DEF pipeBufferVars, sentVars, bufferVars
  <2>2. PICK d, x \in Nat : Fed(d) /\ Kept(d) /\ Counted(d, x)
    BY DEF BufferInv
  <2>3. Fed(d)' /\ Kept(d)' /\ Counted(d, x)'
    BY <2>1, <2>2 DEF Fed, Kept, Counted, Passed, Seen
  <2>4. BufferTypes' /\ DeliversAnswer' /\ NothingAhead'
    BY <2>1 DEF BufferInv, BufferTypes, DeliversAnswer, NothingAhead
  <2> QED
    BY <2>2, <2>3, <2>4 DEF BufferInv
<1> QED
  BY <1>1, <1>2, DisconnectKeeps, ReadKeeps, PeekKeeps, StepKeeps DEF BufferNext

\* and holds of a new buffer.
LEMMA BufferStart == BufferInit => BufferInv
<1> SUFFICES ASSUME BufferInit
             PROVE  BufferInv
  OBVIOUS
<1>1. /\ Size \in Nat /\ Size > 0 /\ Len(writes) = 0 /\ Len(got) = 0
      /\ writes \in Seq(Seq(Nat)) /\ got \in Seq(ByteOrJunk)
  BY BufferConstants DEF BufferInit
<1>2. Fed(0)
  <2>1. /\ [w \in 1..1 |-> 0] \in [1..Len(writes) + 1 -> Nat]
        /\ [w \in 1..1 |-> 0][1] = 0 /\ [w \in 1..1 |-> 0][Len(writes) + 1] = sent
        /\ \A w \in 1..Len(writes) : FALSE
    BY <1>1 DEF BufferInit
  <2> QED
    BY <2>1 DEF Fed
<1>3. Kept(0)
  BY <1>1 DEF BufferInit, Kept
<1>4. Counted(0, 0)
  BY <1>1 DEF BufferInit, Counted, Passed, Seen
<1>5. BufferTypes
  <2>1. buffer \in [1..Size -> ByteOrJunk]
    <3>1. Junk \in ByteOrJunk
      BY DEF ByteOrJunk
    <3>2. buffer = [i \in 1..Size |-> Junk]
      BY DEF BufferInit
    <3> QED
      BY <3>1, <3>2
  <2>2. sent \in Nat /\ empties \in Nat /\ next \in Nat /\ end \in 0..Size
    BY <1>1 DEF BufferInit
  <2>3. closed \in BOOLEAN /\ peeked \in BOOLEAN /\ atEof \in BOOLEAN /\ iterates \in BOOLEAN
    BY DEF BufferInit
  <2> QED
    BY <1>1, <2>1, <2>2, <2>3 DEF BufferTypes
<1>6. DeliversAnswer /\ NothingAhead
  BY <1>1 DEF DeliversAnswer, NothingAhead
<1> QED
  BY <1>2, <1>3, <1>4, <1>5, <1>6 DEF BufferInv

\* At the end of the file all that was sent has been read, and passed.
LEMMA BufferGives == BufferInv => BytesOfAnswer
<1> SUFFICES ASSUME BufferInv
             PROVE  CountsAtEof
  BY DEF BytesOfAnswer, BufferInv
<1> SUFFICES ASSUME atEof
             PROVE  IF iterates
                    THEN Len(got) >= sent /\ 2 * (Len(got) - sent) <= empties + 1
                    ELSE Len(got) = sent + empties
  BY DEF CountsAtEof
<1>1. PICK d, x \in Nat : Fed(d) /\ Counted(d, x)
  BY DEF BufferInv
<1>2. /\ writes = << >> /\ ~peeked /\ next >= end
      /\ next \in Nat /\ end \in Nat /\ sent \in Nat /\ empties \in Nat
  BY <1>1, BufferConstants DEF Counted, BufferInv, BufferTypes
<1>3. d = sent
  BY <1>1, <1>2 DEF Fed
<1>4. Len(got) = d + x
  BY <1>1, <1>2 DEF Counted, Passed, Seen
<1> QED
  BY <1>1, <1>2, <1>3, <1>4 DEF Counted

\* Whatever the length of m_buffer and of the writes, and whether the server
\* makes empty ones: the reader of a pipe is given the bytes of the answer in
\* order, what an empty write adds is an old byte, and at the end of the file
\* nothing is missing (PipeBuffer::underflow).
THEOREM AnswerArrives == BufferSpec => []BytesOfAnswer
<1> USE DEF BufferSpec
<1> QED
  BY BufferStart, BufferStep, BufferGives, PTL
=============================================================================
