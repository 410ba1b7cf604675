-------------------------------- MODULE Request --------------------------------
(***************************************************************************)
(* What ServerReader::request promises, without FIFOs, files or messages:  *)
(* a request is put together, is sent, and may then be answered, once, by  *)
(* one server that executes the command that was asked for.  The stream    *)
(* the client reads ends with the whole answer or short of it.  A request  *)
(* that was sent may stay without an answer; one that was refused, or whose*)
(* process was killed, is never executed.                                  *)
(***************************************************************************)

CONSTANTS Client, Server, Command, Nobody

VARIABLES
  phase,    \* how far each client's request has got
  asked,    \* its command
  serving   \* the request a server is answering: [client, cmd], or Nobody

requestVars == <<phase, asked, serving>>

Phases == {"idle", "asking", "sent", "partial", "full", "short",
           "refused", "killed"}

Init ==
  /\ phase = [c \in Client |-> "idle"]
  /\ asked \in [Client -> Command]
  /\ serving = [s \in Server |-> Nobody]

Move(c, from, to) == phase[c] \in from /\ phase' = [phase EXCEPT ![c] = to]

Ask(c) ==
  /\ Move(c, {"idle"}, "asking")
  /\ \E k \in Command : asked' = [asked EXCEPT ![c] = k]
  /\ UNCHANGED serving

\* The message is out, or request returns null, or the process is killed.
Settle(c) ==
  /\ \E to \in {"sent", "refused", "killed"} : Move(c, {"asking"}, to)
  /\ UNCHANGED <<asked, serving>>

\* The server executes the command this client asked for, and no other.
Serve(s, c) ==
  /\ serving[s] = Nobody
  /\ Move(c, {"sent"}, "partial")
  /\ serving' = [serving EXCEPT ![s] = [client |-> c, cmd |-> asked[c]]]
  /\ UNCHANGED asked

\* The server has written the whole answer, or ends before it has.
EndAnswer(s) ==
  /\ serving[s] # Nobody
  /\ \E to \in {"full", "short"} : Move(serving[s].client, {"partial"}, to)
  /\ serving' = [serving EXCEPT ![s] = Nobody]
  /\ UNCHANGED asked

\* The client lets its stream go, at the end of the answer or before it: a
\* server still writing has nobody at the other end.
Drop(c) ==
  /\ Move(c, {"partial", "full", "short", "refused"}, "idle")
  /\ serving' = [s \in Server |->
                   IF serving[s] # Nobody /\ serving[s].client = c THEN Nobody
                   ELSE serving[s]]
  /\ UNCHANGED asked

Next ==
  \/ \E c \in Client : Ask(c) \/ Settle(c) \/ Drop(c)
  \/ \E s \in Server : EndAnswer(s) \/ \E c \in Client : Serve(s, c)

Spec == Init /\ [][Next]_requestVars
=============================================================================
