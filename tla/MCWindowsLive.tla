------------------------------ MODULE MCWindowsLive ------------------------------
(***************************************************************************)
(* The Windows variant for TLC, under its fairness.  A behaviour shows     *)
(* either the objects with their pipes, or the bytes of one answer as they *)
(* come through a PipeBuffer.                                              *)
(***************************************************************************)
EXTENDS WindowsControl, PipeBuffer

Default == {NoName}
Starts == [start : {TRUE}, leave : {FALSE}]

VARIABLE shown

MCInit ==
  /\ Init /\ BufferInit /\ shown \in {"objects", "buffer"}
  /\ shown = "objects" => ~iterates
  /\ shown = "buffer" => \A c \in Client : flags[c].start
MCNext ==
  /\ UNCHANGED shown
  /\ \/ shown = "objects" /\ Next /\ UNCHANGED pipeBufferVars
     \/ shown = "buffer" /\ BufferNext /\ UNCHANGED vars
mcVars == <<vars, pipeBufferVars, shown>>

MCSpec == MCInit /\ [][MCNext]_mcVars
\* The fairness of both specifications.
MCFairSpec ==
  /\ MCSpec /\ WF_pipeBufferVars(Read \/ Peek \/ Step)
  /\ \A c \in Client : WF_vars(Running(c)) /\ WF_vars(ChartDone(c))
  /\ \A s \in Server : WF_vars(ServerStep(s))
=============================================================================
