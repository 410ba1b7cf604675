---------------------------- MODULE MCServerControl ----------------------------
(***************************************************************************)
(* The flags of the objects in the runs of ServerControl.                  *)
(***************************************************************************)
EXTENDS ServerControl, FiniteSets, TLC

AnyFlags == [start : BOOLEAN, leave : BOOLEAN]
StartFlags == {[start |-> TRUE, leave |-> FALSE]}

Symmetry ==
  Permutations(Client) \cup Permutations(Server) \cup Permutations(ReturnPipe)

\* No object stops the server that another one uses: all leave it running, or
\* there is one object alone, which may make as many calls as MaxCalls says.
Undisturbed ==
  \/ \A c \in Client : flags[c].leave /\ calls[c] <= 1
  \/ Cardinality({c \in Client : life[c] # "unborn"}) <= 1
UndisturbedSpec ==
  ControlInit /\ [][ControlNext /\ Undisturbed']_vars /\ Fairness
=============================================================================
