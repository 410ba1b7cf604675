---------------------------- MODULE MCServerReader ----------------------------
(***************************************************************************)
(* ServerReader for TLC.  Clients, servers and names are interchangeable.  *)
(***************************************************************************)
EXTENDS ServerReader, TLC

Symmetry ==
  Permutations(Client) \cup Permutations(Server) \cup Permutations(ReturnPipe)
=============================================================================
