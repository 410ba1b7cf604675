---------------------------- MODULE MCWindowsControl ----------------------------
(***************************************************************************)
(* WindowsControl for TLC.                                                 *)
(***************************************************************************)
EXTENDS WindowsControl, TLC

AnyNames == Name \cup {NoName}
AnyFlags == [start : BOOLEAN, leave : BOOLEAN]
Symmetry ==
  Permutations(Client) \cup Permutations(Server) \cup Permutations(Name)
=============================================================================
