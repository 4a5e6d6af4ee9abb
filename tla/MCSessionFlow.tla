--------------------------- MODULE MCSessionFlow ---------------------------
(***************************************************************************)
(* Small instances of SessionFlow for TLC.                                 *)
(***************************************************************************)
EXTENDS SessionFlow, TLC

Symmetric == Permutations(Proc) \cup Permutations(Sid)
=============================================================================
