--------------------------- MODULE MCSharedChannel ---------------------------
(* Instances of SharedChannel for TLC: the .cfg files give the mode, the   *)
(* windows and the bounds.                                                 *)
EXTENDS SharedChannel, TLC

AnyClient == Permutations(Clients)
=============================================================================
