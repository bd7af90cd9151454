------------------------------ MODULE MCFastRing ------------------------------
(* Instances of FastRing for TLC: the .cfg files give the topology.        *)
EXTENDS FastRing
=============================================================================
