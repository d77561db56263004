------------------------------ MODULE MCEngine ------------------------------
(* Instances of Engine for TLC.  Connections are interchangeable. *)
EXTENDS Engine, TLC

CONSTANTS c1, c2, r1
MCConns == {c1, c2}
MCReqs == {r1}

ConnSymmetry == Permutations(MCConns)
=============================================================================
