------------------------------ MODULE MCSendCtl ------------------------------
(* Instances of SendCtl for TLC.  The packet objects are interchangeable.   *)
EXTENDS SendCtlLife, TLC

PktSymmetry == Permutations(Pkt)
=============================================================================
