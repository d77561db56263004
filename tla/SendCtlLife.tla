---------------------------- MODULE SendCtlLife ----------------------------
(***************************************************************************)
(* The send controller implements PacketLife.  A packet is queued while it *)
(* is on the scheduled queue or in the engine's batch, and flies while it  *)
(* is on the unacked queue itself and not through its loss records only.   *)
(***************************************************************************)
EXTENDS SendCtl

Whereabouts(p) ==
    CASE po[p].kind = "free" -> "free"
      [] "LOST" \in po[p].flags -> "lost"
      [] "UNACKED" \in po[p].flags -> "flying"
      [] OTHER -> "queued"

\* The number a packet flies under
FliesAs(p) == IF "UNACKED" \in po[p].flags THEN po[p].no ELSE 0

CountedNow == {n \in DOMAIN unacked : Counted(n)}

\* sc_n_in_flight_all, but for the packets dropped from the lost queue
InFlight == (nAll + elided) % Modulus
=============================================================================
