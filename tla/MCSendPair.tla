----------------------------- MODULE MCSendPair -----------------------------
(***************************************************************************)
(* SendCtl under two scenarios, one of which Init chooses: the constants   *)
(* of SendCtl, and those with a 2.  The packets are interchangeable.       *)
(***************************************************************************)
EXTENDS SendCtlLife, TLC

CONSTANTS Pkt2, Spaces2, MaxNo2, ReordThresh2, NewKinds2, Needs2, Cwnd2, Gaps2,
          MaxResets2, Events2

VARIABLE second   \* the second scenario was chosen

Other == INSTANCE SendCtl WITH
             Pkt <- Pkt2, Spaces <- Spaces2, MaxNo <- MaxNo2, ReordThresh <- ReordThresh2,
             NewKinds <- NewKinds2, Needs <- Needs2, Cwnd <- Cwnd2, Gaps <- Gaps2,
             MaxResets <- MaxResets2, Events <- Events2

MCInit == \/ second = FALSE /\ Init
          \/ second = TRUE /\ Other!Init

MCNext == /\ UNCHANGED second
          /\ \/ ~second /\ Next
             \/ second /\ Other!Next

MCSpec == MCInit /\ [][MCNext]_<<vars, second>>

PktSymmetry == Permutations(Pkt \cup Pkt2)

\* The types of the send controller's state.
TypesOK == IF second THEN Other!TypeOK ELSE TypeOK

\* In the first scenario every step is a step of PacketLife or none: whatever
\* the order of ACKs, losses, duplicates, alarms and failed sends, a packet is
\* settled once, with its whole chain, and sent under fresh numbers only.
InFirst(x, none) == IF second THEN none ELSE x
Life == INSTANCE PacketLife WITH
            where <- [p \in Pkt |-> InFirst(Whereabouts(p), "free")],
            chain <- [p \in Pkt |-> InFirst(Chain(p), {})],
            at <- [p \in Pkt |-> InFirst(FliesAs(p), 0)],
            counted <- InFirst(CountedNow, {}), inflight <- InFirst(InFlight, 0),
            last <- InFirst(lastSent, 0)
FirstImplementsPacketLife == Life!Spec

\* What is done to one packet number space leaves the walks, the numbers and the
\* poison of the other as they should be.
SpacesApart == ~second => CursorAlive /\ NumbersConsecutive /\ PoisonApart
=============================================================================
