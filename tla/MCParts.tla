------------------------------ MODULE MCParts ------------------------------
(***************************************************************************)
(* The parts of the library that are specified on their own, checked side  *)
(* by side: Init chooses one of them and the others stand still.           *)
(*   art     ArtFeedback, with a window and a map small enough to exhaust  *)
(*   life    PacketLife, with a few packets and numbers                    *)
(*   stream  StreamIn, one stream, long enough for every buffer            *)
(*   two     StreamIn, two short streams that share a window               *)
(*   recv    RecHist, with arrays of a few slots                           *)
(*   acks    Buffered, two streams of one unit, ACKs, resets and FINs      *)
(*   buf     Buffered, one stream of several packets that is rolled back   *)
(***************************************************************************)
EXTENDS ArtFeedback, StreamIn

CONSTANTS Pkt, MaxNo,   \* of PacketLife
          s2,           \* the second stream
          MaxPackno, MaxBit, TrMax, UcharMax, FirstElems, MaxRanges,  \* of RecHist
          b1, b2,       \* streams of Buffered
          Parts         \* the parts a run looks at

VARIABLES part,
          where, chain, at, counted, inflight, lastNo,
          phase, bits, tr, rh, arrival, tops, seen,
          buf, sm

PL == INSTANCE PacketLife WITH last <- lastNo
RH == INSTANCE RecHist

Two == INSTANCE StreamIn WITH
           Streams <- Streams \cup {s2}, Final <- [s \in Streams |-> 2] @@ (s2 :> 1),
           Sfcw <- 2, Cfcw <- 2, MaxSfcw <- 3, MaxCfcw <- 3, MaxOff <- 2,
           MaxFrame <- 1, MaxRead <- 1, StEvents <- {"rst", "shutdown"}

Acks == INSTANCE Buffered WITH
            BufStreams <- {b1, b2}, BufData <- (b1 :> 1) @@ (b2 :> 1), BufRoom <- 5, MaxBpq <- 2,
            BufRcvd <- 2, BufPrios <- 1, BufResets <- {b2}, BufFins <- {b1, b2}
Bulk == INSTANCE Buffered WITH
            BufStreams <- {b1, b2}, BufData <- (b1 :> 4) @@ (b2 :> 1), BufRoom <- 5, MaxBpq <- 2,
            BufRcvd <- 0, BufPrios <- 1, BufResets <- {}, BufFins <- {b1}

MCFinal == [s \in Streams |-> MaxOff]

lifeVars == <<where, chain, at, counted, inflight, lastNo>>
recvVars == <<phase, bits, tr, rh, arrival, tops, seen>>
bufVars == <<buf, sm>>
mcVars == <<vars, stVars, lifeVars, recvVars, bufVars, part>>

MCInit ==
    /\ part \in Parts
    /\ Init /\ PL!Init
    /\ RH!RhStart /\ (part # "recv" => phase = "full")
    /\ IF part = "two" THEN Two!StInit ELSE StInit
    /\ Bulk!BufInit

MCNext ==
    /\ UNCHANGED part
    /\ \/ part = "art" /\ Next /\ UNCHANGED <<lifeVars, stVars, recvVars, bufVars>>
       \/ part = "life" /\ PL!Next /\ UNCHANGED <<vars, stVars, recvVars, bufVars>>
       \/ part = "stream" /\ StNext /\ UNCHANGED <<vars, lifeVars, recvVars, bufVars>>
       \/ part = "two" /\ Two!StNext /\ UNCHANGED <<vars, lifeVars, recvVars, bufVars>>
       \/ part = "recv" /\ RH!RhNext /\ UNCHANGED <<vars, lifeVars, stVars, bufVars>>
       \/ part = "acks" /\ Acks!BufNext /\ UNCHANGED <<vars, lifeVars, stVars, recvVars>>
       \/ part = "buf" /\ Bulk!BufNext /\ UNCHANGED <<vars, lifeVars, stVars, recvVars>>

MCSpec == MCInit /\ [][MCNext]_mcVars
-----------------------------------------------------------------------------
\* The types of the part that was chosen.
TypesOK ==
    CASE part = "art" -> TypeOK
      [] part = "life" -> PL!TypeOK
      [] part = "stream" -> StTypeOK
      [] part = "two" -> Two!StTypeOK
      [] part = "recv" -> RH!RhTypeOK
      [] part = "acks" -> Acks!BufTypeOK
      [] part = "buf" -> Bulk!BufTypeOK

\* A statement about streams, of the part with one stream or that with two.
Streaming(one, two) == (part = "stream" => one) /\ (part = "two" => two)

\* The in-flight counter is exact, loss chains are disjoint and end with their
\* packet, and a flying packet flies under its newest number (PacketLife).
LifeSafe == part = "life" => PL!LifeSafe

\* No packet number is used a second time (PacketLife).
NumbersFresh == PL!NumbersFresh

\* The lists of received ranges hold what they are meant to hold, and their masks
\* and counts are those of the slots in use (RecHist).
HistoryExact == part = "recv" => RH!HistoryExact

\* There is always a packet to acknowledge after the first one, and the ACK delay
\* is counted from the arrival of the largest one (RecHist).
AckHasBase == part = "recv" => RH!AckHasBase

\* Bytes that were accepted and not yet read are still there, whatever overlapped
\* them and whichever buffer holds them (StreamIn, with one stream and with two).
StreamBytesKept == Streaming(BytesKept, Two!BytesKept)

\* The window of the connection is the sum of those of its streams (StreamIn).
StreamWindowsAddUp == Streaming(WindowsAddUp, Two!WindowsAddUp)

\* The number of holes, which decides on the buffer in use, is right (StreamIn).
StreamHolesCounted == Streaming(HolesCounted, Two!HolesCounted)

\* A cached "nothing to read" is true (StreamIn).
StreamNoReadMissed == Streaming(NoReadMissed, Two!NoReadMissed)

\* When all is read and all updates are sent, the peer may send (StreamIn).
StreamWindowsReopen == Streaming(WindowsReopen, Two!WindowsReopen)

\* A statement about buffered packets, of the part with ACKs or that with rollbacks.
Buffering(acks, bulk) == (part = "acks" => acks) /\ (part = "buf" => bulk)

\* The count of a buffered queue is that of its packets, plus two for each split:
\* split_buffered_packet() counts up where it removes a packet (Buffered).
BufferedCounted == Buffering(Acks!BufferedCounted, Bulk!BufferedCounted)



\* What streams do to their windows is what FlowCtl lets them do: no read goes
\* beyond what was received, whatever the buffers say.
StreamsImplementFlowCtl == [][IF part = "two" THEN Two!FcNext ELSE FcNext]_fcVars
=============================================================================
