------------------------------ MODULE Buffered ------------------------------
(***************************************************************************)
(* The buffered packets of the send controller: what streams write between *)
(* two ticks of the connection goes to packets that have no number yet, on *)
(* one queue for the streams of the highest priority and one for the       *)
(* others.  A tick moves them to the scheduled queue.  Between the two,    *)
(* priorities change, streams are reset, writes are rolled back, newer     *)
(* ACKs are sent and packet numbers grow.                                  *)
(*                                                                         *)
(* Sizes are in units: an ACK and the header of a STREAM frame take one    *)
(* each, a packet number one (the guess) or two (the largest).             *)
(***************************************************************************)
EXTENDS Integers, Sequences, FiniteSets, SequencesExt, FiniteSetsExt

CONSTANTS BufStreams,   \* the streams of the application
          BufData,      \* bound: units each stream may write
          BufRoom,      \* units of a packet, its number included
          MaxBpq,       \* MAX_BPQ_COUNT
          BufRcvd,      \* bound: packets received
          BufPrios,     \* bound: changes of priority
          BufResets,    \* the streams that may be reset
          BufFins       \* the streams that may be shut down

VARIABLES buf,          \* queues, ACK state and what was scheduled
          sm            \* the streams

bufVars == <<buf, sm>>

BPT == {"highest", "other"}

Guess == 1              \* lsquic_send_ctl_guess_packno_bits
MaxBits == 2            \* sc_max_packno_bits

\* What the frames of a packet take, and what is left of the packet.
Units(frames) == FoldLeft(LAMBDA sum, f : sum + 1 + f.len, 0, frames)
DataSz(p) == Units(p.frames) + (IF p.ack > 0 THEN 1 ELSE 0)
Avail(p) == BufRoom - p.bits - DataSz(p)
NewPacket(bits) ==
    [ack |-> 0, ack2ed |-> 0, frames |-> <<>>, end |-> FALSE, bits |-> bits]

\* A STREAM frame at the end of a packet: PO_STREAM_END when it fills it.
AddFrame(p, f) ==
    LET n == [p EXCEPT !.frames = Append(@, f)]
    IN  [n EXCEPT !.end = @ \/ Avail(n) = 0]

\* All frames of a stream that wait in one of the queues.
Waiting(b, t, s) ==
    SelectSeq(FoldLeft(LAMBDA fs, p : fs \o p.frames, <<>>, b.q[t]), LAMBDA f : f.s = s)
-----------------------------------------------------------------------------
\* lsquic_send_ctl_determine_bpt
DetermineBpt(s) ==
    IF \E o \in BufStreams \ {s} : ~sm[o].done /\ sm[o].prio < sm[s].prio
    THEN "other" ELSE "highest"

\* send_ctl_lookup_bpt: the answer for the last stream is kept until a priority
\* is set.
LookupBpt(b, s) ==
    IF b.cached.s = s THEN b ELSE [b EXCEPT !.cached = [s |-> s, t |-> DetermineBpt(s)]]

\* ci_write_ack: the ACK in packet p tells of all that was received.
WithAck(b, p) == [p EXCEPT !.ack = b.rcvd, !.ack2ed = b.rcvd]
AckWritten(b) == [b EXCEPT !.largest = b.rcvd, !.slack = FALSE]

\* A packet at the end of a queue.
Enqueue(b, t, p) == [b EXCEPT !.q[t] = Append(@, p), !.count[t] = @ + 1]

\* send_ctl_move_ack: the packet that gets the ACK does not get po_ack2ed.
MoveAck(b) ==
    LET src == b.q["other"][1]
    IN  Enqueue([b EXCEPT !.q["other"][1].ack = 0, !.stolen = src.ack],
                "highest", [NewPacket(MaxBits) EXCEPT !.ack = src.ack])

\* A buffered packet in which a STREAM frame can be put: send_ctl_get_buffered_packet
\* returns the last packet of the queue, or <<>> for NULL.  e.can tells whether
\* lsquic_send_ctl_can_send, e.more what the congestion window adds to the limit.
GetBufferedPacket(b, t, need, e) ==
    IF b.q[t] # <<>> /\ ~Last(b.q[t]).end /\ Avail(Last(b.q[t])) >= need
    THEN <<b>>
    ELSE IF b.count[t] >= MaxBpq + (IF t = "highest" THEN e.more ELSE 0)
    THEN <<>>
    ELSE IF /\ b.count[t] = 0 /\ t = "highest"
            /\ b.q["other"] # <<>> /\ b.q["other"][1].ack > 0
    THEN <<MoveAck(b)>>
    ELSE IF b.count[t] = 0 /\ b.slack /\ e.can
    THEN <<Enqueue(AckWritten(b), t, WithAck(b, NewPacket(MaxBits)))>>
    ELSE <<Enqueue(b, t, NewPacket(Guess))>>

PutLast(b, t, f) == [b EXCEPT !.q[t][Len(b.q[t])] = AddFrame(@, f)]

\* stream_write_to_packets: n units of stream s from offset off on, as long as
\* thresh of them are left and a packet can be had.
RECURSIVE WriteToPackets(_, _, _, _, _, _)
WriteToPackets(b, s, off, n, thresh, e) ==
    LET t == b.cached.t
        g == GetBufferedPacket(b, t, 2, e)
    IN  IF n < Max({thresh, 1}) \/ g = <<>> THEN [b |-> b, off |-> off]
        ELSE LET k == Min({n, Avail(Last(g[1].q[t])) - 1})
                 f == [s |-> s, off |-> off, len |-> k, fin |-> FALSE]
             IN  WriteToPackets(PutLast(g[1], t, f), s, off + k, n - k, thresh, e)
-----------------------------------------------------------------------------
\* lsquic_packet_resize_next, until the frames of a packet are used up: they are
\* put again in packets with longer numbers, and cut where a packet ends.  A frame
\* without data and without FIN leaves nothing.
RECURSIVE Resize(_, _, _)
Resize(frames, p, bits) ==
    IF frames = <<>> THEN IF p.frames = <<>> THEN <<>> ELSE <<p>>
    ELSE LET f == Head(frames)
             room == Avail(p) - 1
         IN  IF f.len = 0 /\ ~f.fin THEN Resize(Tail(frames), p, bits)
             ELSE IF room >= f.len THEN Resize(Tail(frames), AddFrame(p, f), bits)
             ELSE IF room < 1 THEN <<p>> \o Resize(frames, NewPacket(bits), bits)
             ELSE <<AddFrame(p, [f EXCEPT !.len = room, !.fin = FALSE])>>
                  \o Resize(<<[f EXCEPT !.off = @ + room, !.len = @ - room]>> \o Tail(frames),
                            NewPacket(bits), bits)

\* split_buffered_packet: the new packets are counted, and so is, once more, the
\* packet they replace.  The splits are remembered in b.splits.
SplitBuffered(b, t, bits) ==
    LET p == Head(b.q[t])
        new == Resize(p.frames, [NewPacket(bits) EXCEPT !.ack = p.ack], bits)
    IN  IF Len(new) <= 1 THEN [b EXCEPT !.dead = "split"]
        ELSE [b EXCEPT !.q[t] = new \o Tail(@), !.count[t] = @ + Len(new) + 1,
                       !.splits[t] = @ + 1]

\* A packet gets its number and goes to the scheduled queue.
Scheduled(b, p) ==
    [b EXCEPT !.out = FoldLeft(LAMBDA o, f : [o EXCEPT
                                   ![f.s].n = @ + f.len,
                                   ![f.s].offs = @ \cup (f.off .. f.off + f.len - 1),
                                   ![f.s].fins = IF f.fin THEN Append(@, f.off + f.len) ELSE @],
                               @, p.frames),
              !.unsent = @ \cup {[s |-> f.s, end |-> f.off + f.len] : f \in ToSet(p.frames)},
              !.late = @ \/ (p.ack > 0 /\ p.ack < b.ackOut),
              !.ackOut = IF p.ack > 0 THEN p.ack ELSE @,
              !.empty = @ \/ DataSz(p) = 0]

Unqueue(b, t) == [b EXCEPT !.q[t] = Tail(@), !.count[t] = @ - 1]

Outdated(b, p) == p.ack > 0 /\ p.ack2ed < b.largest

ChopOutdated(b, t) ==
    IF Outdated(b, Head(b.q[t])) THEN [b EXCEPT !.q[t][1].ack = 0] ELSE b

\* The first packet is split when its number has become too long for it.
Fitted(b, t, bits) ==
    LET p == Head(b.q[t])
    IN  IF bits > p.bits /\ bits - p.bits > Avail(p) THEN SplitBuffered(b, t, bits) ELSE b

ScheduleFirst(b, t) ==
    IF b.dead # "no" THEN b
    ELSE [Scheduled(Unqueue(b, t), Head(b.q[t])) EXCEPT !.can = @ - 1]

\* lsquic_send_ctl_schedule_buffered, while lsquic_send_ctl_can_send, for b.can
\* packets more.
RECURSIVE ScheduleBuffered(_, _, _)
ScheduleBuffered(b, t, bits) ==
    IF b.q[t] = <<>> \/ b.can = 0 \/ b.dead # "no" THEN b
    ELSE ScheduleBuffered(
             IF Outdated(b, Head(b.q[t])) /\ Head(b.q[t]).frames = <<>> THEN Unqueue(b, t)
             ELSE ScheduleFirst(Fitted(ChopOutdated(b, t), t, bits), t),
             t, bits)

FinWaits == {s \in BufStreams : sm[s].fin = "wait"}

\* process_streams_write_events: the streams in F put the FINs that found no
\* buffered packet in scheduled ones.
FlushFins(b, F) ==
    IF b.can = 0 \/ b.dead # "no" THEN b
    ELSE FoldSet(LAMBDA s, c :
             Scheduled(c, [NewPacket(Guess) EXCEPT !.frames =
                 <<[s |-> s, off |-> sm[s].tosend, len |-> 0, fin |-> TRUE]>>]), b, F)
-----------------------------------------------------------------------------
NothingOut == [n |-> 0, offs |-> {}, fins |-> <<>>]

BufInit ==
    /\ buf = [q |-> [t \in BPT |-> <<>>], count |-> [t \in BPT |-> 0],
              cached |-> [s |-> "nil", t |-> "highest"],
              rcvd |-> 0, slack |-> FALSE, largest |-> 0,
              unsent |-> {}, can |-> 0,
              out |-> [s \in BufStreams |-> NothingOut],
              ackOut |-> 0, late |-> FALSE, empty |-> FALSE, stolen |-> 0,
              splits |-> [t \in BPT |-> 0], prios |-> 0, dead |-> "no"]
    /\ sm = [s \in BufStreams |->
                [prio |-> 1, tosend |-> 0, done |-> FALSE, fin |-> "no", reset |-> FALSE]]

Alive == buf.dead = "no"
Env == [can : {FALSE, buf.slack}, more : 0 .. (IF buf.count["highest"] < MaxBpq THEN 0 ELSE 1)]
Writable(s) == Alive /\ ~sm[s].done /\ ~sm[s].reset

\* An ack-eliciting packet is received.
PacketIn ==
    /\ Alive /\ buf.rcvd < BufRcvd
    /\ buf' = [buf EXCEPT !.rcvd = @ + 1, !.slack = TRUE]
    /\ UNCHANGED sm

\* lsquic_stream_write and a flush, outside of the tick.
BufWrite(s) ==
    /\ Writable(s)
    /\ \E n \in 1 .. BufData[s] - sm[s].tosend, e \in Env :
           LET w == WriteToPackets(LookupBpt(buf, s), s, sm[s].tosend, n, 0, e)
           IN  buf' = w.b /\ sm' = [sm EXCEPT ![s].tosend = w.off]

\* lsquic_send_ctl_rollback: what was written from b to c is cut back to offset
\* "off + nw".  The packet is looked for in the first queue if that has grown and in
\* the other if not; where it is not found the connection is aborted ("tail" when
\* no packet was added, and all was written to the end of the first queue).
Rollback(b, c, s, off, nw) ==
    LET t == IF b.count["highest"] < c.count["highest"] THEN "highest" ELSE "other"
        x == off + Max({nw, 1}) - 1
        Holds(p) == \E f \in ToSet(p.frames) : f.s = s /\ f.off <= x /\ x < f.off + f.len
        at == {i \in DOMAIN c.q[t] : Holds(c.q[t][i])}
        Cut(f) == IF f.s = s /\ f.off <= x /\ x < f.off + f.len
                  THEN [f EXCEPT !.len = off + nw - f.off] ELSE f
        i == CHOOSE i \in at : TRUE
        gone == SubSeq(c.q[t], i + 1, Len(c.q[t]))
    IN  IF at = {}
        THEN [c EXCEPT !.dead = IF \A k \in BPT : Len(c.q[k]) = Len(b.q[k])
                                THEN "tail" ELSE "lost"]
        ELSE [c EXCEPT !.q[t] = [SubSeq(@, 1, i) EXCEPT ![i].frames =
                                    [j \in DOMAIN @ |-> Cut(@[j])]],
                       !.count[t] = @ - Len(gone),
                       !.slack = IF \E p \in ToSet(gone) : p.ack > 0 THEN b.slack ELSE @]

\* lsquic_stream_pwritev, which fills whole packets and whose callback then delivers
\* fewer units, nw; when it delivers all this is a BufWrite.
Pwritev(s) ==
    /\ Writable(s)
    /\ \E n \in 1 .. BufData[s] - sm[s].tosend, e \in Env :
           LET off == sm[s].tosend
               w == WriteToPackets(LookupBpt(buf, s), s, off, n, BufRoom - Guess - 1, e)
           IN  /\ w.off > off
               /\ \E nw \in 0 .. w.off - off - 1 :
                      /\ buf' = Rollback(buf, w.b, s, off, nw)
                      /\ sm' = [sm EXCEPT ![s].tosend = off + nw]

Ends(f, s) == f.s = s /\ f.off + f.len = sm[s].tosend

\* lsquic_send_ctl_turn_on_fin: the last frame of the stream, in the buffered
\* queue of its present type or in a scheduled packet, gets the FIN.
TurnOnFin(b, s) ==
    LET q == b.q[b.cached.t]
        at == {i \in DOMAIN q : \E f \in ToSet(q[i].frames) : Ends(f, s)}
        i == Max(at)
        j == Min({j \in DOMAIN q[i].frames : Ends(q[i].frames[j], s)})
    IN  IF at # {} THEN <<[b EXCEPT !.q[b.cached.t][i].frames[j].fin = TRUE]>>
        ELSE IF [s |-> s, end |-> sm[s].tosend] \in b.unsent
        THEN <<[b EXCEPT !.out[s].fins = Append(@, sm[s].tosend)]>>
        ELSE <<>>

\* stream_shutdown_write: a FIN that no frame can take gets a frame of its own,
\* now or, when there is no packet for it, in the tick.
BufShutdown(s) ==
    /\ Writable(s) /\ s \in BufFins
    /\ \E e \in Env :
           LET b == LookupBpt(buf, s)
               on == TurnOnFin(b, s)
               g == GetBufferedPacket(b, b.cached.t, 1, e)
               f == [s |-> s, off |-> sm[s].tosend, len |-> 0, fin |-> TRUE]
           IN  /\ buf' = IF on # <<>> THEN on[1]
                         ELSE IF g # <<>> THEN PutLast(g[1], b.cached.t, f) ELSE b
               /\ sm' = [sm EXCEPT ![s].done = TRUE,
                            ![s].fin = IF on # <<>> \/ g # <<>> THEN "sent" ELSE "wait"]

ElideUncounted(b, t, s) ==
    LET Elided(p) == [p EXCEPT !.frames = SelectSeq(@, LAMBDA f : f.s # s)]
        left == SelectSeq(b.q[t], LAMBDA p : p.ack > 0 \/ Elided(p).frames # <<>>)
    IN  [b EXCEPT !.q[t] = [i \in DOMAIN left |-> Elided(left[i])]]

\* lsquic_send_ctl_elide_stream_frames, for the buffered queues: a packet that is
\* left without frames goes.
Elide(b, t, s) ==
    LET Elided(p) == LET fs == SelectSeq(p.frames, LAMBDA f : f.s # s)
                     IN  [p EXCEPT !.frames = fs, !.end = @ /\ fs # <<>>]
        Gone(p) == p.frames # <<>> /\ p.ack = 0 /\ Elided(p).frames = <<>>
        left == SelectSeq(b.q[t], LAMBDA p : ~Gone(p))
    IN  [b EXCEPT !.q[t] = [i \in DOMAIN left |-> Elided(left[i])],
                  !.count[t] = @ - (Len(b.q[t]) - Len(left))]

\* stream_reset, which may also close the stream.
BufReset(s) ==
    /\ Alive /\ s \in BufResets /\ ~sm[s].reset
    /\ buf' = [Elide(Elide(buf, "highest", s), "other", s)
                  EXCEPT !.unsent = {f \in @ : f.s # s}, !.out[s] = NothingOut]
    /\ \E close \in BOOLEAN :
           sm' = [sm EXCEPT ![s].reset = TRUE, ![s].done = @ \/ close,
                            ![s].fin = IF @ = "wait" THEN "no" ELSE @]

\* lsquic_stream_set_priority_internal
SetPriority(s) ==
    /\ Alive /\ buf.prios < BufPrios
    /\ buf' = [buf EXCEPT !.cached = [s |-> "nil", t |-> "highest"], !.prios = @ + 1]
    /\ \E p \in {1, 2} : p # sm[s].prio /\ sm' = [sm EXCEPT ![s].prio = p]

\* ietf_full_conn_ci_tick, from the ACK on: with packets left from the last tick
\* it stops there.  can is the number of packets that may be scheduled, F the
\* streams whose write events come between the two queues.
BufTick ==
    /\ Alive
    /\ \E ack \in {FALSE, buf.slack}, bits \in {Guess, MaxBits} :
       \E acked \in {IF ack THEN AckWritten(Scheduled(buf, WithAck(buf, NewPacket(bits)))) ELSE buf} :
           \/ buf.unsent # {} /\ buf' = acked /\ UNCHANGED sm
           \/ /\ buf.unsent = {}
              /\ \E F \in SUBSET FinWaits, can \in 0 .. Len(buf.q["highest"]) + Len(buf.q["other"]) + 1 :
                 \E high \in {ScheduleBuffered([acked EXCEPT !.can = can], "highest", bits)} :
                 \E rest \in {ScheduleBuffered(FlushFins(high, F), "other", bits)} :
                     /\ buf' = [FlushFins(rest, FinWaits \ F) EXCEPT !.can = 0]
                     /\ sm' = [s \in BufStreams |-> [sm[s] EXCEPT !.fin =
                                  IF s \in FinWaits /\ (IF s \in F THEN high ELSE rest).can > 0
                                  THEN "sent" ELSE @]]

\* The scheduled packets are sent.
BufSent ==
    /\ Alive /\ buf.unsent # {}
    /\ buf' = [buf EXCEPT !.unsent = {}]
    /\ UNCHANGED sm

BufNext ==
    \/ PacketIn \/ BufTick \/ BufSent
    \/ \E s \in BufStreams :
           BufWrite(s) \/ Pwritev(s) \/ BufShutdown(s) \/ BufReset(s) \/ SetPriority(s)

BufSpec == BufInit /\ [][BufNext]_bufVars
-----------------------------------------------------------------------------
BufFrame == [s : BufStreams, off : Nat, len : Nat, fin : BOOLEAN]
BufPacket == [ack : 0 .. BufRcvd, ack2ed : 0 .. BufRcvd, frames : Seq(BufFrame),
              end : BOOLEAN, bits : Guess .. MaxBits]

\* The queues hold packets, and their counts and what is known of ACKs are in range.
BufTypeOK ==
    /\ \A t \in BPT : buf.count[t] \in Nat /\ \A p \in ToSet(buf.q[t]) :
           p \in BufPacket /\ Avail(p) >= 0
    /\ buf.dead \in {"no", "tail", "lost", "split"}
    /\ {buf.rcvd, buf.largest, buf.ackOut, buf.stolen} \subseteq 0 .. BufRcvd

\* The count of a queue is the number of its packets plus two for each packet of it
\* that was ever split (split_buffered_packet adds one for the packet it removes).
BufferedCounted ==
    \A t \in BPT : buf.count[t] = Len(buf.q[t]) + 2 * buf.splits[t]


=============================================================================
