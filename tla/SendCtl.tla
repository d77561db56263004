------------------------------- MODULE SendCtl -------------------------------
(***************************************************************************)
(* The handlers of the send controller and the connection tick and engine  *)
(* batch that drive them.  A handler that walks the unacked queue with a   *)
(* saved `next' pointer is a loop here too: pc names the loop, loop.at is  *)
(* the entry to be visited, and no other action is enabled until the       *)
(* handler is done.                                                        *)
(*                                                                         *)
(* Time is abstract: an armed alarm may ring whenever the connection is    *)
(* idle.  The feedback window of ART is in module ArtFeedback; here the    *)
(* number of duplicates a loss round asks for is any member of Needs.      *)
(***************************************************************************)
EXTENDS PacketQueues

CONSTANTS NewKinds,   \* kinds of new packets
          Needs,      \* possible values of po_need_retrans_number
          Cwnd,       \* congestion window, in packets
          Gaps,       \* 1 + the random byte of begin_optack_detection()
          MaxResets,  \* bound of the model on the number of stream resets
          Events      \* what else the run lets happen

ASSUME SendCtlConstants ==
    /\ NewKinds \subseteq Kinds \ {"ackstream"}
    /\ Needs \subseteq Nat \ {0} /\ Needs # {}
    /\ Cwnd \in Nat \ {0} /\ Gaps \subseteq Nat \ {0} /\ MaxResets \in Nat
    /\ Events \subseteq {"delay", "unsent", "intick", "close", "abort", "optack"}

VARIABLES largest,    \* sc_largest_acked_packno
          cutback,    \* sc_largest_sent_at_cutback
          reord,      \* sc_reord_thresh
          lossTo,     \* sc_loss_to is not zero
          nTlp,       \* sc_n_tlp, as far as get_retx_mode() looks
          rtos,       \* sc_n_consec_rtos is not zero
          nextLimit,  \* sc_next_limit
          retxAlarm,  \* AL_RETX_INIT + pns is set
          artAlarm,   \* AL_ART_SCHE is set
          hskDone,    \* LSCONN_HANDSHAKE_DONE
          live,       \* spaces not yet emptied
          pc, loop,   \* the handler being run
          resets,     \* streams reset so far
          elided      \* history: ART packets dropped from the lost queue

recovery == <<largest, cutback, reord, lossTo, nTlp, rtos, nextLimit>>
alarms == <<retxAlarm, artAlarm>>
conn == <<hskDone, live, resets, elided>>
vars == <<queues, numbers, counts, recovery, alarms, conn, pc, loop>>

NoLoop == [pns |-> "app", from |-> "none", at |-> 0, acked |-> {}, hi |-> 0,
           above |-> FALSE, rtt |-> FALSE, prev |-> 0, lretx |-> 0,
           lost |-> 0, late |-> 0, save |-> 0]

\* lsquic_send_ctl_init()
Init ==
    /\ po = [p \in Pkt |-> FreePkt] /\ unacked = <<>>
    /\ sched = <<>> /\ lost = <<>> /\ out = <<>>
    /\ cur = 0 /\ lastSent = 0 /\ gap = NoGap /\ poison = FALSE
    /\ nAll = 0 /\ nRetx = 0 /\ nSched = 0
    /\ largest = 0 /\ cutback = 0 /\ reord = ReordThresh
    /\ lossTo = FALSE /\ nTlp = 0 /\ rtos = FALSE /\ nextLimit = 0
    /\ retxAlarm = [s \in Spaces |-> FALSE] /\ artAlarm = FALSE
    /\ hskDone = ("hello" \notin NewKinds) /\ live = Spaces
    /\ pc = "idle" /\ loop = NoLoop /\ resets = 0 /\ elided = 0

-----------------------------------------------------------------------------
(* Leaving the queues.                                                     *)

\* Mutant: a chain-mate is unlinked from the scheduled queue only.
OffLostQueueNot(p) == lost

\* send_ctl_destroy_chain() unlinks a chain-mate from the lost queue
OffLostQueue(p) == Remove(lost, p)

\* An entry is acknowledged, or a packet that is not to be sent again is lost:
\* send_ctl_unacked_remove() or its inline counterpart for records, then
\* send_ctl_destroy_chain() and send_ctl_destroy_packet()
Settle(p) ==
    LET R == Chain(p)
        right == IF Scheduled(p) THEN RightOf(p) ELSE {}
    IN  /\ unacked' = Without(R)
        /\ nAll' = Less(nAll, Cardinality({n \in R : Counted(n)}))
        /\ nRetx' = nRetx - Cardinality({n \in R : Regular(n) /\ IsRetx(p)})
        /\ sched' = Remove(sched, p)
        /\ nSched' = IF Scheduled(p) THEN nSched - 1 ELSE nSched
        /\ cur' = IF Scheduled(p) THEN CurLeftOf(p) ELSE cur
        /\ lost' = OffLostQueue(p)
        /\ po' = [WithRepack(po, right) EXCEPT ![p] = FreePkt]

\* Scheduled packets S are dropped with their chains (send_ctl_sched_remove(),
\* send_ctl_destroy_chain(.., NULL)); then lsquic_send_ctl_reset_packnos() if
\* `renumber', and the ciphertext of the others is given back if `unenc'
DropSched(S, renumber, unenc) ==
    LET R == UNION {Chain(p) : p \in S}
        kept == SelectSeq(sched, LAMBDA p : p \notin S)
    IN  /\ unacked' = Without(R)
        /\ nAll' = Less(nAll, Cardinality({n \in R : Counted(n)}))
        /\ sched' = kept
        /\ nSched' = nSched - Cardinality(S)
        /\ cur' = IF renumber THEN lastSent ELSE cur
        /\ po' = [p \in Pkt |->
                     IF p \in S THEN FreePkt
                     ELSE IF p \in ToSet(kept)
                          THEN [po[p] EXCEPT !.repack = @ \/ renumber,
                                             !.enc = IF unenc THEN 0 ELSE @]
                          ELSE po[p]]

-----------------------------------------------------------------------------
(* Losing a packet.                                                        *)

ArtDone(p) == ~po[p].fake \/ po[p].dup >= po[p].need

\* The fields of a retransmittable packet that moves to the lost queue.  A
\* STREAM packet declared lost by detection starts a round of duplicates;
\* one that is taken by a timer while in a round is the next duplicate.
AfterLoss(r, detected, k) ==
    IF r.kind \notin {"stream", "ackstream"} THEN [r EXCEPT !.flags = {"LOST"}]
    ELSE IF r.fake /\ ~detected
         THEN [r EXCEPT !.flags = {"LOST"}, !.dup = @ + 1]
         ELSE [r EXCEPT !.flags = {"LOST"}, !.need = k, !.fake = TRUE]

\* Mutant: the fake loss record is not counted as in flight.
LosePacketUncounted(n, detected, fack) ==
    LET p == unacked[n].p IN
    /\ unacked' = [unacked EXCEPT ![n] = [t |-> "rec", p |-> p,
                       fake |-> po[p].fake, fb |-> FALSE, fack |-> fack]]
    /\ nAll' = Less(nAll, 1)
    /\ nRetx' = nRetx - 1
    /\ lost' = Append(lost, p)
    /\ \E k \in Needs : po' = [po EXCEPT ![p] = AfterLoss(po[p], detected, k)]
    /\ UNCHANGED <<sched, nSched, cur>>

\* send_ctl_record_loss(), and the retransmittable branch of
\* send_ctl_handle_regular_lost_packet()
LosePacket(n, detected, fack) ==
    LET p == unacked[n].p IN
    /\ unacked' = [unacked EXCEPT ![n] = [t |-> "rec", p |-> p,
                       fake |-> po[p].fake, fb |-> FALSE, fack |-> fack]]
    /\ nAll' = Less(nAll + (IF po[p].fake THEN 1 ELSE 0), 1)
    /\ nRetx' = nRetx - 1
    /\ lost' = Append(lost, p)
    /\ \E k \in Needs : po' = [po EXCEPT ![p] = AfterLoss(po[p], detected, k)]
    /\ UNCHANGED <<sched, nSched, cur>>

\* send_ctl_handle_lost_packet(): a lost MTU probe is forgotten, and so is a
\* packet with nothing to retransmit
HandleLost(n, detected, fack) ==
    LET p == unacked[n].p IN
    IF IsRetx(p) /\ ~IsProbe(p) THEN LosePacket(n, detected, fack) ELSE Settle(p)

\* Where `next' is after send_ctl_handle_lost_packet()
NextAfterLoss(n, s) ==
    LET p == unacked[n].p IN
    Advance(After(n, s), s, IF IsRetx(p) /\ ~IsProbe(p) THEN {} ELSE Chain(p))

-----------------------------------------------------------------------------
(* lsquic_send_ctl_got_ack(): walk the entries of one space; then loss     *)
(* detection, the retransmission alarm and the poison.                     *)

\* An ACK frame for space s.  `acked' are the outstanding numbers its ranges
\* cover; hi is the largest acknowledged if it is one of them, and 0 if it is
\* some number that was settled earlier; `above' says that all of the ranges
\* lie above sc_gap.  With nothing outstanding the handler changes nothing.
GotAck(s, acked, hi, above) ==
    /\ pc = "idle" /\ InSpace(s) # {}
    /\ \/ hi = MaxOf(acked)
       \/ hi = 0 /\ \E n \in 1 .. lastSent : n > MaxOf(acked) /\ n \notin InSpace(s)
    /\ above => gap < MinOf(acked \cup {lastSent})
    /\ pc' = "ack"
    /\ loop' = [NoLoop EXCEPT !.pns = s, !.from = "ack", !.at = First(s),
                   !.acked = acked, !.hi = hi, !.above = above, !.prev = largest]
    /\ UNCHANGED <<queues, numbers, counts, recovery, alarms, conn>>

Acking == pc = "ack" /\ loop.at # 0 /\ loop.at <= MaxOf(loop.acked)

AckSkip ==
    /\ Acking /\ loop.at \notin loop.acked
    /\ loop' = [loop EXCEPT !.at = After(loop.at, loop.pns)]
    /\ UNCHANGED <<queues, numbers, counts, recovery, alarms, conn, pc>>

\* send_ctl_maybe_increase_reord_thresh()
ReordAfter(n) ==
    IF Record(n) /\ unacked[n].fack /\ n + reord < loop.prev
    THEN loop.prev - n ELSE reord

\* The packet of the entry is settled: its whole chain goes
AckEntry ==
    /\ Acking /\ loop.at \in loop.acked /\ unacked[loop.at].t # "poison"
    /\ LET n == loop.at
           p == unacked[n].p
       IN  /\ Settle(p)
           /\ largest' = n
           /\ reord' = ReordAfter(n)
           /\ loop' = [loop EXCEPT
                         !.at = Advance(After(n, loop.pns), loop.pns, Chain(p)),
                         !.rtt = @ \/ n = loop.hi]
    /\ UNCHANGED <<out, lastSent, gap, poison, cutback, lossTo, nTlp, rtos,
                   nextLimit, alarms, conn, pc>>

\* The poison is acknowledged: the handler returns -1, the connection aborts
AckPoison ==
    /\ Acking /\ loop.at \in loop.acked /\ unacked[loop.at].t = "poison"
    /\ largest' = loop.at
    /\ pc' = "closed" /\ loop' = NoLoop
    /\ UNCHANGED <<queues, numbers, counts, cutback, reord, lossTo, nTlp, rtos,
                   nextLimit, alarms, conn>>

\* Entry of send_ctl_detect_losses().  Entries numbered below `late' were sent
\* more than an SRTT before the largest acknowledged one.
BeginDetect(s, from, above) ==
    \E late \in {0} \cup {n + 1 : n \in {m \in InSpace(s) : m < largest}} :
        /\ pc' = "detect" /\ lossTo' = FALSE
        /\ loop' = [NoLoop EXCEPT !.pns = s, !.from = from, !.at = First(s),
                       !.above = above, !.late = late, !.lretx = MaxOf(RetxIn(s))]

AckDone ==
    /\ pc = "ack" /\ ~Acking
    /\ BeginDetect(loop.pns, "ack", loop.above)
    /\ rtos' = (rtos /\ ~loop.rtt)
    /\ nTlp' = IF loop.rtt THEN 0 ELSE nTlp
    /\ UNCHANGED <<queues, numbers, counts, largest, cutback, reord, nextLimit,
                   alarms, conn>>

Detecting == pc = "detect" /\ loop.at # 0 /\ loop.at <= largest

\* Mutant: the threshold is off by one.
ByFackLate(n) == n + reord + 1 < largest

\* The three grounds on which an entry is taken for lost, in this order
ByFack(n) == n + reord < largest
Early(n) ==
    /\ ~ByFack(n) /\ loop.lretx # 0 /\ loop.lretx <= largest
    /\ Record(n) \/ (IsRetx(unacked[n].p) /\ ~IsProbe(unacked[n].p))
BySentTime(n) == ~ByFack(n) /\ ~Early(n) /\ n < loop.late
Overdue(n) == ByFack(n) \/ Early(n) \/ BySentTime(n)

DetectSkip ==
    /\ Detecting
    /\ unacked[loop.at].t # "poison" => ~Overdue(loop.at)
    /\ loop' = [loop EXCEPT !.at = After(loop.at, loop.pns)]
    /\ UNCHANGED <<queues, numbers, counts, recovery, alarms, conn, pc>>

\* A loss record: its feedback is recorded once (send_ctl_record_feedback_loss)
DetectRecord ==
    /\ Detecting /\ Record(loop.at) /\ Overdue(loop.at)
    /\ unacked' = [unacked EXCEPT ![loop.at].fb = @ \/ unacked[loop.at].fake]
    /\ loop' = [loop EXCEPT !.at = After(loop.at, loop.pns)]
    /\ UNCHANGED <<po, sched, lost, out, numbers, counts, recovery, alarms, conn, pc>>

\* A packet: lost, unless duplicates of it are still to be sent
DetectPacket ==
    /\ Detecting /\ Regular(loop.at) /\ Overdue(loop.at)
    /\ LET n == loop.at
           p == unacked[n].p
           counts_as_loss == ~IsProbe(p) /\ (BySentTime(n) => IsRetx(p))
       IN  /\ IF ArtDone(p)
              THEN /\ HandleLost(n, TRUE, ByFack(n))
                   /\ loop' = [loop EXCEPT !.at = NextAfterLoss(n, loop.pns),
                                 !.lost = IF counts_as_loss THEN n ELSE @]
              ELSE /\ loop' = [loop EXCEPT !.at = After(n, loop.pns),
                                 !.lost = IF counts_as_loss THEN n ELSE @]
                   /\ UNCHANGED <<po, unacked, sched, lost, cur, counts>>
           /\ lossTo' = (lossTo \/ Early(n))
    /\ UNCHANGED <<out, lastSent, gap, poison, largest, cutback, reord, nTlp, rtos,
                   nextLimit, alarms, conn, pc>>

\* lsquic_send_ctl_begin_optack_detection()
FutureGaps == {cur + g : g \in Gaps}

\* send_ctl_reschedule_poison()
ReschedulePoison ==
    IF loop.above /\ gap \in DOMAIN unacked /\ unacked[gap].t = "poison"
    THEN /\ unacked' = Without({gap})
         /\ gap' \in FutureGaps
         /\ poison' = FALSE
    ELSE UNCHANGED <<unacked, gap, poison>>

\* Mutant: the alarm is left as it is when the first packets are gone.
DetectDoneNoAlarm ==
    /\ pc = "detect" /\ ~Detecting
    /\ cutback' = IF loop.lost > cutback THEN lastSent ELSE cutback
    /\ ReschedulePoison
    /\ pc' = "idle" /\ loop' = NoLoop
    /\ UNCHANGED <<po, sched, lost, out, cur, lastSent, counts, largest, reord, lossTo,
                   nTlp, rtos, nextLimit, alarms, conn>>

\* send_ctl_loss_event(); the end of got_ack and of the alarm's LOSS mode
DetectDone ==
    /\ pc = "detect" /\ ~Detecting
    /\ cutback' = IF loop.lost > cutback THEN lastSent ELSE cutback
    /\ retxAlarm' = [retxAlarm EXCEPT ![loop.pns] = RetxIn(loop.pns) # {}]
    /\ ReschedulePoison
    /\ pc' = "idle" /\ loop' = NoLoop
    /\ UNCHANGED <<po, sched, lost, out, cur, lastSent, counts, largest, reord, lossTo,
                   nTlp, rtos, nextLimit, artAlarm, conn>>

-----------------------------------------------------------------------------
(* retx_alarm_rings()                                                      *)

Hello(n) == Regular(n) /\ po[unacked[n].p].kind = "hello"

\* get_retx_mode()
RetxMode ==
    IF ~hskDone /\ \E n \in DOMAIN unacked : Hello(n) THEN "HANDSHAKE"
    ELSE IF lossTo THEN "LOSS" ELSE IF nTlp < 2 THEN "TLP" ELSE "RTO"

\* send_ctl_expire(): `from' is the filter
BeginExpire(s, filter) ==
    /\ pc' = "expire"
    /\ loop' = [NoLoop EXCEPT !.pns = s, !.from = filter,
                   !.at = IF filter = "LAST" THEN MaxOf(RetxIn(s)) ELSE First(s)]

RingLoss(s) ==
    /\ pc = "idle" /\ retxAlarm[s] /\ RetxMode = "LOSS"
    /\ retxAlarm' = [retxAlarm EXCEPT ![s] = FALSE]
    /\ BeginDetect(s, "alarm", FALSE)
    /\ UNCHANGED <<queues, numbers, counts, largest, cutback, reord, nTlp, rtos,
                   nextLimit, artAlarm, conn>>

\* The other three modes; an RTO lets two packets out (sc_next_limit)
RingExpire(s) ==
    /\ pc = "idle" /\ retxAlarm[s] /\ RetxMode # "LOSS"
    /\ retxAlarm' = [retxAlarm EXCEPT ![s] = FALSE]
    /\ BeginExpire(s, CASE RetxMode = "HANDSHAKE" -> "HSK"
                        [] RetxMode = "TLP" -> "LAST"
                        [] RetxMode = "RTO" -> "ALL")
    /\ nTlp' = IF RetxMode = "TLP" THEN nTlp + 1 ELSE nTlp
    /\ rtos' = (rtos \/ RetxMode = "RTO")
    /\ nextLimit' = IF RetxMode = "RTO" THEN 2 ELSE nextLimit
    /\ UNCHANGED <<queues, numbers, counts, largest, cutback, reord, lossTo,
                   artAlarm, conn>>

\* Mutant: loss records are expired as well.
ExpiresRecords(n) == loop.from = "HSK" => Hello(n)

Expires(n) == IF loop.from = "HSK" THEN Hello(n) ELSE Regular(n)

ExpireStep ==
    /\ pc = "expire" /\ loop.at # 0
    /\ LET n == loop.at
           next == IF Expires(n) THEN NextAfterLoss(n, loop.pns) ELSE After(n, loop.pns)
       IN  /\ IF Expires(n) THEN HandleLost(n, FALSE, FALSE)
              ELSE UNCHANGED <<po, unacked, sched, lost, cur, counts>>
           /\ loop' = [loop EXCEPT !.at = IF loop.from = "LAST" THEN 0 ELSE next]
    /\ UNCHANGED <<out, lastSent, gap, poison, recovery, alarms, conn, pc>>

ExpireDone ==
    /\ pc = "expire" /\ loop.at = 0
    /\ retxAlarm' = [retxAlarm EXCEPT ![loop.pns] = RetxIn(loop.pns) # {}]
    /\ pc' = "idle" /\ loop' = NoLoop
    /\ UNCHANGED <<queues, numbers, counts, recovery, artAlarm, conn>>

-----------------------------------------------------------------------------
(* art_schedule(): packets in a round of duplicates whose time has come    *)
(* are sent again.  Only the application space carries STREAM frames.      *)

ArtRings ==
    /\ pc = "idle" /\ artAlarm
    /\ artAlarm' = FALSE
    /\ pc' = "art"
    /\ loop' = [NoLoop EXCEPT !.from = "art", !.at = First("app"), !.save = nAll]
    /\ UNCHANGED <<queues, numbers, counts, recovery, retxAlarm, conn>>

InRound(n) ==
    /\ Regular(n) /\ HasStream(unacked[n].p) /\ po[unacked[n].p].fake
    /\ po[unacked[n].p].dup < po[unacked[n].p].need

ArtSkip ==
    /\ pc = "art" /\ loop.at # 0
    /\ loop' = [loop EXCEPT !.at = After(loop.at, "app")]
    /\ UNCHANGED <<queues, numbers, counts, recovery, alarms, conn, pc>>

ArtDuplicate ==
    /\ pc = "art" /\ loop.at # 0 /\ InRound(loop.at)
    /\ LosePacket(loop.at, FALSE, FALSE)
    /\ loop' = [loop EXCEPT !.at = After(loop.at, "app")]
    /\ UNCHANGED <<out, lastSent, gap, poison, recovery, alarms, conn, pc>>

\* Mutant: the alarm is not set again.
ArtFinishOnce ==
    /\ pc = "art" /\ loop.at = 0
    /\ pc' = "idle" /\ loop' = NoLoop
    /\ UNCHANGED <<queues, numbers, counts, recovery, alarms, conn>>

ArtFinish ==
    /\ pc = "art" /\ loop.at = 0
    /\ artAlarm' = TRUE
    /\ pc' = "idle" /\ loop' = NoLoop
    /\ UNCHANGED <<queues, numbers, counts, recovery, retxAlarm, conn>>

-----------------------------------------------------------------------------
(* The connection drops data it need not send.                             *)

\* A stream is reset: lsquic_send_ctl_elide_stream_frames().  Frames of other
\* queues are left for send_ctl_next_lost() to elide.
Elide(p) ==
    /\ pc = "idle" \/ (pc \in {"ctl", "streams"} /\ "intick" \in Events)
    /\ resets < MaxResets /\ HasStream(p) /\ ~po[p].reset
    /\ resets' = resets + 1
    /\ IF Scheduled(p) /\ po[p].kind = "stream"
       THEN DropSched({p}, TRUE, FALSE)
       ELSE /\ po' = [po EXCEPT ![p].reset = TRUE,
                         ![p].kind = IF Scheduled(p) THEN "ack" ELSE @]
            /\ UNCHANGED <<unacked, nAll, sched, nSched, cur>>
    /\ UNCHANGED <<lost, out, lastSent, gap, poison, nRetx, recovery, alarms,
                   hskDone, live, elided, pc, loop>>

\* Mutant: the packets behind those dropped keep their numbers.
EmptyPnsKeepsNumbers(s) ==
    LET S == {p \in Pkt : po[p].kind # "free" /\ po[p].pns = s}
        Q == S \cap ToSet(sched)
        firstOut == sched[MinOf({i \in DOMAIN sched : sched[i] \in Q})]
        right == {}
        R == InSpace(s)
    IN  /\ pc = "idle" /\ s \in live \ {"app"}
        /\ live' = live \ {s}
        /\ cur' = IF Q = {} THEN cur ELSE CurLeftOf(firstOut)
        /\ sched' = SelectSeq(sched, LAMBDA p : p \notin S)
        /\ nSched' = nSched - Cardinality(Q)
        /\ unacked' = Without(R)
        /\ nAll' = Less(nAll, Cardinality({n \in R : Regular(n)}))
        /\ nRetx' = nRetx - Cardinality(RetxIn(s))
        /\ lost' = SelectSeq(lost, LAMBDA p : p \notin S)
        /\ po' = [p \in Pkt |-> IF p \in S THEN FreePkt ELSE WithRepack(po, right)[p]]
        /\ retxAlarm' = [retxAlarm EXCEPT ![s] = FALSE]
        /\ UNCHANGED <<out, lastSent, gap, poison, recovery, artAlarm, hskDone,
                       resets, elided, pc, loop>>

\* lsquic_send_ctl_empty_pns(): keys of the space are discarded
EmptyPns(s) ==
    LET S == {p \in Pkt : po[p].kind # "free" /\ po[p].pns = s}
        Q == S \cap ToSet(sched)
        firstOut == sched[MinOf({i \in DOMAIN sched : sched[i] \in Q})]
        right == IF Q = {} THEN {} ELSE RightOf(firstOut)
        R == InSpace(s)
    IN  /\ pc = "idle" /\ s \in live \ {"app"}
        /\ live' = live \ {s}
        /\ cur' = IF Q = {} THEN cur ELSE CurLeftOf(firstOut)
        /\ sched' = SelectSeq(sched, LAMBDA p : p \notin S)
        /\ nSched' = nSched - Cardinality(Q)
        /\ unacked' = Without(R)
        /\ nAll' = Less(nAll, Cardinality({n \in R : Regular(n)}))
        /\ nRetx' = nRetx - Cardinality(RetxIn(s))
        /\ lost' = SelectSeq(lost, LAMBDA p : p \notin S)
        /\ po' = [p \in Pkt |-> IF p \in S THEN FreePkt ELSE WithRepack(po, right)[p]]
        /\ retxAlarm' = [retxAlarm EXCEPT ![s] = FALSE]
        /\ UNCHANGED <<out, lastSent, gap, poison, recovery, artAlarm, hskDone,
                       resets, elided, pc, loop>>

\* ietf_full_conn_ci_hsk_done() of a client
HandshakeDone ==
    /\ pc = "idle" /\ ~hskDone
    /\ hskDone' = TRUE
    /\ gap' \in IF "optack" \in Events THEN FutureGaps ELSE {gap}
    /\ UNCHANGED <<queues, cur, lastSent, poison, counts, recovery, alarms, live, resets,
                   elided, pc, loop>>

\* A server begins the detection when its connection is promoted
BeginOptack ==
    /\ pc = "idle" /\ hskDone /\ "optack" \in Events /\ gap = NoGap
    /\ gap' \in FutureGaps
    /\ UNCHANGED <<queues, cur, lastSent, poison, counts, recovery, alarms, conn, pc, loop>>

-----------------------------------------------------------------------------
(* The tick of the connection, ietf_full_conn_ci_tick(): squeeze what was  *)
(* delayed, acknowledge, then control frames, lost packets and streams, in *)
(* this order, unless something is still delayed.                          *)

Full == NextPackno(cur) > MaxNo             \* the model's bound is reached
\* send_ctl_can_send(); the pacer may refuse too, unless nothing is out
CanSend == (nSched + nAll) % Modulus < Cwnd
Unpaced == nSched + nAll = 0

\* lsquic_send_ctl_new_packet_out()
NewPkt(k, s) ==
    [FreePkt EXCEPT !.kind = k, !.pns = s, !.no = NextPackno(cur), !.flags = {"SCHED"}]

\* lsquic_send_ctl_scheduled_one() with a new packet
Schedule(p, k, s) ==
    /\ po[p].kind = "free" /\ k \in NewKinds /\ s \in live /\ ~Full
    /\ (k \in {"stream", "ctl", "probe"} => s = "app") /\ (k = "hello" => ~hskDone)
    /\ po' = [po EXCEPT ![p] = NewPkt(k, s)]
    /\ cur' = NextPackno(cur)
    /\ sched' = Append(sched, p) /\ nSched' = nSched + 1
    /\ UNCHANGED <<unacked, lost, out, lastSent, gap, poison, nAll, nRetx, recovery,
                   alarms, conn>>

\* Mutant: the ciphertext of the packets that stay is kept.
TickSqueezeKeep ==
    /\ pc = "idle"
    /\ LET S == {p \in ToSet(sched) : po[p].kind = "ack"}
       IN  DropSched(S, S # {}, FALSE)
    /\ pc' = "acking"
    /\ UNCHANGED <<lost, out, lastSent, gap, poison, nRetx, recovery, alarms, conn, loop>>

\* lsquic_send_ctl_maybe_squeeze_sched(): packets that carry only frames that
\* are regenerated go; the others are to be encrypted again
TickSqueeze ==
    /\ pc = "idle"
    /\ LET S == {p \in ToSet(sched) : po[p].kind = "ack"}
       IN  DropSched(S, S # {}, TRUE)
    /\ pc' = "acking"
    /\ UNCHANGED <<lost, out, lastSent, gap, poison, nRetx, recovery, alarms, conn, loop>>

\* Nothing to acknowledge
TickNoAck ==
    /\ pc = "acking"
    /\ pc' = IF sched # <<>> THEN "delayed" ELSE "ctl"
    /\ UNCHANGED <<queues, numbers, counts, recovery, alarms, conn, loop>>

\* generate_ack_frame() when nothing is delayed
TickAck(p, s) ==
    /\ pc = "acking" /\ sched = <<>>
    /\ Schedule(p, "ack", s)
    /\ pc' = "ctl" /\ UNCHANGED loop

\* Mutant: only the first packet is marked.
RenumberedFirst == {Head(sched)}

\* lsquic_send_ctl_reset_packnos(): the packets it marks
Renumbered == ToSet(sched)

\* Mutant: the delayed packets keep their numbers.
TickAckToFrontNoReset(p, s) ==
    /\ pc = "acking" /\ sched # <<>> /\ po[p].kind = "free" /\ "ack" \in NewKinds
    /\ s \in live /\ ~Full
    /\ po' = [po EXCEPT ![p] = NewPkt("ack", s)]
    /\ cur' = NextPackno(cur)
    /\ sched' = <<p>> \o sched /\ nSched' = nSched + 1
    /\ pc' = "delayed"
    /\ UNCHANGED <<unacked, lost, out, lastSent, gap, poison, nAll, nRetx, recovery,
                   alarms, conn, loop>>

\* lsquic_send_ctl_reset_packnos(), generate_ack_frame(), and
\* lsquic_send_ctl_ack_to_front() when there are delayed packets
TickAckToFront(p, s) ==
    /\ pc = "acking" /\ sched # <<>> /\ po[p].kind = "free" /\ "ack" \in NewKinds
    /\ s \in live /\ NextPackno(lastSent) <= MaxNo
    /\ po' = [WithRepack(po, Renumbered) EXCEPT
                 ![p] = [NewPkt("ack", s) EXCEPT !.no = NextPackno(lastSent)]]
    /\ cur' = NextPackno(lastSent)
    /\ sched' = <<p>> \o sched /\ nSched' = nSched + 1
    /\ pc' = "delayed"
    /\ UNCHANGED <<unacked, lost, out, lastSent, gap, poison, nAll, nRetx, recovery,
                   alarms, conn, loop>>

\* Delayed packets are sent before anything else is packetized
TickDelayed ==
    /\ pc = "delayed" /\ pc' = "send"
    /\ UNCHANGED <<queues, numbers, counts, recovery, alarms, conn, loop>>

\* lsquic_send_ctl_get_writeable_packet() and the MTU probe
TickControl(p, k, s) ==
    /\ pc = "ctl" /\ k \in {"ctl", "hello", "probe"} /\ CanSend
    /\ Schedule(p, k, s)
    /\ UNCHANGED <<pc, loop>>

BeginReschedule ==
    /\ pc = "ctl" /\ pc' = "resched"
    /\ UNCHANGED <<queues, numbers, counts, recovery, alarms, conn, loop>>

\* send_ctl_next_lost(): the packets at which its loop stops.  Duplicates do not
\* ask for permission; others are passed over when they may not be sent.
Elidable(p) == HasStream(p) /\ po[p].reset
Duplicate(p) == po[p].fake /\ po[p].dup > 0
MustStop(i) == Elidable(lost[i]) \/ Duplicate(lost[i]) \/ Unpaced
Reached(i) == \A j \in 1 .. i - 1 : ~MustStop(j)

\* The packet is empty once elided: it is dropped.  If it is in a round of
\* duplicates, the in-flight count is decremented for it as well.
LostElided(i) ==
    /\ pc = "resched" /\ Reached(i) /\ Elidable(lost[i])
    /\ LET p == lost[i]
           R == Chain(p)
           extra == IF po[p].fake THEN 1 ELSE 0
       IN  /\ unacked' = Without(R)
           /\ lost' = Remove(lost, p)
           /\ nAll' = Less(nAll, Cardinality({n \in R : Counted(n)}) + extra)
           /\ elided' = elided + extra
           /\ po' = [po EXCEPT ![p] = FreePkt]
    /\ UNCHANGED <<sched, out, numbers, nRetx, nSched, recovery, alarms, hskDone, live,
                   resets, pc, loop>>

\* Mutant: the number is kept.
ResentSame(r) == [r EXCEPT !.kind = IF @ = "ackstream" THEN "stream" ELSE @]

\* update_for_resending(): a new number, regenerated frames are gone
Resent(r) ==
    [r EXCEPT !.no = NextPackno(cur), !.kind = IF @ = "ackstream" THEN "stream" ELSE @]

\* lsquic_send_ctl_reschedule_packets(), one packet
Reschedule(i) ==
    /\ pc = "resched" /\ Reached(i) /\ ~Full
    /\ ~Elidable(lost[i]) /\ (Duplicate(lost[i]) \/ CanSend)
    /\ LET p == lost[i]
       IN  /\ po' = [po EXCEPT ![p] = [Resent(po[p]) EXCEPT !.flags = {"SCHED"}]]
           /\ lost' = Remove(lost, p)
           /\ sched' = Append(sched, p) /\ nSched' = nSched + 1
           /\ artAlarm' = (artAlarm \/ HasStream(p))
    /\ cur' = NextPackno(cur)
    /\ UNCHANGED <<unacked, out, lastSent, gap, poison, nAll, nRetx, recovery,
                   retxAlarm, conn, pc, loop>>

RescheduleDone ==
    /\ pc = "resched"
    /\ Full \/ \A i \in DOMAIN lost : ~MustStop(i)
    /\ pc' = "streams"
    /\ UNCHANGED <<queues, numbers, counts, recovery, alarms, conn, loop>>

\* lsquic_send_ctl_get_packet_for_stream(): a new packet, or what room is left
\* in the last one
TickStream(p) ==
    /\ pc = "streams" /\ CanSend
    /\ Schedule(p, "stream", "app")
    /\ UNCHANGED <<pc, loop>>

TickFill ==
    /\ pc = "streams" /\ sched # <<>> /\ "stream" \in NewKinds
    /\ po[Last(sched)].kind = "ack" /\ po[Last(sched)].pns = "app"
    /\ po' = [po EXCEPT ![Last(sched)].kind = "ackstream"]
    /\ UNCHANGED <<unacked, sched, lost, out, numbers, counts, recovery, alarms, conn,
                   pc, loop>>

TickEnd ==
    /\ pc = "streams"
    /\ pc' = IF sched = <<>> THEN "idle" ELSE "send"
    /\ UNCHANGED <<queues, numbers, counts, recovery, alarms, conn, loop>>

\* Graceful close, at end_write: with delayed packets around, or after the rest
TickClose ==
    /\ pc \in {"delayed", "streams"} /\ "close" \in Events /\ CanSend
    /\ pc' = "close"
    /\ UNCHANGED <<queues, numbers, counts, recovery, alarms, conn, loop>>

\* immediate_close(): lsquic_send_ctl_drop_scheduled()
ImmediateClose ==
    /\ pc = "idle" /\ "abort" \in Events
    /\ DropSched({p \in ToSet(sched) : po[p].kind # "hello"}, FALSE, FALSE)
    /\ pc' = "close"
    /\ UNCHANGED <<lost, out, lastSent, gap, poison, nRetx, recovery, alarms, conn, loop>>

\* The packet with the CONNECTION_CLOSE frame
ClosePacket(p) ==
    /\ pc = "close"
    /\ Schedule(p, "ctl", "app")
    /\ pc' = "send" /\ loop' = [NoLoop EXCEPT !.from = "close"]

CloseSilently ==
    /\ pc = "close"
    /\ pc' = "closed"
    /\ UNCHANGED <<queues, numbers, counts, recovery, alarms, conn, loop>>

-----------------------------------------------------------------------------
(* The engine: send_packets_out() and send_batch().                        *)

\* lsquic_engine_send_unsent_packets(), or a tick that the pacer blocks: packets
\* are sent without having been squeezed
SendUnsent ==
    /\ pc = "idle" /\ "unsent" \in Events /\ sched # <<>>
    /\ pc' = "send"
    /\ UNCHANGED <<queues, numbers, counts, recovery, alarms, conn, loop>>

\* send_ctl_get_n_consec_rtos() finds that the last RTO was long ago
ForgetRtos ==
    /\ pc = "send" /\ rtos /\ sched # <<>>
    /\ rtos' = FALSE
    /\ UNCHANGED <<queues, numbers, counts, largest, cutback, reord, lossTo, nTlp,
                   nextLimit, alarms, conn, pc, loop>>

Held(p) == ~HasAck(p) /\ rtos
Taken(p) == nextLimit > 0 \/ ~Held(p)

\* lsquic_send_ctl_next_packet_to_send() and the encryption of the packet, which
\* is left out if it is encrypted already
TakeNext ==
    /\ pc = "send" /\ sched # <<>>
    /\ LET p == Head(sched)
           r == IF po[p].repack THEN [Resent(po[p]) EXCEPT !.repack = FALSE] ELSE po[p]
       IN  /\ Taken(p)
           /\ po[p].repack => po[p].kind # "ack" /\ ~Full
           /\ cur' = IF po[p].repack THEN NextPackno(cur) ELSE cur
           /\ nextLimit' = IF Held(p) THEN nextLimit - 1 ELSE nextLimit
           /\ po' = [po EXCEPT ![p] = [r EXCEPT
                        !.flags = {}, !.limited = Held(p),
                        !.enc = IF @ = 0 THEN r.no ELSE @]]
           /\ out' = Append(out, p)
    /\ sched' = Tail(sched) /\ nSched' = nSched - 1
    /\ UNCHANGED <<unacked, lost, lastSent, gap, poison, nAll, nRetx, largest, cutback,
                   reord, lossTo, nTlp, rtos, alarms, conn, pc, loop>>

\* ... which drops a packet to be renumbered that has nothing left to send
TakeNothing ==
    /\ pc = "send" /\ sched # <<>>
    /\ po[Head(sched)].repack /\ po[Head(sched)].kind = "ack"
    /\ DropSched({Head(sched)}, FALSE, FALSE)
    /\ UNCHANGED <<lost, out, lastSent, gap, poison, nRetx, recovery, alarms, conn,
                   pc, loop>>

SendBatch ==
    /\ pc = "send" /\ out # <<>>
    /\ pc' = "batch"
    /\ UNCHANGED <<queues, numbers, counts, recovery, alarms, conn, loop>>

\* send_ctl_update_poison_hist(), lsquic_senhist_add()
Poisons(n) == n = gap + 1
SentUpTo(n) == Max({lastSent, n})
PoisonEntry == [t |-> "poison", p |-> "none", fake |-> FALSE,
                fb |-> FALSE, fack |-> FALSE]
PktEntry(p) == [t |-> "pkt", p |-> p, fake |-> FALSE, fb |-> FALSE, fack |-> FALSE]
WithEntries(f) == [n \in DOMAIN unacked \cup DOMAIN f |->
                     IF n \in DOMAIN f THEN f[n] ELSE unacked[n]]

SentAlarm(p) == retxAlarm[po[p].pns] \/ IsRetx(p)

\* lsquic_send_ctl_sent_packet()
Sent ==
    /\ pc = "batch" /\ out # <<>>
    /\ LET p == Head(out)
           n == po[p].no
           new == IF Poisons(n) THEN (gap :> PoisonEntry) @@ (n :> PktEntry(p))
                  ELSE n :> PktEntry(p)
       IN  /\ unacked' = WithEntries(new)
           /\ poison' = (poison \/ Poisons(n))
           /\ lastSent' = SentUpTo(n)
           /\ nAll' = (nAll + 1) % Modulus
           /\ nRetx' = IF IsRetx(p) THEN nRetx + 1 ELSE nRetx
           /\ po' = [po EXCEPT ![p].flags = {"UNACKED"}, ![p].enc = 0]
           /\ retxAlarm' = [retxAlarm EXCEPT ![po[p].pns] = SentAlarm(p)]
    /\ out' = Tail(out)
    /\ UNCHANGED <<sched, lost, cur, gap, nSched, recovery, artAlarm, conn, pc, loop>>

\* An MTU probe is too large to be sent: its number is used up
\* (lsquic_send_ctl_mtu_not_sent())
ProbeTooLarge ==
    /\ pc = "batch" /\ out # <<>> /\ IsProbe(Head(out))
    /\ LET p == Head(out)
           n == po[p].no
       IN  /\ unacked' = IF Poisons(n) THEN WithEntries(gap :> PoisonEntry) ELSE unacked
           /\ poison' = (poison \/ Poisons(n))
           /\ lastSent' = SentUpTo(n)
           /\ po' = [po EXCEPT ![p] = FreePkt]
    /\ out' = Tail(out)
    /\ UNCHANGED <<sched, lost, cur, gap, counts, recovery, alarms, conn, pc, loop>>

\* Mutant: every packet gives the allowance back.
GivenBackAll == Len(out)

\* lsquic_send_ctl_delayed_one(): packets that used up sc_next_limit give it back
GivenBack == Cardinality({p \in ToSet(out) : po[p].limited})

\* The rest of the batch was not sent: ci_packet_not_sent() in reverse order,
\* lsquic_send_ctl_delayed_one()
NotSent ==
    /\ pc = "batch" /\ out # <<>> /\ "delay" \in Events
    /\ sched' = out \o sched
    /\ nSched' = nSched + Len(out)
    /\ nextLimit' = nextLimit + GivenBack
    /\ po' = [p \in Pkt |-> IF p \in ToSet(out) THEN [po[p] EXCEPT !.flags = {"SCHED"}]
                             ELSE po[p]]
    /\ out' = <<>>
    /\ pc' = IF loop.from = "close" THEN "closed" ELSE "idle"
    /\ UNCHANGED <<unacked, lost, numbers, nAll, nRetx, largest, cutback, reord, lossTo,
                   nTlp, rtos, alarms, conn, loop>>

BatchDone ==
    /\ pc = "batch" /\ out = <<>>
    /\ pc' = "send"
    /\ UNCHANGED <<queues, numbers, counts, recovery, alarms, conn, loop>>

\* No packet to send, or the engine is past its deadline
SendDone ==
    /\ pc = "send" /\ out = <<>>
    /\ sched # <<>> => ~Taken(Head(sched)) \/ "delay" \in Events \/ Full
    /\ pc' = IF loop.from = "close" THEN "closed" ELSE "idle"
    /\ UNCHANGED <<queues, numbers, counts, recovery, alarms, conn, loop>>

-----------------------------------------------------------------------------
AckNext ==
    \/ \E s \in Spaces : \E acked \in SUBSET InSpace(s), above \in BOOLEAN :
          \E hi \in {MaxOf(acked), 0} : GotAck(s, acked, hi, above)
    \/ AckSkip \/ AckEntry \/ AckPoison \/ AckDone
DetectNext == DetectSkip \/ DetectRecord \/ DetectPacket \/ DetectDone
AlarmNext ==
    \/ \E s \in Spaces : RingLoss(s) \/ RingExpire(s)
    \/ ExpireStep \/ ExpireDone
    \/ ArtRings \/ ArtSkip \/ ArtDuplicate \/ ArtFinish
ConnNext ==
    \/ \E p \in Pkt : Elide(p)
    \/ \E s \in Spaces : EmptyPns(s)
    \/ HandshakeDone \/ BeginOptack
TickNext ==
    \/ TickSqueeze \/ TickNoAck \/ TickDelayed
    \/ \E p \in Pkt, s \in Spaces : TickAck(p, s) \/ TickAckToFront(p, s)
    \/ \E p \in Pkt, s \in Spaces, k \in NewKinds : TickControl(p, k, s)
    \/ BeginReschedule
    \/ \E i \in DOMAIN lost : LostElided(i) \/ Reschedule(i)
    \/ RescheduleDone
    \/ \E p \in Pkt : TickStream(p)
    \/ TickFill \/ TickEnd \/ TickClose \/ ImmediateClose \/ CloseSilently
    \/ \E p \in Pkt : ClosePacket(p)
SendNext ==
    \/ SendUnsent \/ ForgetRtos \/ TakeNext \/ TakeNothing
    \/ SendBatch \/ Sent \/ ProbeTooLarge \/ NotSent \/ BatchDone \/ SendDone

Next == AckNext \/ DetectNext \/ AlarmNext \/ ConnNext \/ TickNext \/ SendNext
Spec == Init /\ [][Next]_vars

-----------------------------------------------------------------------------
(* Properties.                                                             *)

Idle == pc = "idle"
Numbered == SelectSeq(sched, LAMBDA p : ~po[p].repack)

\* Types of the fields and counters of the send controller, between two steps of
\* any handler.
TypeOK ==
    /\ po \in [Pkt -> [kind : Kinds \cup {"free"}, pns : Spaces, no : 0 .. MaxNo,
                       flags : SUBSET {"SCHED", "UNACKED", "LOST"}, repack : BOOLEAN,
                       enc : 0 .. MaxNo, fake : BOOLEAN, dup : Nat,
                       need : Needs \cup {0}, limited : BOOLEAN, reset : BOOLEAN]]
    /\ DOMAIN unacked \subseteq 1 .. MaxNo
    /\ \A n \in DOMAIN unacked :
          unacked[n] \in [t : {"pkt", "rec", "poison"}, p : Pkt \cup {"none"}, fake : BOOLEAN,
                         fb : BOOLEAN, fack : BOOLEAN]
    /\ {sched, lost, out} \subseteq Seq(Pkt)
    /\ cur \in 0 .. MaxNo /\ lastSent \in 0 .. MaxNo /\ poison \in BOOLEAN
    /\ nAll \in 0 .. Modulus - 1 /\ nRetx \in Nat /\ nSched \in Nat
    /\ nTlp \in 0 .. 2 /\ nextLimit \in Nat

\* A packet object is on the queue its flags name and on no other
\* (send_ctl_destroy_chain() relies on it to unlink a packet it reaches through
\* a loss record), and sc_n_scheduled is the length of the scheduled queue.
FlagsNameTheQueue ==
    /\ nSched = Len(sched)
    /\ \A q \in {sched, lost, out} : Cardinality(ToSet(q)) = Len(q)
    /\ \A p \in Pkt :
          /\ ("SCHED" \in po[p].flags) <=> (p \in ToSet(sched))
          /\ ("LOST" \in po[p].flags) <=> (p \in ToSet(lost))
          /\ ("UNACKED" \in po[p].flags) <=>
                (po[p].no \in DOMAIN unacked /\ unacked[po[p].no] = PktEntry(p))
          /\ Cardinality(po[p].flags) <= 1
          /\ po[p].flags = {} <=> (po[p].kind = "free" \/ p \in ToSet(out))

\* The queue walks of got_ack, detect_losses, expire and art_schedule never hold
\* a pointer to an entry that was unlinked on the way, though one step may
\* destroy any number of entries (the `next' argument of destroy_chain).
CursorAlive ==
    pc \in {"ack", "detect", "expire", "art"} /\ loop.at # 0
        => loop.at \in InSpace(loop.pns)

\* Every entry of the unacked queue belongs to a packet that is still alive; a
\* packet has at most one entry that is not a loss record, its newest one; and
\* its loss records are older than its current number, unless it is lost.
ChainsAreWhole ==
    \A n \in DOMAIN unacked : unacked[n].t # "poison" =>
        LET p == unacked[n].p IN
        /\ po[p].kind # "free"
        /\ Regular(n) => po[p].no = n
        /\ Record(n) => (n < po[p].no \/ (n = po[p].no /\ p \in ToSet(lost)))
        /\ Record(n) => IsRetx(p) \/ HasAck(p)

\* sc_n_in_flight_all counts the packets of the unacked queue and the fake loss
\* records of ART, and sc_n_in_flight_retx the packets to be retransmitted, but
\* for one too few for each ART packet dropped from the lost queue.  art_schedule()
\* leaves the count as it found it (its assert).
InFlightAccounting ==
    /\ (nAll + elided) % Modulus = Cardinality({n \in DOMAIN unacked : Counted(n)})
    /\ nRetx = Cardinality(UNION {RetxIn(s) : s \in Spaces})
    /\ pc = "art" => nAll = loop.save

\* Whenever a packet that must be retransmitted is outstanding in a space, the
\* retransmission alarm of that space is armed: no loss goes unnoticed forever.
RetxAlarmArmed ==
    Idle => \A s \in Spaces : RetxIn(s) # {} => retxAlarm[s]

\* A packet that loss detection leaves alone because duplicates of it are still
\* due has the duplicate alarm to send them.
RoundHasAlarm ==
    Idle => \A n \in DOMAIN unacked : InRound(n) => artAlarm

\* When detection is over, a packet overtaken by more than the reordering
\* threshold is still taken for outstanding only in a round of duplicates.
NothingOverdue ==
    pc = "detect" /\ ~Detecting =>
        \A n \in InSpace(loop.pns) :
            Regular(n) /\ n + reord < largest => InRound(n)

\* After an RTO at most two packets without an ACK frame are let out, also when
\* they are returned by the engine and tried again.
TwoAfterRto ==
    nextLimit + Cardinality({p \in ToSet(out) : po[p].limited}) <= 2

\* A turn of duplicates begins with none sent: the comment on
\* po_retrans_packet_number in lsquic_packet_out.h calls it the number of
\* duplicates in a turn.
TurnStartsAtZero ==
    [][\A p \in Pkt : pc = "detect" /\ HasStream(p) /\ po[p].flags = {"UNACKED"}
           /\ po'[p].flags = {"LOST"} => po'[p].dup = 0]_vars

\* Once a scheduled packet is marked for renumbering, all those to the right of
\* it are (the comment in send_ctl_maybe_renumber_sched_to_right()).
RepackIsSuffix ==
    \A i, j \in DOMAIN sched :
        i < j /\ po[sched[i]].repack => po[sched[j]].repack

\* The packets about to be sent carry consecutive numbers, from the one after
\* the last number sent on and leaving out the gap: packets are sent in order and
\* without holes, whatever was dropped, renumbered or returned in between.
NumbersConsecutive ==
    loop.from # "close" =>
        LET q == out \o Numbered IN
        \A i \in DOMAIN q :
            po[q[i]].no = NextPackno(IF i = 1 THEN lastSent ELSE po[q[i - 1]].no)

\* The poison is on the queue exactly while SC_POISON is set, it has the number
\* sc_gap, no packet ever gets that number, and the packet after the gap is not
\* about to be sent while the poison is out (the assert of
\* send_ctl_update_poison_hist()).
PoisonApart ==
    /\ poison <=> (gap \in DOMAIN unacked /\ unacked[gap].t = "poison")
    /\ \A n \in DOMAIN unacked : unacked[n].t = "poison" => n = gap
    /\ \A p \in ToSet(out) \cup ToSet(Numbered) : po[p].no # gap
    /\ \A p \in ToSet(out) : Poisons(po[p].no) => ~poison

\* The number a packet is recorded under when it is sent is the number that was
\* encrypted into it.
WireNumber == \A p \in ToSet(out) : po[p].enc = po[p].no

\* The assertion at the head of send_ctl_handle_regular_lost_packet(): when a
\* packet is declared lost, the in-flight count is not zero.
InFlightAtLoss ==
    pc \in {"detect", "expire"} /\ loop.at \in DOMAIN unacked /\ nAll = 0 =>
        LET n == loop.at IN
        Regular(n) /\ ~IsProbe(unacked[n].p) =>
            ~(IF pc = "detect" THEN Detecting /\ Overdue(n) /\ ArtDone(unacked[n].p)
              ELSE Expires(n))

\* The assertion of lsquic_send_ctl_do_sanity_check(): sc_n_in_flight_all is the
\* number of entries that are neither loss records nor the poison.
SanityCheckCount == Idle => nAll = Cardinality({n \in DOMAIN unacked : Regular(n)})
=============================================================================
