------------------------------- MODULE Engine -------------------------------
(***************************************************************************)
(* The engine of lsquic_engine.c: the queues a connection can be           *)
(* referenced from, its destruction when the last reference is dropped,    *)
(* the promotion of mini connections, and the loop that collects packets   *)
(* of all connections into batches and hands them to the application's     *)
(* packets_out() callback.  lsquic_pr_queue.c is part of it: requests for  *)
(* version negotiation and stateless reset packets become "evanescent"     *)
(* connections of one packet.                                              *)
(*                                                                         *)
(* The engine is single-threaded.  A call into it runs to its end, and is  *)
(* modelled step by step through pc: "idle" between calls, "tick" in the   *)
(* loop over tickable connections, "send" while a batch is collected,      *)
(* "out" around a call of packets_out(), then "closed" and "ticked" in the *)
(* two loops at the end of process_connections().                          *)
(*                                                                         *)
(* A connection is what the engine knows of it: its flags and the packets  *)
(* it would return from ci_next_packet_to_send().  What it answers to      *)
(* ci_tick() and ci_is_tickable() is chosen.  There is no clock: which     *)
(* advisory times have passed when the engine is called is chosen, and so  *)
(* is the order in which tickable connections come off their heap.  Those  *)
(* with packets to send do in the order they last sent.                    *)
(***************************************************************************)
EXTENDS Naturals, FiniteSets, SequencesExt

CONSTANTS
    Conns,        \* connection objects
    Reqs,         \* packet requests
    MaxInchoate,  \* es_max_inchoate
    FirstAlloc,   \* elements of a heap after it is first allocated
    MinBatch,     \* min_batch_size
    MaxBatch,     \* max_batch_size
    FirstBatch,   \* INITIAL_OUT_BATCH_SIZE
    MaxIov,       \* packets a batch has room for
    MaxEvConns,   \* prq_max_conns
    MaxPackets,   \* bound: packets of a connection on their way
    MaxParties,   \* bound: connections and requests that exist at once
    Faults        \* failures that occur: subset of AllFaults

None == "none"

\* "again", "fatal" and "msgsize" are what packets_out() fails with; "enc" is a
\* packet that cannot be encrypted, "coalesced" one that cannot be while it is
\* being added to a datagram; "deadline" is es_proc_time_thresh; "dropped" is a
\* mini connection that is dropped while it has packets to send.
AllFaults == {"again", "fatal", "msgsize", "enc", "coalesced", "deadline", "dropped"}

ASSUME EngineAssumption ==
    /\ MinBatch \in Nat \ {0} /\ MaxBatch \in Nat /\ FirstBatch \in MinBatch .. MaxBatch
    /\ MaxIov \in Nat \ {0} /\ FirstAlloc \in Nat \ {0}
    /\ MaxPackets \in Nat /\ MaxParties \in Nat
    /\ Faults \subseteq AllFaults /\ None \notin Conns \cup Reqs

VARIABLES
    conn,         \* [Conns -> connection], Free when there is none
    tickable,     \* heap conns_tickable
    outHeap,      \* heap conns_out
    attq,         \* advisory tick time queue
    nalloc,       \* elements allocated for each heap
    cooldown,     \* ENG_COOLDOWN
    prq,          \* packet request queue
    send,         \* batch_size, ENPUB_CAN_SEND, and the connections by cn_last_sent
    pc,           \* where the current call is
    lists,        \* transient queues of the call
    iter,         \* conns_out_iter
    batch         \* out_batch and the variables of the sending loop

vars == <<conn, tickable, outHeap, attq, nalloc, cooldown, prq, send, pc, lists, iter, batch>>
queues == <<tickable, outHeap, attq, nalloc>>
-----------------------------------------------------------------------------
\* References

RefFlags == {"HASHED", "HAS_OUTGOING", "TICKABLE", "TICKED", "CLOSING", "ATTQ"}
AllFlags == RefFlags \cup {"MINI", "PROMOTED", "IMMED_CLOSE", "COI_ACTIVE", "COI_INACTIVE"}

\* A connection's packets are numbered as they are made, from 1 again when all
\* have been sent; unsent are those it holds, gone is the number of the last
\* that was sent or given up.
Free == [flags |-> {}, made |-> 0, gone |-> 0, unsent |-> <<>>]

Live(f) == {c \in Conns : f[c] # Free}
Refs(f, c) == f[c].flags \cap RefFlags
Has(f, c, flag) == flag \in f[c].flags

Incref(f, c, flag) == [f EXCEPT ![c].flags = @ \cup {flag}]

\* engine_decref_conn(): without a reference the connection is destroyed
Decref(f, c, flag) ==
    IF Refs(f, c) \subseteq {flag} THEN [f EXCEPT ![c] = Free]
                                   ELSE [f EXCEPT ![c].flags = @ \ {flag}]

\* The same reference dropped for all the connections of a set
DecrefAll(f, S, flag) == [c \in Conns |-> IF c \in S THEN Decref(f, c, flag)[c] ELSE f[c]]

Without(s, c) == SelectSeq(s, LAMBDA d : d # c)

IndexIn(s, c) == CHOOSE i \in DOMAIN s : s[i] = c

\* cn_last_sent of c becomes the latest: it sent, or it is new
SentLast(s, c) == [s EXCEPT !.order = Append(Without(@, c), c)]

MiniCount == Cardinality({c \in Live(conn) : Has(conn, c, "MINI")})
Room == Cardinality(Live(conn)) + Cardinality(prq.pending) + prq.nconns < MaxParties
FreeConns == IF Room THEN Conns \ Live(conn) ELSE {}

\* maybe_grow_conn_heaps()
MaybeGrow == IF Cardinality(Live(conn)) < nalloc THEN nalloc
             ELSE IF nalloc = 0 THEN FirstAlloc ELSE 2 * nalloc
-----------------------------------------------------------------------------
\* Between calls

Idle == pc = "idle"
NoLists == [closed |-> <<>>, ticked |-> <<>>, newFull |-> <<>>]
NoIter == [active |-> <<>>, inactive |-> <<>>, next |-> None, prq |-> TRUE]
NoBatch == [out |-> <<>>, skip |-> 0, full |-> FALSE, sent |-> 0, shrink |-> FALSE, blame |-> <<>>]

Init ==
    /\ conn = [c \in Conns |-> Free]
    /\ tickable = {} /\ outHeap = {} /\ attq = {}
    /\ nalloc = 0 /\ cooldown = FALSE
    /\ prq = [pending |-> {}, returned |-> <<>>, drop |-> {}, nconns |-> 0]
    /\ send = [size |-> FirstBatch, can |-> TRUE, order |-> <<>>]
    /\ pc = "idle" /\ lists = NoLists /\ iter = NoIter /\ batch = NoBatch

\* A packet for an unknown connection ID makes a mini connection, the packet
\* makes it tickable.
NewMini(c) ==
    /\ Idle /\ c \in FreeConns /\ ~cooldown /\ MiniCount < MaxInchoate
    /\ nalloc' = MaybeGrow
    /\ conn' = [conn EXCEPT ![c].flags = {"MINI", "HASHED", "TICKABLE"}]
    /\ tickable' = tickable \cup {c}
    /\ send' = SentLast(send, c)
    /\ UNCHANGED <<outHeap, attq, cooldown, prq, pc, lists, iter, batch>>

\* lsquic_engine_connect(): also from a callback of the user while connections
\* are processed
Connect(c) ==
    /\ pc \in {"idle", "tick", "ticked"} /\ c \in FreeConns
    /\ nalloc' = MaybeGrow
    /\ conn' = [conn EXCEPT ![c].flags = {"HASHED", "TICKABLE"}]
    /\ tickable' = tickable \cup {c}
    /\ send' = SentLast(send, c)
    /\ UNCHANGED <<outHeap, attq, cooldown, prq, pc, lists, iter, batch>>

\* lsquic_engine_add_conn_to_tickable(): nothing happens while connections are
\* being processed
AddToTickable(c) ==
    /\ c \in Live(conn) /\ ~Has(conn, c, "TICKABLE")
    /\ conn' = Incref(conn, c, "TICKABLE")
    /\ tickable' = tickable \cup {c}
    /\ UNCHANGED <<outHeap, attq, nalloc, cooldown, prq, send, pc, lists, iter, batch>>

\* A packet finds its connection by the hash; the user may use any connection
\* that was not destroyed.
PacketIn(c) == Idle /\ Has(conn, c, "HASHED") /\ AddToTickable(c)
UserWork(c) == Idle /\ c \in Live(conn) /\ ~Has(conn, c, "MINI") /\ AddToTickable(c)

\* lsquic_engine_add_conn_to_attq(), called when the pacer forbids sending
AddToAttq(c) ==
    /\ Idle /\ Has(conn, c, "HASHED") /\ ~Has(conn, c, "MINI") /\ ~Has(conn, c, "TICKABLE")
    /\ conn' = Incref(conn, c, "ATTQ")
    /\ attq' = attq \cup {c}
    /\ UNCHANGED <<tickable, outHeap, nalloc, cooldown, prq, send, pc, lists, iter, batch>>

\* lsquic_prq_new_req(): prq_max_reqs is the number of request objects
NewReq(r) ==
    /\ Idle /\ Room /\ r \in Reqs \ (prq.pending \cup ToSet(prq.returned))
    /\ prq' = [prq EXCEPT !.pending = @ \cup {r}]
    /\ UNCHANGED <<conn, queues, cooldown, send, pc, lists, iter, batch>>

\* lsquic_engine_cooldown() drops the mini connections from the hash
Cooldown ==
    /\ Idle /\ ~cooldown
    /\ "dropped" \in Faults \/ \A c \in Conns : ~({"MINI", "HAS_OUTGOING"} \subseteq conn[c].flags)
    /\ cooldown' = TRUE
    /\ conn' = DecrefAll(conn, {c \in Conns : {"MINI", "HASHED"} \subseteq conn[c].flags}, "HASHED")
    /\ UNCHANGED <<tickable, outHeap, attq, nalloc, prq, send, pc, lists, iter, batch>>
-----------------------------------------------------------------------------
\* lsquic_engine_process_conns()

HasUnsentPackets == outHeap # {} \/ prq.pending # {}

\* Connections whose advisory time has passed become tickable, unless this was
\* the last reference.  Some time after it could not send, the engine tries
\* again by itself.
ProcessConnsAt(due, failsafe) ==
    /\ Idle
    /\ LET f == DecrefAll(conn, due, "ATTQ")
           up == {c \in due \cap Live(f) : ~Has(f, c, "TICKABLE")}
       IN  /\ conn' = [c \in Conns |-> IF c \in up THEN Incref(f, c, "TICKABLE")[c] ELSE f[c]]
           /\ tickable' = tickable \cup up
    /\ attq' = attq \ due
    /\ send' = [send EXCEPT !.can = @ \/ failsafe]
    /\ pc' = "tick"
    /\ UNCHANGED <<outHeap, nalloc, cooldown, prq, lists, iter, batch>>
ProcessConns == \E due \in SUBSET attq : \E failsafe \in BOOLEAN : ProcessConnsAt(due, failsafe)

\* conn_iter_next_tickable() drops the two references; it returns NULL when
\* that destroys the connection.
Popped(c) == LET f == Decref(conn, c, "TICKABLE")
             IN  IF Has(f, c, "ATTQ") THEN Decref(f, c, "ATTQ") ELSE f

\* What a tick leaves: TICK_SEND puts the connection on the outgoing queue,
\* TICK_CLOSE on the list of closed ones and off the hash; otherwise it is on
\* the list of ticked ones.
TickSent(f, c, quiet) ==
    IF f[c].unsent = <<>> \/ quiet THEN f ELSE Incref(f, c, "HAS_OUTGOING")
TickClosed(f, c) == [f EXCEPT ![c].flags = (@ \cup {"CLOSING"}) \ {"HASHED"}]

\* ci_tick() of c and what process_connections() does with the result.  f, t, a
\* and l are the connections, the tickable heap, the attq and the lists as the
\* iterator left them.  A tick may make a packet, be held up by the pacer,
\* promote a mini connection, and close; a full connection that was closed
\* before only closes.
Tick(c, f, t, a, l) ==
    \E make, pace, quiet, close \in BOOLEAN :
    \E new \in {None} \cup (IF Has(f, c, "MINI") THEN FreeConns ELSE {}) :
        /\ make => f[c].made < MaxPackets
        /\ pace => ~Has(f, c, "MINI")
        /\ quiet => close /\ f[c].unsent # <<>>
        /\ new # None => close
        /\ {"HASHED", "MINI"} \cap f[c].flags = {} => close /\ ~make /\ ~pace
        /\ LET f1 == IF make THEN [f EXCEPT ![c].made = @ + 1, ![c].unsent = Append(@, f[c].made + 1)] ELSE f
               f2 == IF pace THEN Incref(f1, c, "ATTQ") ELSE f1
               f3 == IF new # None THEN [f2 EXCEPT ![new].flags = {"HASHED"}, ![c].flags = @ \cup {"PROMOTED"}]
                     ELSE f2
               f4 == TickSent(f3, c, quiet)
           IN  /\ conn' = IF close THEN TickClosed(f4, c) ELSE Incref(f4, c, "TICKED")
               /\ outHeap' = IF Has(f4, c, "HAS_OUTGOING") /\ ~Has(f, c, "HAS_OUTGOING")
                             THEN outHeap \cup {c} ELSE outHeap
               /\ lists' = [closed |-> IF close THEN Append(l.closed, c) ELSE l.closed,
                            ticked |-> IF close THEN l.ticked ELSE Append(l.ticked, c),
                            newFull |-> IF new # None THEN Append(l.newFull, new) ELSE l.newFull]
               /\ attq' = IF pace THEN a \cup {c} ELSE a
               /\ nalloc' = IF new # None THEN MaybeGrow ELSE nalloc
               /\ send' = IF new # None THEN SentLast(send, new) ELSE send
        /\ tickable' = t
        /\ UNCHANGED <<cooldown, prq, pc, iter, batch>>

\* The iterator is out of connections: new full connections are ticked, then
\* packets are sent.
NewFullOrSend(f, t, a) ==
    IF lists.newFull # <<>>
    THEN Tick(Head(lists.newFull), f, t, a, [lists EXCEPT !.newFull = Tail(@)])
    ELSE /\ conn' = f /\ tickable' = t /\ attq' = a
         /\ pc' = IF send.can /\ HasUnsentPackets THEN "send" ELSE "closed"
         /\ UNCHANGED <<outHeap, nalloc, cooldown, prq, send, lists, iter, batch>>

TickTickable ==
    /\ pc = "tick"
    /\ \E c \in tickable :
        /\ Popped(c)[c] # Free
        /\ Tick(c, Popped(c), tickable \ {c}, attq \ {c}, lists)
TickDestroyed ==
    /\ pc = "tick"
    /\ \E c \in tickable :
        /\ Popped(c)[c] = Free
        /\ NewFullOrSend(Popped(c), tickable \ {c}, attq \ {c})

\* Mutant: the loop may end when one connection was ticked.
TickNoMoreEarly ==
    pc = "tick" /\ (tickable = {} \/ lists.ticked # <<>>) /\ NewFullOrSend(conn, tickable, attq)
TickNoMore == pc = "tick" /\ tickable = {} /\ NewFullOrSend(conn, tickable, attq)

\* lsquic_engine_send_unsent_packets(): connections may have become tickable
\* because sending is possible again
SendUnsentPackets ==
    /\ Idle
    /\ \E again \in SUBSET {c \in Conns : Has(conn, c, "HASHED") /\ ~Has(conn, c, "TICKABLE")} :
        /\ send.can => again = {}
        /\ conn' = [c \in Conns |-> IF c \in again THEN Incref(conn, c, "TICKABLE")[c] ELSE conn[c]]
        /\ tickable' = tickable \cup again
    /\ send' = [send EXCEPT !.can = TRUE]
    /\ pc' = "send"
    /\ UNCHANGED <<outHeap, attq, nalloc, cooldown, prq, lists, iter, batch>>
-----------------------------------------------------------------------------
\* send_packets_out(): collecting a batch

\* The parts of the state that sending changes, as one record
State == [conn |-> conn, prq |-> prq, closed |-> lists.closed, ticked |-> lists.ticked, iter |-> iter]

Becomes(s) ==
    /\ conn' = s.conn /\ prq' = s.prq /\ iter' = s.iter
    /\ lists' = [lists EXCEPT !.closed = s.closed, !.ticked = s.ticked]

Deactivate(s, c) ==
    [s EXCEPT !.iter.active = Without(@, c), !.iter.inactive = Append(@, c),
              !.conn[c].flags = (@ \ {"COI_ACTIVE"}) \cup {"COI_INACTIVE"}]
Reactivate(s, c) ==
    [s EXCEPT !.iter.active = Append(@, c), !.iter.inactive = Without(@, c),
              !.conn[c].flags = (@ \ {"COI_INACTIVE"}) \cup {"COI_ACTIVE"}]

\* Mutant: the connection stays on the list of ticked connections.
CloseKeepTicked(s, c) ==
    [s EXCEPT !.closed = IF Has(s.conn, c, "CLOSING") THEN @ ELSE Append(@, c),
              !.conn[c].flags = (@ \cup {"IMMED_CLOSE", "CLOSING"}) \ {"HASHED", "TICKED"}]

\* close_conn_immediately()
CloseImmediately(s, c) ==
    [s EXCEPT !.closed = IF Has(s.conn, c, "CLOSING") THEN @ ELSE Append(@, c),
              !.ticked = Without(@, c),
              !.conn[c].flags = (@ \cup {"IMMED_CLOSE", "CLOSING"}) \ {"HASHED", "TICKED"}]

Packed == FoldLeft(LAMBDA n, e : n + Len(e.packets), 0, batch.out)

\* A datagram is added; the batch is sent when it has as many datagrams as the
\* batch size, or as many packets as there is room for.
Add(from, packets) ==
    LET out == Append(batch.out, [from |-> from, packets |-> packets])
        full == Len(out) = send.size \/ Packed + Len(packets) >= MaxIov
    IN  /\ batch' = [batch EXCEPT !.out = out, !.full = full]
        /\ pc' = IF full THEN "out" ELSE "send"

\* After the loop what was collected is sent
EndFor ==
    /\ pc' = IF batch.out = <<>> THEN "reheap" ELSE "out"
    /\ batch' = [batch EXCEPT !.full = FALSE]

\* What the loop does with connection c, which coi_next() returned: it has no
\* packet, or a datagram of one or two packets is added, or a packet cannot be
\* encrypted.  In the last case the packet is given back, and sending ends (no
\* memory) or the connection is closed (bad encryption).  A packet already in
\* the datagram is not given back: it is not in the batch either.
Offer(c, s) ==
    LET unsent == s.conn[c].unsent
        keep(n) == [s EXCEPT !.conn[c].unsent = SubSeq(@, n + 1, Len(@))]
    IN  \/ /\ unsent = <<>>
           /\ Becomes(Deactivate(s, c))
           /\ UNCHANGED <<pc, batch>>
        \/ \E n \in 1..2 :
           /\ n <= Len(unsent) /\ Packed + n <= MaxIov
           /\ Becomes(keep(n))
           /\ Add(c, SubSeq(unsent, 1, n))
        \/ \E lost \in 0..1 :
           /\ IF lost = 0 THEN "enc" \in Faults ELSE "coalesced" \in Faults
           /\ lost < Len(unsent)
           /\ \/ Becomes(keep(lost)) /\ EndFor
              \/ /\ Becomes(Deactivate(CloseImmediately(keep(lost), c), c))
                 /\ UNCHANGED <<pc, batch>>

\* coi_next(): first the connections of the heap
SendHeap ==
    /\ pc = "send"
    /\ \E c \in outHeap :
        /\ \A d \in outHeap : IndexIn(send.order, c) <= IndexIn(send.order, d)
        /\ outHeap' = outHeap \ {c}
        /\ Offer(c, [State EXCEPT !.iter.active = Append(@, c), !.conn[c].flags = @ \cup {"COI_ACTIVE"}])
    /\ UNCHANGED <<tickable, attq, nalloc, cooldown, send>>

\* then packet requests, those that could not be sent before the pending ones:
\* lsquic_prq_next_conn()
PrqNext ==
    IF ~iter.prq THEN {}
    ELSE IF prq.returned # <<>> THEN {Head(prq.returned)}
    ELSE IF prq.nconns < MaxEvConns THEN prq.pending ELSE {}

SendRequest ==
    /\ pc = "send" /\ outHeap = {}
    /\ \E r \in PrqNext :
        LET taken == IF prq.returned # <<>> THEN [prq EXCEPT !.returned = Tail(@)]
                     ELSE [prq EXCEPT !.pending = @ \ {r}, !.nconns = @ + 1, !.drop = @ \ {r}]
        IN  \/ prq' = taken /\ Add(r, <<1>>)
            \/ /\ "enc" \in Faults
               /\ prq' = [taken EXCEPT !.returned = <<r>> \o @]
               /\ EndFor
    /\ UNCHANGED <<conn, queues, cooldown, send, lists, iter>>

\* then the connections already taken from the heap, in turns
SendActive ==
    /\ pc = "send" /\ outHeap = {} /\ PrqNext = {} /\ iter.active # <<>>
    /\ LET c == IF iter.next = None THEN Head(iter.active) ELSE iter.next
           i == IndexIn(iter.active, c)
           next == IF i < Len(iter.active) THEN iter.active[i + 1] ELSE None
       IN  Offer(c, [State EXCEPT !.iter.prq = FALSE, !.iter.next = next])
    /\ UNCHANGED <<queues, cooldown, send>>

SendNoMore ==
    /\ pc = "send" /\ outHeap = {} /\ PrqNext = {} /\ iter.active = <<>>
    /\ EndFor
    /\ UNCHANGED <<conn, queues, cooldown, prq, send, lists, iter>>
-----------------------------------------------------------------------------
\* send_batch()

\* Mutant: an evanescent connection that is done is not subtracted.
SentUncounted(s, e) == IF e.from \in Reqs THEN s ELSE [s EXCEPT !.conn[e.from].gone = Last(e.packets)]

\* ci_packet_sent() of every packet of a datagram; an evanescent connection is
\* gone then
Sent(s, e) ==
    IF e.from \in Reqs THEN [s EXCEPT !.prq.nconns = @ - 1]
    ELSE IF s.conn[e.from].made = Last(e.packets) THEN [s EXCEPT !.conn[e.from].made = 0, !.conn[e.from].gone = 0]
    ELSE [s EXCEPT !.conn[e.from].gone = Last(e.packets)]

\* Mutants: the packets are put behind those not taken; an inactive connection
\* stays inactive.
NotSentBehind(e, s) ==
    IF e.from \in Reqs THEN [s EXCEPT !.prq.returned = <<e.from>> \o @]
    ELSE LET r == [s EXCEPT !.conn[e.from].unsent = @ \o e.packets]
         IN  IF Has(s.conn, e.from, "COI_ACTIVE") THEN r ELSE Reactivate(r, e.from)
NotSentInactive(e, s) ==
    IF e.from \in Reqs THEN [s EXCEPT !.prq.returned = <<e.from>> \o @]
    ELSE [s EXCEPT !.conn[e.from].unsent = e.packets \o @]

\* ci_packet_not_sent(), last packet first, and the connection is active again
NotSent(e, s) ==
    IF e.from \in Reqs
    THEN IF e.from \in s.prq.drop THEN [s EXCEPT !.prq.nconns = @ - 1, !.prq.drop = @ \ {e.from}]
                                  ELSE [s EXCEPT !.prq.returned = <<e.from>> \o @]
    ELSE LET r == [s EXCEPT !.conn[e.from].unsent = e.packets \o @]
         IN  IF Has(s.conn, e.from, "COI_ACTIVE") THEN r ELSE Reactivate(r, e.from)

CloseOnSendError(s, e) ==
    IF e.from \in Reqs THEN [s EXCEPT !.prq.drop = @ \cup {e.from}]
                       ELSE CloseImmediately(s, e.from)

\* Mutant: the size grows without a limit.
AfterBatchUncapped(snd, w, blocked, blame) ==
    LET short == w < Len(batch.out)
    IN  /\ pc' = IF short \/ ~batch.full THEN "reheap" ELSE "send"
        /\ batch' = [NoBatch EXCEPT !.sent = batch.sent + 1, !.shrink = short, !.blame = blame]
        /\ send' = IF blocked THEN [snd EXCEPT !.can = FALSE]
                   ELSE IF short \/ ~batch.full THEN snd ELSE [snd EXCEPT !.size = 2 * @]

\* Where the loop goes after a batch of which w datagrams count as sent
AfterBatch(snd, w, blocked, blame) ==
    LET short == IF batch.full THEN w < send.size ELSE w < Len(batch.out)
        more == [NoBatch EXCEPT !.sent = batch.sent + 1]
    IN  \/ /\ batch.full /\ ~short
           /\ pc' = "send" /\ batch' = more
           /\ send' = [snd EXCEPT !.size = IF 2 * @ > MaxBatch THEN MaxBatch ELSE 2 * @]
        \/ /\ batch.full /\ ~short /\ "deadline" \in Faults
           /\ pc' = "reheap" /\ batch' = more /\ send' = snd
        \/ /\ ~batch.full \/ short
           /\ pc' = "reheap" /\ batch' = [more EXCEPT !.shrink = short, !.blame = blame]
           /\ send' = IF blocked THEN [snd EXCEPT !.can = FALSE] ELSE snd

\* One call of packets_out(), which sends k datagrams of those from skip on.
\* When the next one is too large for the path and its connection can deal with
\* that, the rest is sent by another call; otherwise its connection is closed.
\* The connection closed for another error is looked up without skip.
PacketsOutOutcome(k, err) ==
    LET out == batch.out
        at == batch.skip + k + 1
        all == LET s == IF err = "fatal" THEN CloseOnSendError(State, out[k + 1]) ELSE State
               IN  FoldLeft(Sent, s, SubSeq(out, batch.skip + 1, batch.skip + k))
        probe == /\ err = "msgsize" /\ Len(out[at].packets) = 1
                 /\ out[at].from \in Conns /\ ~Has(conn, out[at].from, "MINI")
        big == CASE probe -> Sent(all, out[at])
                 [] err = "msgsize" /\ ~probe -> CloseOnSendError(all, out[at])
                 [] OTHER -> all
        snd == FoldLeft(LAMBDA s, e : IF e.from \in Reqs THEN s ELSE SentLast(s, e.from),
                        send, SubSeq(out, batch.skip + 1, batch.skip + k))
    IN  IF probe /\ at < Len(out)
        THEN /\ Becomes(big) /\ batch' = [batch EXCEPT !.skip = at]
             /\ send' = snd /\ UNCHANGED pc
        ELSE /\ Becomes(FoldRight(NotSent, SubSeq(out, IF probe THEN at + 1 ELSE at, Len(out)), big))
             /\ AfterBatch(snd, IF probe THEN batch.skip + Len(out) ELSE batch.skip + k,
                           err \in {"again", "fatal"},
                           CASE err = "fatal" -> <<out[at].from, out[k + 1].from>>
                             [] err = "msgsize" /\ ~probe -> <<out[at].from, out[at].from>>
                             [] OTHER -> <<>>)

PacketsOut ==
    /\ pc = "out"
    /\ LET left == Len(batch.out) - batch.skip
       IN  \E k \in 0..left :
           \E err \in IF k = left THEN {None} ELSE Faults \cap {"again", "fatal", "msgsize"} :
               PacketsOutOutcome(k, err)
    /\ UNCHANGED <<tickable, outHeap, attq, nalloc, cooldown>>

\* Mutant: the connections of the inactive list keep their reference.
ReheapActiveOnly ==
    /\ pc = "reheap" /\ UNCHANGED send
    /\ LET keep == {c \in ToSet(iter.active) :
                        Refs(conn, c) # {"HAS_OUTGOING"} /\ ~Has(conn, c, "IMMED_CLOSE")}
           f == [c \in Conns |-> [conn[c] EXCEPT !.flags = @ \ {"COI_ACTIVE", "COI_INACTIVE"}]]
       IN  /\ conn' = DecrefAll(f, ToSet(iter.active) \ keep, "HAS_OUTGOING")
           /\ outHeap' = outHeap \cup keep
    /\ pc' = "closed" /\ iter' = NoIter /\ batch' = NoBatch
    /\ UNCHANGED <<tickable, attq, nalloc, cooldown, prq, lists>>

\* The end of send_packets_out(): the batch size follows success, and
\* coi_reheap() puts back the connections that have more to send.  Those only
\* referenced from here, or closed for an error, are not put back.
Reheap ==
    /\ pc = "reheap"
    /\ \E past \in BOOLEAN :
        /\ past => "deadline" \in Faults
        /\ send' = [send EXCEPT !.size =
                IF batch.shrink THEN IF @ \div 2 < MinBatch THEN MinBatch ELSE @ \div 2
                ELSE IF batch.sent > 1 /\ ~past THEN IF 2 * @ > MaxBatch THEN MaxBatch ELSE 2 * @
                ELSE @]
    /\ LET both == ToSet(iter.active) \cup ToSet(iter.inactive)
           keep == {c \in ToSet(iter.active) :
                        Refs(conn, c) # {"HAS_OUTGOING"} /\ ~Has(conn, c, "IMMED_CLOSE")}
           f == [c \in Conns |-> [conn[c] EXCEPT !.flags = @ \ {"COI_ACTIVE", "COI_INACTIVE"}]]
       IN  /\ conn' = DecrefAll(f, both \ keep, "HAS_OUTGOING")
           /\ outHeap' = outHeap \cup keep
    /\ pc' = "closed" /\ iter' = NoIter /\ batch' = NoBatch
    /\ UNCHANGED <<tickable, attq, nalloc, cooldown, prq, lists>>
-----------------------------------------------------------------------------
\* The two loops at the end of process_connections()

ClosedLoop ==
    /\ pc = "closed"
    /\ conn' = DecrefAll(conn, ToSet(lists.closed), "CLOSING")
    /\ lists' = [lists EXCEPT !.closed = <<>>]
    /\ pc' = IF lists.ticked = <<>> THEN "idle" ELSE "ticked"
    /\ UNCHANGED <<queues, cooldown, prq, send, iter, batch>>

\* A ticked connection that is tickable again is put back; else it waits for
\* its next time: es_idle_timeout is not 0, so that there is one.
Requeue(f, c) ==
    \/ /\ ~Has(f, c, "TICKABLE")
       /\ conn' = Incref(f, c, "TICKABLE") /\ tickable' = tickable \cup {c}
       /\ UNCHANGED attq
    \/ /\ conn' = Incref(f, c, "ATTQ") /\ attq' = attq \cup {c}
       /\ UNCHANGED tickable

TickedLoop ==
    /\ pc = "ticked"
    /\ Requeue(Decref(conn, Head(lists.ticked), "TICKED"), Head(lists.ticked))
    /\ lists' = [lists EXCEPT !.ticked = Tail(@)]
    /\ pc' = IF Len(lists.ticked) = 1 THEN "idle" ELSE "ticked"
    /\ UNCHANGED <<outHeap, nalloc, cooldown, prq, send, iter, batch>>

\* lsquic_engine_destroy()
Destroy ==
    /\ Idle
    /\ conn' = DecrefAll(DecrefAll(DecrefAll(DecrefAll(conn, outHeap, "HAS_OUTGOING"), tickable, "TICKABLE"),
                        {c \in Conns : Has(conn, c, "HASHED")}, "HASHED"), attq, "ATTQ")
    /\ tickable' = {} /\ outHeap' = {} /\ attq' = {} /\ nalloc' = 0
    /\ prq' = [pending |-> {}, returned |-> <<>>, drop |-> {}, nconns |-> 0]
    /\ pc' = "destroyed"
    /\ UNCHANGED <<cooldown, send, lists, iter, batch>>
-----------------------------------------------------------------------------
Step == \/ TickTickable \/ TickDestroyed \/ TickNoMore \/ SendHeap \/ SendRequest \/ SendActive
        \/ SendNoMore \/ PacketsOut \/ Reheap \/ ClosedLoop \/ TickedLoop

Next ==
    \/ \E c \in Conns : NewMini(c) \/ Connect(c) \/ PacketIn(c) \/ UserWork(c) \/ AddToAttq(c)
    \/ \E r \in Reqs : NewReq(r)
    \/ Cooldown \/ ProcessConns \/ SendUnsentPackets \/ Destroy
    \/ Step

Spec == Init /\ [][Next]_vars

\* The application calls process_conns() when earliest_adv_tick() asks for it,
\* as there are tickable connections or an advisory time has come, and
\* send_unsent_packets() when has_unsent_packets() says there are some.
\* packets_out() does not fail forever.
Fairness ==
    /\ WF_vars(Step)
    /\ SF_vars(tickable # {} /\ ProcessConns)
    /\ \A c \in Conns : SF_vars(c \in attq /\ \E failsafe \in BOOLEAN : ProcessConnsAt({c}, failsafe))
    /\ SF_vars(HasUnsentPackets /\ SendUnsentPackets)
    /\ SF_vars(pc = "out" /\ PacketsOutOutcome(Len(batch.out) - batch.skip, None)
               /\ UNCHANGED <<tickable, outHeap, attq, nalloc, cooldown>>)
LiveSpec == Spec /\ Fairness
-----------------------------------------------------------------------------
\* Every variable has values of its kind, and no heap is asked to hold more
\* connections than maybe_grow_conn_heaps() made room for.
TypeOK ==
    /\ \A c \in Conns : conn[c].flags \subseteq AllFlags /\ conn[c].gone <= conn[c].made
    /\ tickable \cup outHeap \cup attq \subseteq Conns
    /\ send.size \in MinBatch..MaxBatch /\ Len(batch.out) <= send.size /\ Packed <= MaxIov
    /\ pc \in {"idle", "tick", "send", "out", "reheap", "closed", "ticked", "destroyed"}
    /\ pc # "destroyed" => Cardinality(Live(conn)) <= nalloc

In(s) == {s[i] : i \in DOMAIN s}
Once(s) == Len(s) = Cardinality(In(s))

\* The reference flags of a connection say exactly which queues it is in, each
\* once: a queue never holds a connection that was destroyed, and a connection
\* without a reference does not exist (engine_decref_conn(), and assert(0 ==
\* engine->n_conns) of lsquic_engine_destroy()).  The connection that coi_next()
\* saved for its next call is still on the active list.
RefsAgree ==
    LET with(flag) == {c \in Conns : Has(conn, c, flag)}
    IN  /\ with("TICKABLE") = tickable /\ with("ATTQ") = attq
        /\ with("HAS_OUTGOING") = outHeap \cup In(iter.active) \cup In(iter.inactive)
        /\ outHeap \cap In(iter.active \o iter.inactive) = {}
        /\ Once(iter.active \o iter.inactive)
        /\ with("COI_ACTIVE") = In(iter.active) /\ with("COI_INACTIVE") = In(iter.inactive)
        /\ with("CLOSING") = In(lists.closed) /\ with("TICKED") = In(lists.ticked)
        /\ Once(lists.closed \o lists.ticked)
        /\ iter.next \in In(iter.active) \cup {None}
        /\ \A c \in Live(conn) : Refs(conn, c) # {}
        /\ pc = "destroyed" => Live(conn) = {}

\* Packets of a connection leave the engine in the order they were made, and
\* each exactly once: those handed to packets_out(), those in the batch and
\* those the connection holds are consecutive (ci_packet_sent(),
\* ci_packet_not_sent() in reverse order, ci_packet_too_large()).
PacketsOnce ==
    \A c \in Live(conn) :
        LET mine == SelectSeq(SubSeq(batch.out, batch.skip + 1, Len(batch.out)), LAMBDA e : e.from = c)
            held == FoldLeft(LAMBDA s, e : s \o e.packets, <<>>, mine) \o conn[c].unsent
        IN  held = [i \in 1..conn[c].made - conn[c].gone |-> conn[c].gone + i]

\* Between calls every connection that can be found will be ticked again, now or
\* at its advisory time, and if it has packets to send it is on the outgoing
\* queue, so that lsquic_engine_has_unsent_packets() knows of it.
NothingStranded ==
    Idle => \A c \in Conns : Has(conn, c, "HASHED") =>
        /\ {"TICKABLE", "ATTQ"} \cap conn[c].flags # {}
        /\ conn[c].unsent # <<>> => Has(conn, c, "HAS_OUTGOING")

\* Evanescent connections are counted: those waiting to be sent again and those
\* in the batch; there are never more than prq_max_conns.
EvanescentCounted ==
    /\ prq.nconns = Len(prq.returned) +
          Len(SelectSeq(SubSeq(batch.out, batch.skip + 1, Len(batch.out)), LAMBDA e : e.from \in Reqs))
    /\ prq.nconns <= MaxEvConns

\* When packets_out() fails for good, the connection that is closed is the one
\* whose packet it failed for (include/lsquic.h, ea_packets_out).
CulpritClosed == batch.blame # <<>> => batch.blame[1] = batch.blame[2]

\* A tickable connection is ticked (or destroyed): no other connection keeps it
\* from its turn.
TickableTicked == \A c \in Conns : c \in tickable ~> c \notin tickable

\* A connection that was closed is destroyed: the references that keep it alive
\* are dropped in the end.
ClosedDestroyed == \A c \in Conns : conn[c] # Free /\ ~Has(conn, c, "HASHED") ~> conn[c] = Free
=============================================================================
