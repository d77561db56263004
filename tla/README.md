# A verification of quic-art in TLA+

quic-art is a fork of the LiteSpeed QUIC library (lsquic) with *Adaptive
ReTransmission* (ART): a lost STREAM packet is resent in several duplicates,
whose number follows the measured loss rate of earlier duplicates.  This
directory holds TLA+ models of its transport core, TLC configurations that check
them on small instances, and proofs checked by TLAPS.  Paths below are relative to
`src/`; unless another directory is given, files are in `src/liblsquic/`.

## 1. The system

### Parts, state, operations

| Part | State | Operations that change it | What makes it hard |
|---|---|---|---|
| Send controller (`lsquic_send_ctl.c`) | queues of packets (buffered, scheduled, unacked per packet number space, lost), loss chains, packet number counter, in-flight counters, retransmission state, poison | ACK, loss detection, alarms, scheduling, renumbering, sending, delaying, eliding, emptying a space | one packet is on the books several times; queue walks that destroy what they walk over; lazy renumbering; callbacks |
| ART (`lsquic_art_feedback.c`, parts of the send controller) | feedback window, rounds map, per-packet round state | record a fate, start a round, send a duplicate | duplicates count as in flight; a second state machine inside loss detection |
| Outgoing packets (`lsquic_packet_out.c`) | flags, number, frames, ciphertext | allocate, elide, split | a packet may be renumbered after it was encrypted |
| IETF connection (`lsquic_full_conn_ietf.c`) | connection flags, CIDs, paths, alarms | the tick, incoming packets, close, abort, handshake events | everything is called back from everything |
| Engine (`lsquic_engine.c`) | connection queues, outgoing heap, batch | process connections, send batch, return unsent packets | partial sends, restarts, deadlines |
| Streams (`lsquic_stream.c`) | offsets, flags, queues of the connection a stream is on | read, write, flush, reset, stop, shutdown | user callbacks inside the tick |
| Flow control (`lsquic_sfcw.c`, `lsquic_cfcw.c`) | offsets and windows | receive, read, advertise | two levels that must agree |
| Data-in (`lsquic_di_*.c`) | received frames or a block map | insert, read, switch implementation | overlaps, duplicates, limits |
| Receive history (`lsquic_rechist.c`, `lsquic_trechist.c`) | ranges of numbers | receive, cutoff, iterate | a linked list in an array |
| Alarms (`lsquic_alarmset.c`) | expiry times, set bits | set, unset, ring | alarms set while ringing |
| Connection queues (`lsquic_attq.c`, `lsquic_pr_queue.c`, `lsquic_purga.c`, `lsquic_min_heap.c`) | heaps and hashes | add, remove, pop | stale membership flags |
| Congestion control, pacer (`lsquic_bbr.c`, `lsquic_cubic.c`, `lsquic_adaptive_cc.c`, `lsquic_pacer.c`, `lsquic_bw_sampler.c`) | windows, phases, samples | on send, ACK, loss | time, numeric edges |
| Mini connections, handshake, encryption sessions | packet sets, keys, key phase | promotion, key update | hand-over between two connection objects |
| Parsing (`lsquic_parse_*.c`, `lsquic_varint.c`, `lsquic_trans_params.c`) | none | conversions | boundaries |

`PROJECT.json` lists every part with its status, and the hazards at the lines
where they bite.

### How the parts interact

The engine calls the tick of a connection.  The tick rings due alarms, reads
streams, then fills the scheduled queue: delayed packets are *squeezed* (those
with only an ACK are dropped, ciphertext is thrown away), an ACK is generated
(put to the front, with all others marked for renumbering, if packets are
delayed), control frames, lost packets and stream data follow.  The engine then
takes packets one by one (`lsquic_send_ctl_next_packet_to_send()`), encrypts them,
and hands them to the user in batches; what the user cannot send goes back to the
head of the queue.  Incoming ACKs are processed between ticks.

A packet that is declared lost leaves a *loss record* in its place on the unacked
queue, and moves to the lost queue; when it is scheduled again it gets a new
number.  All records of a packet and the packet form its *loss chain*; an ACK of
any of them settles all.  ART marks a lost STREAM packet as being in a *round*:
every 30 microseconds an alarm "loses" it again, on purpose, until as many
duplicates are out as the round needs.  The records these leave are *fake* loss
records, and are still counted as in flight.

## 2. Modules

| Module | Models | Notes |
|---|---|---|
| `PacketLife` | what the send controller promises about a packet | abstract specification |
| `PacketQueues` | state and shared primitives of the send controller | no behaviour of its own |
| `SendCtl` | handlers of the send controller, the tick, the batch of one connection | |
| `SendCtlLife` | the refinement mapping from `SendCtl` to `PacketLife` | |
| `Buffered` | packets that streams write between two ticks, and how a tick schedules them | |
| `ArtFeedback` | feedback window and rounds map | |
| `Engine` | connection queues and references, ticks, batches across connections, packet requests | |
| `FlowCtl` | receive windows of streams and connection | abstract for `StreamIn` |
| `DataIn` | the two buffers for incoming stream data | operators, no variables |
| `StreamIn` | receiving side of streams, with `FlowCtl` and `DataIn` | implements `FlowCtl` |
| `RecHist` | history of received packets, mini to full connection | |
| `PacketLife_proofs`, `ArtFeedback_proofs`, `FlowCtl_proofs` | theorems | TLAPS |
| `MCSendPair`, `MCSendCtl`, `MCEngine`, `MCParts` | instances for TLC | |

### PacketQueues and SendCtl

`po[p]` holds the fields of a packet object: `kind` abstracts `po_frame_types` to
what handlers tell apart (STREAM, ACK, both, other retransmittable frames, CRYPTO
of the handshake, MTU probe); `flags` are `PO_SCHED`, `PO_UNACKED` and `PO_LOST`;
`repack` is `PO_REPACKNO`; `enc` is the number the packet is encrypted under;
`fake`, `dup` and `need` are `po_fake_loss_rec`, `po_retrans_packet_number` and
`po_need_retrans_number`.  `unacked` maps packet numbers to entries: the packet,
a loss record of it, or the poison.  Because packets are sent in the order of
their numbers, the order of the queue is the order of the numbers; that they are
sent in this order is checked (`NumbersConsecutive`), not assumed.

A handler that does not loop over a queue is one action.  The four handlers that
walk the unacked queue (`lsquic_send_ctl_got_ack()`, `send_ctl_detect_losses()`,
`send_ctl_expire()`, `art_schedule()`) and the tick are sequences of actions: `pc`
says which handler runs and `loop.at` is its saved pointer, and nothing else is
enabled meanwhile, except what the code lets happen: stream resets from callbacks
inside the tick.

Abstractions: time (an armed alarm may ring whenever the connection is idle, a
duplicate may fall due or not, the engine may be past its deadline), sizes (all
packets are of one size, so the byte counters are proportional to the packet
counters), the congestion window (a constant), the pacer (it may refuse, unless
nothing is in flight), which streams a packet carries (one per packet).  An ACK
acknowledges any set of outstanding numbers.  Alarms ring from the idle state and
not only at the head of a tick; this allows more interleavings than the code.
Counters are taken modulo `Modulus`, the model's 2^32.

### PacketLife and ArtFeedback

A packet of `PacketLife` is free, queued, flying or lost.  `chain[p]` are the
numbers of its transmissions that are on record, `counted` those that are in
flight, `inflight` the counter.  In `SendCtlLife` the packets of the engine's batch
count as queued, and one handler step of `SendCtl` is one step or a stutter of
`PacketLife`.

In `ArtFeedback`, `window`, `size`, `rounds` are `sc_feedback_window`,
`sc_feedback_window_size` and `sc_rounds_map`; fates of replicas come in any order.
`SendCtl` takes the number of duplicates from the set `Needs`: `FeedbackSound` shows
that the values it assumes positive are.

### Buffered

`buf.q` are the two queues `sc_buffered_packets`, with their `count`s; a packet is its ACK
(the largest number it acknowledges, and `po_ack2ed`), its STREAM frames, `PO_STREAM_END`
and the length of the number there is room for.  `slack` says that an ACK is due, `largest`
is `sc_largest_acked`, and `cached` the answer that `send_ctl_lookup_bpt()` keeps.  `sm[s]`
is the writing side of a stream: its priority, offset, FIN and reset.  Writes, vectored writes
that fall short and are rolled back, FIN, reset, changes of priority and the tick are
actions; a tick takes both queues as far as `can` packets go, drops ACKs that are out
of order, and splits packets whose number has become too long for them.

Sizes are units: an ACK, the header of a STREAM frame and a byte of data take one each, a
number takes one or two, so that a full packet has to be split when its number grows.  What
the congestion window allows, whether an ACK may be written and how long a number has
to be are chosen.  A write is a write and its flush: the stream's own buffer for small
writes is left out, as are the flush of the QPACK decoder and HTTP/3 framing.

`out`, `ackOut`, `late`, `empty`, `stolen` and `splits` record history; `splits`, `stolen`
and `dead` name three departures of the code, which the properties except and which nothing
else may cause:

* `split_buffered_packet()` increments the count of the queue for the packet it removes
  (line 3458 of `lsquic_send_ctl.c`).  `BufferedCounted` has the count two too high for
  each split (`splits`).
* `send_ctl_move_ack()` does not copy `po_ack2ed`.  The ACK that it moved (`stolen`) is
  taken for outdated when it is scheduled, and dropped, though no newer one exists and
  none is due.  The packet it was taken from may be scheduled empty.
* `lsquic_send_ctl_rollback()` looks for the packet in the first queue only if the count
  of that queue grew.  A vectored write that only added to its last packet and falls short
  aborts the connection (`dead` is "tail"), although `docs/apiref.rst` allows the
  callback to write fewer bytes.

A tick does not write the longer number length into a buffered packet that has room for
it: such a packet keeps its short number.  The model says nothing about this, as
it has no values of packet numbers.

### Engine

A connection is its flags and its packets: `made` and `gone` count those it has
made and those that left, `unsent` are those it holds.  `tickable`, `outHeap` and
`attq` are the three queues; `lists` are the closed, ticked and new full connections
of the running call, `iter` is `conns_out_iter`, `batch` is the batch being collected
or sent.  A call into the engine is a sequence of steps: `pc` is "idle" between
calls, "tick", "send", "out", "reheap", "closed" and "ticked" within one.  The user
may act between calls only, as the engine is not reentrant.

What a connection answers (its tick status, whether it is tickable, its next tick
time) is chosen; so are which advisory times have come, which tickable connection is
first, and what `packets_out()` returns: all, a part with EAGAIN, with another error,
or with EMSGSIZE for a datagram, which is skipped or ends its connection.  The order of
the outgoing heap is kept (`send.order`), because the iterator depends on it.
Evanescent connections are requests of `prq`; their one packet is in the batch or
they wait on `prq.returned`.

Two faults of the code's error paths are in `AllFaults` and in no run: "coalesced"
(a packet that cannot be encrypted while it is added to a datagram: it is dropped and
never given back, so `PacketsOnce` fails) and "dropped" (a mini connection dropped in
cooldown while it has packets to send: the loop over ticked connections then uses a
connection that its own dereference has just destroyed).  They are kept so that
the two can be looked at; no run is spent on them.

### FlowCtl, DataIn, StreamIn

`sf[s]` and `cf` are the windows `lsquic_sfcw` and `lsquic_cfcw`.  Offsets are
numbers; unsigned differences are written out where they may pass below zero
(`Slides`).  Whether a window that moves also grows depends on time and is chosen.

`DataIn` has the list of frames with its cases A to O and Z, the efficiency alerts that
count holes, far insertions and tiny frames, the block map, and the move of all frames
from one to the other.  A byte is its offset.  `StreamIn` puts them together: a STREAM
frame is checked against the final size, charged to the windows and inserted; a read
takes frames until the room is used up, and marks the stream's or the connection's
window for an update; the tick sends MAX_DATA and MAX_STREAM_DATA; RESET_STREAM,
STOP_SENDING, shutdown, discarding reads and the end of a stream follow the code.  The
peer is honest (it stays within limits it was given and has one final size) and the
network repeats, reorders and cuts its frames.

Three things an honest peer may cause are excluded by name (`StEvents`): "late" (a
STREAM frame that arrives after the reset: `data_in_error` refuses it and the connection
is aborted, so `HonestAccepted` fails), "unsentwuf" (a stream reset through STOP_SENDING
forgets a window update that is due, so `WindowsReopen` fails) and "empty" (a frame of no
bytes at a block boundary).  The final size is not a multiple of the block size in any
instance: such a FIN may be refused by the block map.

### RecHist

`phase` is the representation in use: a bit mask, the small list of
`lsquic_trechist.c`, the list of `lsquic_rechist.c`.  Both lists are arrays of slots
with a bit mask of those in use; the operators walk them as the code does.  `seen` is
what the history is meant to hold, with the ranges it gave up at its limit taken out.
The peer acknowledges an ACK only if its own packet number is above what it
acknowledges.

## 3. Runs

Each passing run finishes in about two minutes or less on two workers.

| Run | Instance | Shows |
|---|---|---|
| `parts` | seven parts side by side, one chosen by `Init`; 260,000 states | see below |
| `send_ctl_rounds` | two scenarios: two packets in rounds of two duplicates; three packets with delayed sends, ACKs to the front, resets, poison | queue walks survive, rounds end, renumbering leaves no hole, packets leave under the number they are encrypted with, `PacketLife` is implemented |
| `send_ctl_spaces` | two scenarios: two number spaces, one of which is dropped; sends without a tick, resets in the tick, close and abort; 819,000 states | chains, counts, flags and alarms |
| `engine` | two connections, one request, batches of up to two datagrams of up to three packets, all faults but the two above; 457,000 states | references, batches, heaps |
| `engine_live` | two connections, batches of one, EAGAIN | tickable connections are ticked, closed ones destroyed |

The parts of `parts`: *art* (two packets, three rounds, a window of four), *life* (three
packets, four numbers), *stream* (one stream of five bytes, blocks of three, so that a
block ends within it, frames of up to two bytes, reads of up to three), *two* (two short
streams sharing a window smaller than their sum), *recv* (numbers to 6, bit mask to 2,
small list of 3 ranges, array of 2 slots that is doubled, limit of 3 ranges: every branch
of both lists is taken, growth, merging and eviction included), *acks* (two streams of one
unit each, two packets received, queues of two: ACKs in both queues, stolen, outdated and
dropped, resets, FINs that wait for a packet) and *buf* (one stream of four units and one of
one, packets of five units: writes over several packets, rollbacks into the last and into
earlier packets, splits of the packets that are left).  Redundancies are cut at
six, beyond the window, where the growth rule starts to matter.

The bounds of the send controller: two packets are enough for one chain to disturb
another, three for a packet between two others in the scheduled queue; five numbers let
a packet be lost, sent again, lost in a round, and acknowledged through an old record.
Three numbers with three packets are enough to renumber three scheduled packets, or to
send one again after its loss, but not both; longer histories of retransmission are left
to the scenarios with two packets.  Wider instances were checked once without an error
and are too slow to keep: rounds of 1 and of 2 duplicates together (571,322 states), two
spaces with control packets as well (1,283,328), stream packets and probes in one
space (248,818).

The bounds of the engine: two connections are the least for which one's failure may be
charged to the other; batches of two datagrams have a first and a last, and three packets
fill the vector before the batch is full.  A batch may shrink to one and grow again.

Each run turns on the events its question is about, since all of them together are out
of reach.  Model values of packets and of connections are symmetric in the runs without
liveness: no definition chooses among them except by position in a queue.  Deadlock is
not checked: a closed connection, a destroyed engine and an instance that has used up its
numbers stop.

### Fairness

`engine_live` assumes:

* weak fairness of `Step`: a call into the engine runs to its end;
* strong fairness of `process_conns()` while a connection is tickable or has an advisory
  time, and of `send_unsent_packets()` while there are unsent packets: this is the
  application's event loop as `docs/tutorial.rst` and `include/lsquic.h` ask for it,
  driven by `lsquic_engine_earliest_adv_tick()` and
  `lsquic_engine_has_unsent_packets()`.  It has to be strong because other calls may come
  in between and change the condition;
* strong fairness of a successful `packets_out()`: the socket does not refuse forever.

No fairness is assumed of the peer or of the user.

### Statements that the code violates

Seven runs find a statement of the repository violated by its code (`findings` in
`PROJECT.json` has the quotations):

* `elided_duplicate`: an ART packet dropped from the lost queue is taken off the
  in-flight count once too often; an assertion on the count then fails.
* `sanity_check`: the sanity check does not know about fake loss records.
* `reset_in_tick`: the rule that numbers leave without gaps is broken by a stream
  that is reset inside the tick.
* `stale_ciphertext`: a delayed packet that is renumbered and sent without a tick
  leaves with the number it was first encrypted under.
* `second_turn`: the duplicate counter is not reset when a second turn begins.
* `engine_blame`: after a batch is restarted behind a datagram that is too large, a
  failure closes a connection whose packet did not fail.
* `early_eof`: the block map reports the end of a stream in the middle of it.

`InFlightAccounting` is stated with the error of the first of these: the count is
too small by the number of such drops (`elided`), and by nothing else.

The statements of `engine` are conjunctions: `TypeOK` includes that the heaps have room,
`RefsAgree` that the connection the iterator saved is on its list, `NothingStranded` that
every connection will be ticked again and that one with packets is on the outgoing
queue.

## 4. Proofs

`PacketLife_proofs`, for any set of packets and any bound on numbers.  The
invariants are not inductive one by one: that a counter is exact after `Settle`
needs that the settled transmissions are counted once, hence that chains are
disjoint; that they stay disjoint after `Send` needs that all numbers on record
are at most `last`.  The inductive invariant `IInv` is the conjunction of the type
invariant, the three state invariants and this bound (`BelowLast`).  One lemma per
action splits the cardinalities.  `LifeSafety` and `LifeNumbersFresh` are the
statements that `parts` checks.

`ArtFeedback_proofs`, for any number of packets, rounds and any window: the
inductive invariant says that the window counter is the length, that redundancies
are positive, and what the thresholds say about the last move of a redundancy while
the window is unchanged.  The dead band between "raise" and "lower" is arithmetic on
the cross-multiplied thresholds.

`FlowCtl_proofs`, for any set of streams and any windows of at least two bytes
(`FlowAssumption`; the engine refuses settings below `LSQUIC_MIN_FCW`, and a window of
one byte would never be reopened): nothing is accepted beyond what was announced, no
announced limit is taken back, every step charges and credits the connection what it
charges and credits one stream.  The inductive invariant orders read <= received <=
announced for every window and keeps every window at least two wide, which is what makes
a window that slides move up.  Since `StreamIn` implements `FlowCtl` (checked by
`parts`), this is what streams do, whatever their buffers do.

Only model-checked: everything about `SendCtl`, `Buffered`, `Engine`, `DataIn`, `StreamIn`
and `RecHist`; the two refinements (`FirstImplementsPacketLife`, `StreamsImplementFlowCtl`);
the liveness of the engine, as fairness is out of the prover's reach; and the loop that
reads frames (`ReadFrames`), which is a recursive operator.

## 5. Not modelled

`PROJECT.json` lists every component with its status.

* Of the send controller: resizing on a change of MTU, the 0-RTT stash, retry, repathing,
  ECN and the byte counters.  `SendCtl` and `Buffered` are not composed: in `SendCtl` the
  tick schedules a stream packet where `Buffered` has one ready.
* The writing side of streams beyond `Buffered`, HTTP/3 and QPACK; connection IDs, path validation and
  stream limits of the connection; the gQUIC connection.
* Congestion control and the pacer: their state is times and rates, and `SendCtl` lets
  the window be any constant and the pacer refuse at any time.
* Handshake and cryptography, beyond the number a packet is encrypted under.
* Byte-level parsing, logging, bundled third-party code and the example programs.
* Running out of memory.

The map covers about 8,100 lines of the library.  Of the 380,000 lines of C in the
repository 272,000 are two generated tables of Huffman codes (`huff-tables.h`), which have
no behaviour to model; the rest includes tests, programs and the conversions above.
