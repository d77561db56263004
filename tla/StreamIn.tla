------------------------------ MODULE StreamIn ------------------------------
(***************************************************************************)
(* The receiving side of the streams of an IETF connection: STREAM,        *)
(* RESET_STREAM and STOP_SENDING frames come in, the application reads or  *)
(* gives up, and the windows are reopened.  The peer keeps the protocol,   *)
(* the network does not: any frame within the limits the peer was given    *)
(* may arrive at any time, again, or cut differently.                      *)
(***************************************************************************)
EXTENDS FlowCtl, DataIn

CONSTANTS Final,      \* bytes the peer has for a stream
          MaxFrame,   \* bound of the model on the size of a frame
          MaxRead,    \* bound of the model on the room for a read
          StEvents    \* what else the run lets happen

ASSUME StreamAssumption ==
    /\ BlockSize \in Nat \ {0} /\ EffTiny \in Nat \ {0}
    /\ \A s \in Streams : Final[s] \in 0 .. MaxOff
    /\ StEvents \subseteq {"empty", "late", "unsentwuf", "rst", "stop", "shutdown",
                           "poll", "blocked"}

VARIABLES st,        \* the streams
          last,      \* sm_last_recv_off
          maxData,   \* ifc_last_max_data_off_sent and SF_SEND_MAX_DATA
          aborted,   \* the connection is aborted
          got,       \* history: bytes given to a stream
          sent,      \* history: highest offset the peer has used
          final      \* history: final size of a stream

history == <<got, sent, final>>
stVars == <<fcVars, st, last, maxData, aborted, history>>

NewStream ==
    [di |-> NocopyNew, off |-> 0, finRecvd |-> FALSE, eof |-> FALSE, rst |-> FALSE,
     readDone |-> FALSE, waitFin |-> FALSE, ssRecvd |-> FALSE, wuf |-> FALSE,
     cache |-> "none", gone |-> FALSE]

StInit ==
    /\ FcInit
    /\ st = [s \in Streams |-> NewStream]
    /\ last = [s \in Streams |-> 0]
    /\ maxData = [off |-> 0, send |-> FALSE]
    /\ aborted = FALSE
    /\ got = [s \in Streams |-> {}]
    /\ sent = [s \in Streams |-> 0]
    /\ final = Final

Total(f) == FoldFunction(LAMBDA x, sum : x + sum, 0, f)

\* What the peer was told last, in the transport parameters or since
StreamLimit(s) == IF last[s] = 0 THEN Sfcw ELSE last[s]
ConnLimit == IF maxData.off = 0 THEN Cfcw ELSE maxData.off

Highest(a, b) == IF a > b THEN a ELSE b

\* How far into a stream the peer may send
Room(s) ==
    Lesser(Lesser(final[s], StreamLimit(s)), sent[s] + ConnLimit - Total(sent))

\* Frames the peer may have sent.  A FIN may come in a frame of its own.
FramesOf(s) ==
    LET room == Room(s) IN
    {f \in [off : 0 .. room, size : 0 .. MaxFrame, fin : BOOLEAN] :
        /\ EndOf(f) <= room
        /\ f.fin => EndOf(f) = final[s]
        /\ f.size = 0 => f.fin \/ "empty" \in StEvents}

\* stream_readable_discard(), which is what reads after a shutdown
Discarded(x) ==
    LET r == ReadFrames(x.di, x.off, MaxOff) IN
    IF x.readDone /\ ~x.eof /\ ~x.rst THEN [x EXCEPT !.di = r.di, !.off = r.off] ELSE x

\* Mutant: a cached answer outlives the frame that changes it.
WithFrameCached(x, f, di) ==
    LET y == [x EXCEPT !.di = di, !.finRecvd = @ \/ f.fin,
                       !.waitFin = @ /\ ~f.fin]
    IN IF f.off = x.off THEN Discarded(y) ELSE y

\* The rest of lsquic_stream_frame_in() once a frame is in
WithFrame(x, f, di) ==
    LET y == [x EXCEPT !.di = di, !.finRecvd = @ \/ f.fin,
                       !.waitFin = @ /\ ~f.fin, !.cache = "none"]
    IN IF f.off = x.off THEN Discarded(y) ELSE y

\* Mutant: a window that moves while frames come in is not announced.
UpdatedWufRead(s, x) == x

\* SMQF_SEND_WUF is set when lsquic_sfcw_fc_offsets_changed() returns true
UpdatedWuf(s, x) == [x EXCEPT !.wuf = @ \/ sf'[s].recv # sf[s].recv]

\* process_stream_frame(), lsquic_stream_frame_in(): the frame goes into the
\* buffer first and is held against the windows then
FrameIn(s, f) ==
    LET x == st[s]
        ins == Insert(x.di, f, x.off)
    IN
    /\ ~aborted /\ ~x.gone
    /\ x.rst => "late" \in StEvents
    /\ sent' = [sent EXCEPT ![s] = Highest(@, EndOf(f))]
    /\ \/ /\ ins.res = "dup"
          /\ UNCHANGED <<fcVars, st, aborted, got>>
       \/ /\ ins.res = "err"
          /\ aborted' = TRUE
          /\ st' = [st EXCEPT ![s].di = ins.di]
          /\ UNCHANGED <<fcVars, got>>
       \/ /\ ins.res = "ok"
          /\ FcFrame(s, EndOf(f))
          /\ aborted' = refused'
          /\ st' = [st EXCEPT ![s] =
                       IF refused' THEN [x EXCEPT !.di = ins.di, !.cache = "none"]
                       ELSE UpdatedWuf(s, WithFrame(x, f, ins.di))]
          /\ got' = [got EXCEPT ![s] = @ \cup (f.off .. EndOf(f) - 1)]
    /\ UNCHANGED <<last, maxData, final>>

\* lsquic_stream_rst_in(), with a final size the peer may choose
RstIn(s, off) ==
    /\ "rst" \in StEvents
    /\ ~aborted /\ ~st[s].gone /\ ~st[s].rst
    /\ off \in sent[s] .. Room(s) /\ (st[s].finRecvd => off = final[s])
    /\ FcReset(s, off)
    /\ aborted' = refused'
    /\ st' = [st EXCEPT ![s].rst = TRUE,
                        ![s].di = IF refused' THEN @ ELSE ErrorDi,
                        ![s].cache = IF refused' THEN @ ELSE "none",
                        ![s].waitFin = @ /\ refused']
    /\ sent' = [sent EXCEPT ![s] = off]
    /\ final' = [final EXCEPT ![s] = off]
    /\ UNCHANGED <<last, maxData, got>>

\* lsquic_stream_stop_sending_in(): the peer reads no more, and it is what came
\* from the peer that is consumed.  If the stream has not finished writing it
\* is reset, and stream_reset() clears every pending frame of the stream.
StopSendingIn(s, reset) ==
    /\ "stop" \in StEvents
    /\ ~aborted /\ ~st[s].gone /\ ~st[s].ssRecvd
    /\ (reset /\ st[s].wuf) => "unsentwuf" \in StEvents
    /\ FcConsume(s)
    /\ st' = [st EXCEPT ![s].ssRecvd = TRUE, ![s].wuf = @ /\ ~reset]
    /\ UNCHANGED <<last, maxData, aborted, history>>

\* lsquic_stream_readf() with room for n bytes.  A stream that is reset, shut
\* down or at its end has nothing for the application.
Read(s, n) ==
    LET x == st[s]
        r == ReadFrames(x.di, x.off, n)
    IN
    /\ ~aborted /\ ~x.gone /\ ~x.rst /\ ~x.readDone /\ ~x.eof
    /\ ~GetFrame(x.di, x.off).none
    /\ FcRead(s, r.off)
    /\ st' = [st EXCEPT ![s] =
                 UpdatedWuf(s, [x EXCEPT !.di = r.di, !.off = r.off, !.eof = r.fin,
                                         !.cache = IF r.off = x.off THEN @ ELSE "none"])]
    /\ UNCHANGED <<last, maxData, aborted, history>>

\* stream_has_frame_at_read_offset(), before on_read() is called
Readable(s) ==
    LET x == st[s] IN
    /\ "poll" \in StEvents
    /\ ~aborted /\ ~x.gone /\ ~x.rst /\ ~x.readDone /\ ~x.eof /\ x.cache = "none"
    /\ st' = [st EXCEPT ![s].cache = IF GetFrame(x.di, x.off).none THEN "no" ELSE "yes"]
    /\ UNCHANGED <<fcVars, last, maxData, aborted, history>>

\* Mutant: the stream does not wait for its final offset.
ShutdownReadNow(s) ==
    /\ "shutdown" \in StEvents
    /\ ~aborted /\ ~st[s].gone /\ ~st[s].readDone
    /\ st' = [st EXCEPT ![s].readDone = TRUE]
    /\ UNCHANGED <<fcVars, last, maxData, aborted, history>>

\* stream_shutdown_read(): STOP_SENDING is sent while the end is not known
ShutdownRead(s) ==
    /\ "shutdown" \in StEvents
    /\ ~aborted /\ ~st[s].gone /\ ~st[s].readDone
    /\ st' = [st EXCEPT ![s].readDone = TRUE,
                        ![s].waitFin = ~st[s].eof /\ ~st[s].finRecvd /\ ~st[s].rst]
    /\ UNCHANGED <<fcVars, last, maxData, aborted, history>>

\* lsquic_stream_destroy(), once stream_is_finished(): what is not read is
\* consumed.  The writing side may be finished at any time.
Destroy(s) ==
    /\ ~aborted /\ ~st[s].gone /\ st[s].readDone /\ ~st[s].waitFin
    /\ FcConsume(s)
    /\ st' = [st EXCEPT ![s] = [NewStream EXCEPT !.di = ErrorDi, !.gone = TRUE]]
    /\ UNCHANGED <<last, maxData, aborted, history>>

\* generate_max_stream_data_frame(), lsquic_stream_max_stream_data_sent()
SendWuf(s) ==
    /\ ~aborted /\ st[s].wuf
    /\ st' = [st EXCEPT ![s].wuf = FALSE]
    /\ last' = [last EXCEPT ![s] = sf[s].recv]
    /\ UNCHANGED <<fcVars, maxData, aborted, history>>

\* The tick moves the connection's window and sends MAX_DATA, if there is room
\* in a packet, now or in a later tick
SendMaxData(room) ==
    /\ ~aborted
    /\ FcTick
    /\ cf'.recv # cf.recv \/ maxData.send
    /\ maxData' = IF room THEN [off |-> cf'.recv, send |-> FALSE]
                  ELSE [maxData EXCEPT !.send = TRUE]
    /\ UNCHANGED <<st, last, aborted, history>>

\* lsquic_stream_peer_blocked(): until a MAX_STREAM_DATA frame was sent it is
\* the highest offset received that the peer's is compared with
PeerBlocked(s) ==
    /\ "blocked" \in StEvents
    /\ ~aborted /\ ~st[s].gone /\ ~st[s].wuf
    /\ StreamLimit(s) > (IF last[s] = 0 THEN sf[s].max ELSE last[s])
    /\ st' = [st EXCEPT ![s].wuf = TRUE]
    /\ UNCHANGED <<fcVars, last, maxData, aborted, history>>

StNext ==
    \/ \E room \in BOOLEAN : SendMaxData(room)
    \/ \E s \in Streams :
          \/ \E f \in FramesOf(s) : FrameIn(s, f)
          \/ \E n \in 1 .. MaxRead : Read(s, n)
          \/ \E off \in 0 .. MaxOff : RstIn(s, off)
          \/ \E reset \in BOOLEAN : StopSendingIn(s, reset)
          \/ Readable(s) \/ ShutdownRead(s) \/ Destroy(s)
          \/ SendWuf(s) \/ PeerBlocked(s)

StSpec == StInit /\ [][StNext]_stVars
-----------------------------------------------------------------------------
\* The types of the streams, of the windows and of the history.
StTypeOK ==
    /\ sf \in [Streams -> FcWindow] /\ cf \in FcWindow /\ refused \in BOOLEAN
    /\ \A s \in Streams :
          /\ st[s].di.impl \in {"nocopy", "hash", "error"} /\ st[s].off \in 0 .. MaxOff
          /\ st[s].cache \in {"none", "yes", "no"}
          /\ {st[s].finRecvd, st[s].eof, st[s].rst, st[s].readDone, st[s].waitFin,
              st[s].ssRecvd, st[s].wuf, st[s].gone} \subseteq BOOLEAN
          /\ got[s] \subseteq 0 .. MaxOff /\ sent[s] \in 0 .. MaxOff /\ final[s] \in 0 .. MaxOff
    /\ last \in [Streams -> Nat] /\ maxData \in [off : Nat, send : BOOLEAN] /\ aborted \in BOOLEAN

\* Whatever frames arrive, cut and repeated in any way, and whichever buffer
\* they are in after switches in the middle of reading, a stream has exactly the
\* bytes it was given and has not handed out, and has handed out no byte it was
\* not given (lsquic_di_nocopy.c, lsquic_di_hash.c, maybe_switch_data_in()).
BytesKept ==
    \A s \in Streams :
        ~st[s].gone /\ ~st[s].rst =>
            /\ Held(st[s].di, st[s].off) = {i \in got[s] : i >= st[s].off}
            /\ 0 .. st[s].off - 1 \subseteq got[s]

\* A peer that keeps to the limits it was given and to one final size is never
\* taken for one that does not, neither by the buffers nor by the windows
\* (INS_FRAME_ERR, lsquic_stream_update_sfcw(), lsquic_stream_rst_in()).
HonestAccepted == ~aborted

\* The connection's window is the sum of the streams', read and received; and a
\* stream that is gone has paid back exactly its final size, so that nothing of
\* the connection's window leaks however a stream ends.
WindowsAddUp ==
    /\ cf.max = Total([s \in Streams |-> sf[s].max])
    /\ cf.read = Total([s \in Streams |-> sf[s].read])
    /\ \A s \in Streams :
          st[s].gone => sf[s].read = sf[s].max /\ sf[s].max = final[s]

\* The list of frames is in order and does not overlap (the assertion
\* frame_list_is_sane(), which is compiled out), starts no earlier than reading
\* has got to, and its holes are the ones counted in ncdi_n_holes, on which the
\* choice of the buffer rests.
HolesCounted ==
    \A s \in Streams :
        st[s].di.impl = "nocopy" =>
            LET fs == st[s].di.frames IN
            /\ \A i \in 1 .. Len(fs) - 1 : EndOf(fs[i]) <= fs[i + 1].off
            /\ fs # <<>> => fs[1].off + fs[1].roff >= st[s].off
            /\ st[s].di.holes =
                  Cardinality({i \in 1 .. Len(fs) - 1 : EndOf(fs[i]) # fs[i + 1].off})

\* A stream whose cached answer is that there is nothing to read has nothing to
\* read: no byte and no FIN waits for an event that has already passed
\* (STREAM_CACHED_FRAME).
NoReadMissed ==
    \A s \in Streams : st[s].cache = "no" => GetFrame(st[s].di, st[s].off).none

\* The end of a stream is reported where the stream ends: a read that returns
\* zero has been preceded by all of its bytes (read_data_frames(),
\* setup_data_frame()).
EofAtEnd == \A s \in Streams : st[s].eof => st[s].off = final[s]

\* The application has taken all it can, and every update it is time for is sent
Settled ==
    /\ ~Slides(cf) /\ ~maxData.send
    /\ \A s \in Streams :
          /\ ~st[s].wuf /\ (st[s].readDone => st[s].gone)
          /\ st[s].eof \/ GetFrame(st[s].di, st[s].off).none

Unfinished(s) == ~st[s].eof /\ ~st[s].rst /\ ~st[s].gone

\* No window stays closed on a peer that has more to send: when all that can be
\* read is read and no update is pending, and some stream has not come to its
\* end, then one such stream lacks a byte or a FIN that the peer is free to
\* send.  Streams that are shut down and not yet destroyed keep what they
\* discard from the connection.
WindowsReopen ==
    ~aborted /\ Settled /\ (\E s \in Streams : Unfinished(s)) =>
        \E s \in Streams :
          /\ Unfinished(s)
          /\ \/ \E i \in 0 .. Room(s) - 1 : i \notin got[s]
             \/ Room(s) = final[s] /\ ~st[s].finRecvd
=============================================================================
