------------------------------- MODULE FlowCtl -------------------------------
(***************************************************************************)
(* The receive windows of a connection: one sfcw per stream and the cfcw   *)
(* they all draw on.  A window is [recv, read, max, win]: the offset the   *)
(* peer may send up to, the offset consumed so far, the highest offset     *)
(* received and the size of the window.  The connection's offsets are the  *)
(* sums of the streams'.                                                   *)
(*                                                                         *)
(* The actions are what streams do to the windows.  Unsigned 64-bit        *)
(* differences are written with their sign: no offset comes near 2^63.     *)
(***************************************************************************)
EXTENDS Integers, FiniteSets

CONSTANTS Streams,   \* streams of the connection
          Sfcw,      \* initial stream window
          Cfcw,      \* es_cfcw
          MaxSfcw,   \* es_max_sfcw
          MaxCfcw,   \* es_max_cfcw
          MaxOff     \* bound of the model on stream offsets

\* lsquic_engine_check_settings() asks for at least LSQUIC_MIN_FCW
ASSUME FlowAssumption ==
    /\ Sfcw \in Nat /\ Sfcw >= 2 /\ Cfcw \in Nat /\ Cfcw >= 2
    /\ MaxSfcw \in Nat /\ MaxCfcw \in Nat /\ MaxOff \in Nat

VARIABLES sf,       \* the windows of the streams
          cf,       \* the window of the connection
          refused   \* a flow control violation was reported

fcVars == <<sf, cf, refused>>

FcWindow == [recv : Nat, read : Nat, max : Nat, win : Nat]

Lesser(a, b) == IF a < b THEN a ELSE b

\* lsquic_sfcw_init(), lsquic_cfcw_init()
NewWindow(w) == [recv |-> w, read |-> 0, max |-> 0, win |-> w]

FcInit ==
    /\ sf = [s \in Streams |-> NewWindow(Sfcw)]
    /\ cf = NewWindow(Cfcw)
    /\ refused = FALSE

\* Half of the window has been used up.  As unsigned numbers recv - read is
\* large when more is read than was allowed.
Slides(w) == w.recv - w.read >= 0 /\ w.recv - w.read < w.win \div 2

\* recv_off when the window is moved
Moved(w, win) == [w EXCEPT !.win = win, !.recv = w.read + win]

\* sfcw_maybe_increase_max_window(), cfcw_maybe_increase_max_window()
Grown(w, cap) == IF Lesser(2 * w.win, cap) > w.win THEN Lesser(2 * w.win, cap) ELSE w.win

\* lsquic_sfcw_fc_offsets_changed(), lsquic_cfcw_fc_offsets_changed(): the
\* window also grows if it was moved less than two round trips ago
OffsetsChanged(w, cap) ==
    IF Slides(w) THEN {Moved(w, w.win), Moved(w, Grown(w, cap))} ELSE {w}

SfCap == Lesser(MaxSfcw, cf.win)

\* Mutant: what was already received on the stream is charged again.
ChargeAll(s, off) == off

\* What lsquic_sfcw_set_max_recv_off() charges to the connection
Charge(s, off) == off - sf[s].max

\* lsquic_sfcw_set_max_recv_off() succeeds
Allowed(s, off) == off <= sf[s].recv /\ cf.max + Charge(s, off) <= cf.recv

\* lsquic_stream_update_sfcw()
FcFrame(s, off) ==
    \/ /\ off > sf[s].max /\ ~Allowed(s, off)
       /\ refused' = TRUE /\ UNCHANGED <<sf, cf>>
    \/ /\ off > sf[s].max => Allowed(s, off)
       /\ LET top == IF off > sf[s].max THEN off ELSE sf[s].max IN
          /\ \E w \in OffsetsChanged([sf[s] EXCEPT !.max = top], SfCap) :
                sf' = [sf EXCEPT ![s] = w]
          /\ cf' = [cf EXCEPT !.max = @ + Charge(s, top)]
       /\ UNCHANGED refused

\* lsquic_sfcw_set_read_off(): the difference may be negative
SetReadOff(w, off) == [w EXCEPT !.read = off]

\* stream_consumed_bytes()
FcRead(s, off) ==
    /\ \E w \in OffsetsChanged(SetReadOff(sf[s], off), SfCap) :
          sf' = [sf EXCEPT ![s] = w]
    /\ cf' = SetReadOff(cf, cf.read + off - sf[s].read)
    /\ UNCHANGED refused

\* lsquic_sfcw_consume_rem(): a stream is stopped or destroyed
FcConsume(s) ==
    /\ sf' = [sf EXCEPT ![s] = SetReadOff(@, @.max)]
    /\ cf' = SetReadOff(cf, cf.read + sf[s].max - sf[s].read)
    /\ UNCHANGED refused

\* lsquic_stream_rst_in(): the final size is charged and consumed
FcReset(s, off) ==
    \/ /\ off < sf[s].max \/ ~Allowed(s, off)
       /\ refused' = TRUE /\ UNCHANGED <<sf, cf>>
    \/ /\ off >= sf[s].max /\ Allowed(s, off)
       /\ sf' = [sf EXCEPT ![s] = SetReadOff([@ EXCEPT !.max = off], off)]
       /\ cf' = SetReadOff([cf EXCEPT !.max = @ + Charge(s, off)],
                           cf.read + off - sf[s].read)
       /\ UNCHANGED refused

\* The tick of the connection
FcTick ==
    /\ cf' \in OffsetsChanged(cf, MaxCfcw)
    /\ UNCHANGED <<sf, refused>>

FcNext ==
    \/ FcTick
    \/ \E s \in Streams :
          \/ FcConsume(s)
          \/ \E off \in 0 .. MaxOff :
                \/ FcFrame(s, off)
                \/ FcReset(s, off)
                \/ off <= sf[s].max /\ FcRead(s, off)

FcSpec == FcInit /\ [][FcNext]_fcVars
=============================================================================
