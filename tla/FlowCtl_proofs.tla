--------------------------- MODULE FlowCtl_proofs ---------------------------
(***************************************************************************)
(* For every set of streams and every size of the windows: no window is    *)
(* overrun, no limit once announced is taken back, and the connection is   *)
(* charged and credited exactly what its streams are.                      *)
(*                                                                         *)
(* The inductive invariant orders the offsets of a stream's window, read   *)
(* <= max <= recv, bounds what all streams have received by what the       *)
(* connection allows, and keeps every window at least two bytes wide: that *)
(* is what makes a window that slides move up.  That cf.read is not        *)
(* negative follows from its being a sum over all streams, which TLC       *)
(* checks; here it is an integer.                                          *)
(***************************************************************************)
EXTENDS FlowCtl, TLAPS

Offsets == [recv : Int, read : Int, max : Int, win : Int]

FcTypeOK ==
    /\ sf \in [Streams -> Offsets] /\ cf \in Offsets
    /\ cf.win >= 2 /\ \A s \in Streams : sf[s].win >= 2

\* Nothing is accepted beyond what was announced, on a stream or on all of them
\* together, and nothing is consumed before it was received
\* (lsquic_sfcw_set_max_recv_off(), lsquic_cfcw_incr_max_recv_off()).
NotOverrun ==
    /\ \A s \in Streams : sf[s].read <= sf[s].max /\ sf[s].max <= sf[s].recv
    /\ cf.max <= cf.recv

FcInv == FcTypeOK /\ NotOverrun

\* A limit is never lowered, also when a stream that was stopped is read from
\* and its read offset moves back (lsquic_sfcw_fc_offsets_changed()).
LimitsKept ==
    /\ \A s \in Streams : sf'[s].recv >= sf[s].recv
    /\ cf'.recv >= cf.recv

\* A step moves the offsets of one stream at most, and those of the connection
\* by as much: no byte is charged or credited twice or not at all.
ChargedOnce ==
    \/ cf'.max = cf.max /\ cf'.read = cf.read /\ sf' = sf
    \/ \E s \in Streams :
          /\ \A t \in Streams \ {s} : sf'[t] = sf[t]
          /\ cf'.max - cf.max = sf'[s].max - sf[s].max
          /\ cf'.read - cf.read = sf'[s].read - sf[s].read

\* A window that slides moves up and keeps its other offsets.
LEMMA Slide ==
    ASSUME NEW w \in Offsets, w.win >= 2, NEW cap \in Int, NEW v \in OffsetsChanged(w, cap)
    PROVE  /\ v \in Offsets /\ v.win >= 2
           /\ v.recv >= w.recv /\ v.read = w.read /\ v.max = w.max
<1>1. CASE ~Slides(w)
  <2>1. v = w
    BY <1>1 DEF OffsetsChanged
  <2>2. w.recv \in Int
    BY DEF Offsets
  <2>3. QED
    BY <2>1, <2>2
<1>2. CASE Slides(w)
  <2>1. w.recv - w.read < w.win \div 2
    BY <1>2 DEF Slides
  <2>2. w.win \div 2 \in Int /\ w.win \div 2 <= w.win
    BY DEF Offsets
  <2>3. Grown(w, cap) \in Int /\ Grown(w, cap) >= w.win
    BY DEF Grown, Lesser, Offsets
  <2>4. ASSUME NEW k \in Int, k >= w.win
        PROVE  /\ Moved(w, k) \in Offsets /\ Moved(w, k).win >= 2
               /\ Moved(w, k).recv >= w.recv
               /\ Moved(w, k).read = w.read /\ Moved(w, k).max = w.max
    <3>1. w.read + k \in Int /\ w.read + k >= w.recv
      BY <2>1, <2>2, <2>4 DEF Offsets
    <3>2. /\ Moved(w, k).win = k /\ Moved(w, k).recv = w.read + k
          /\ Moved(w, k).read = w.read /\ Moved(w, k).max = w.max
          /\ Moved(w, k) \in Offsets
      BY <3>1 DEF Moved, Offsets
    <3>3. QED
      BY <2>4, <3>1, <3>2 DEF Offsets
  <2>5. v = Moved(w, w.win) \/ v = Moved(w, Grown(w, cap))
    BY <1>2 DEF OffsetsChanged
  <2>6. w.win \in Int
    BY DEF Offsets
  <2>7. QED
    BY <2>3, <2>4, <2>5, <2>6
<1>3. QED
  BY <1>1, <1>2

\* The cap on a stream's window is a number.
LEMMA CapType == FcTypeOK => SfCap \in Int
BY FlowAssumption DEF FcTypeOK, Offsets, SfCap, Lesser

\* A frame that is accepted lies within both windows.
LEMMA FrameStep ==
    ASSUME FcInv, NEW s \in Streams, NEW off \in 0 .. MaxOff, FcFrame(s, off)
    PROVE  FcInv' /\ LimitsKept /\ ChargedOnce
<1>1. CASE off > sf[s].max /\ ~Allowed(s, off) /\ UNCHANGED <<sf, cf>>
  BY <1>1 DEF FcInv, FcTypeOK, Offsets, NotOverrun, LimitsKept, ChargedOnce
<1>2. CASE UNCHANGED refused /\ (off > sf[s].max => Allowed(s, off))
  <2> DEFINE top == IF off > sf[s].max THEN off ELSE sf[s].max
             w == [sf[s] EXCEPT !.max = top]
  <2>1. PICK v \in OffsetsChanged(w, SfCap) :
           sf' = [sf EXCEPT ![s] = v] /\ cf' = [cf EXCEPT !.max = @ + Charge(s, top)]
    BY <1>2 DEF FcFrame, FcInv, FcTypeOK, Offsets, Allowed
  <2>2. sf[s] \in Offsets /\ off \in Int /\ top \in Int /\ top >= sf[s].max
    BY FlowAssumption DEF FcInv, FcTypeOK, Offsets
  <2>3. w \in Offsets /\ w.win >= 2 /\ w.max = top /\ w.recv = sf[s].recv /\ w.read = sf[s].read
    BY <2>2 DEF FcInv, FcTypeOK, Offsets
  <2>4. top <= sf[s].recv /\ cf.max + Charge(s, top) <= cf.recv
    BY <1>2, <2>2 DEF Allowed, Charge, FcInv, FcTypeOK, Offsets, NotOverrun
  <2> HIDE DEF top, w
  <2>5. /\ v \in Offsets /\ v.win >= 2
        /\ v.recv >= sf[s].recv /\ v.read = sf[s].read /\ v.max = top
    <3>1. SfCap \in Int
      BY CapType DEF FcInv
    <3>2. v \in Offsets /\ v.win >= 2 /\ v.recv >= w.recv /\ v.read = w.read /\ v.max = w.max
      BY <2>3, <3>1, Slide
    <3>3. QED
      BY <2>3, <3>2
  <2>6. /\ sf'[s] = v /\ \A t \in Streams \ {s} : sf'[t] = sf[t]
        /\ cf' \in Offsets /\ cf'.max = cf.max + top - sf[s].max
        /\ cf'.recv = cf.recv /\ cf'.read = cf.read /\ cf'.win = cf.win
    BY <2>1, <2>2 DEF FcInv, FcTypeOK, Offsets, Charge
  <2>7. FcTypeOK'
    BY <2>1, <2>5, <2>6 DEF FcInv, FcTypeOK
  <2>8. NotOverrun' /\ LimitsKept
    BY <2>2, <2>4, <2>5, <2>6 DEF FcInv, FcTypeOK, NotOverrun, LimitsKept, Offsets, Charge
  <2>9. ChargedOnce
    BY <2>2, <2>5, <2>6 DEF ChargedOnce, FcInv, FcTypeOK, Offsets
  <2>10. QED
    BY <2>7, <2>8, <2>9 DEF FcInv
<1>3. QED
  BY <1>1, <1>2 DEF FcFrame

\* Consuming moves the read offset of a stream up to what was received.
LEMMA ConsumeStep ==
    ASSUME FcInv, NEW s \in Streams, FcConsume(s)
    PROVE  FcInv' /\ LimitsKept /\ ChargedOnce
<1>1. sf[s] \in Offsets /\ cf \in Offsets
  BY DEF FcInv, FcTypeOK
<1>2. /\ sf'[s] = [sf[s] EXCEPT !.read = sf[s].max]
      /\ \A t \in Streams \ {s} : sf'[t] = sf[t]
      /\ cf' = [cf EXCEPT !.read = cf.read + sf[s].max - sf[s].read]
  BY DEF FcConsume, SetReadOff, FcInv, FcTypeOK
<1>3. /\ sf'[s] \in Offsets /\ cf' \in Offsets
      /\ sf'[s].recv = sf[s].recv /\ sf'[s].max = sf[s].max /\ sf'[s].win = sf[s].win
      /\ sf'[s].read = sf[s].max /\ cf'.read = cf.read + sf[s].max - sf[s].read
      /\ cf'.recv = cf.recv /\ cf'.max = cf.max /\ cf'.win = cf.win
  BY <1>1, <1>2 DEF Offsets
<1>4. FcTypeOK'
  BY <1>2, <1>3 DEF FcInv, FcTypeOK, FcConsume
<1>5. NotOverrun' /\ LimitsKept
  BY <1>1, <1>2, <1>3 DEF FcInv, FcTypeOK, NotOverrun, LimitsKept, Offsets
<1>6. ChargedOnce
  BY <1>1, <1>2, <1>3 DEF ChargedOnce, Offsets
<1>7. QED
  BY <1>4, <1>5, <1>6 DEF FcInv

\* Reading moves the read offset anywhere below what was received.
LEMMA ReadStep ==
    ASSUME FcInv, NEW s \in Streams, NEW off \in 0 .. MaxOff, off <= sf[s].max, FcRead(s, off)
    PROVE  FcInv' /\ LimitsKept /\ ChargedOnce
<1> DEFINE w == SetReadOff(sf[s], off)
<1>1. sf[s] \in Offsets /\ cf \in Offsets /\ off \in Int
  BY FlowAssumption DEF FcInv, FcTypeOK
<1>2. PICK v \in OffsetsChanged(w, SfCap) : sf' = [sf EXCEPT ![s] = v]
  BY DEF FcRead
<1>3. /\ w \in Offsets /\ w.win = sf[s].win /\ w.read = off
      /\ w.max = sf[s].max /\ w.recv = sf[s].recv /\ w.win >= 2
  BY <1>1 DEF SetReadOff, Offsets, FcInv, FcTypeOK
<1>4. cf' = [cf EXCEPT !.read = cf.read + off - sf[s].read]
  BY DEF FcRead, SetReadOff
<1> HIDE DEF w
<1>5. /\ v \in Offsets /\ v.win >= 2
      /\ v.recv >= sf[s].recv /\ v.read = off /\ v.max = sf[s].max
  <2>1. SfCap \in Int
    BY CapType DEF FcInv
  <2>2. v \in Offsets /\ v.win >= 2 /\ v.recv >= w.recv /\ v.read = w.read /\ v.max = w.max
    BY <1>3, <2>1, Slide
  <2>3. QED
    BY <1>3, <2>2
<1>6. /\ sf'[s] = v /\ \A t \in Streams \ {s} : sf'[t] = sf[t]
      /\ cf' \in Offsets /\ cf'.read = cf.read + off - sf[s].read
      /\ cf'.recv = cf.recv /\ cf'.max = cf.max /\ cf'.win = cf.win
  BY <1>1, <1>2, <1>4 DEF FcInv, FcTypeOK, Offsets
<1>7. FcTypeOK'
  BY <1>2, <1>5, <1>6 DEF FcInv, FcTypeOK
<1>8. NotOverrun' /\ LimitsKept
  BY <1>1, <1>5, <1>6 DEF FcInv, FcTypeOK, NotOverrun, LimitsKept, Offsets
<1>9. ChargedOnce
  BY <1>1, <1>5, <1>6 DEF ChargedOnce, Offsets
<1>10. QED
  BY <1>7, <1>8, <1>9 DEF FcInv

\* A reset charges what was never received and consumes it at once.
LEMMA ResetStep ==
    ASSUME FcInv, NEW s \in Streams, NEW off \in 0 .. MaxOff, FcReset(s, off)
    PROVE  FcInv' /\ LimitsKept /\ ChargedOnce
<1>1. sf[s] \in Offsets /\ cf \in Offsets /\ off \in Int
  BY FlowAssumption DEF FcInv, FcTypeOK
<1>2. CASE UNCHANGED <<sf, cf>>
  BY <1>2 DEF FcInv, FcTypeOK, Offsets, NotOverrun, LimitsKept, ChargedOnce
<1>3. CASE off >= sf[s].max /\ Allowed(s, off) /\ ~UNCHANGED <<sf, cf>>
  <2>1. /\ sf' = [sf EXCEPT ![s] = SetReadOff([@ EXCEPT !.max = off], off)]
        /\ cf' = SetReadOff([cf EXCEPT !.max = @ + Charge(s, off)], cf.read + off - sf[s].read)
    BY <1>3 DEF FcReset
  <2> DEFINE charged == [cf EXCEPT !.max = cf.max + (off - sf[s].max)]
             topped == [sf[s] EXCEPT !.max = off]
  <2>2. /\ charged \in Offsets /\ charged.win = cf.win /\ charged.recv = cf.recv
        /\ charged.max = cf.max + (off - sf[s].max) /\ charged.read = cf.read
        /\ topped \in Offsets /\ topped.win = sf[s].win /\ topped.recv = sf[s].recv
        /\ topped.max = off
    BY <1>1 DEF Offsets
  <2>3. /\ \A t \in Streams \ {s} : sf'[t] = sf[t]
        /\ sf'[s] = [topped EXCEPT !.read = off]
        /\ cf' = [charged EXCEPT !.read = cf.read + off - sf[s].read]
    BY <2>1 DEF SetReadOff, Charge, FcInv, FcTypeOK
  <2> HIDE DEF charged, topped
  <2>4. /\ \A t \in Streams \ {s} : sf'[t] = sf[t]
        /\ sf'[s] \in Offsets /\ sf'[s].win = sf[s].win /\ sf'[s].recv = sf[s].recv
        /\ sf'[s].read = off /\ sf'[s].max = off
        /\ cf' \in Offsets /\ cf'.win = cf.win /\ cf'.recv = cf.recv
        /\ cf'.max = cf.max + (off - sf[s].max) /\ cf'.read = cf.read + off - sf[s].read
    BY <1>1, <2>2, <2>3 DEF Offsets
  <2>5. FcTypeOK'
    BY <2>1, <2>4 DEF FcInv, FcTypeOK
  <2>6. off <= sf[s].recv /\ cf.max + (off - sf[s].max) <= cf.recv
    BY <1>3 DEF Allowed, Charge
  <2>7. NotOverrun' /\ LimitsKept
    BY <1>1, <2>4, <2>6 DEF FcInv, FcTypeOK, NotOverrun, LimitsKept, Offsets
  <2>8. ChargedOnce
    BY <1>1, <2>4 DEF ChargedOnce, Offsets
  <2>9. QED
    BY <2>5, <2>7, <2>8 DEF FcInv
<1>4. QED
  BY <1>2, <1>3 DEF FcReset

\* The tick moves the connection's limit up.
LEMMA TickStep ==
    ASSUME FcInv, FcTick
    PROVE  FcInv' /\ LimitsKept /\ ChargedOnce
<1>1. /\ cf' \in Offsets /\ cf'.win >= 2
      /\ cf'.recv >= cf.recv /\ cf'.read = cf.read /\ cf'.max = cf.max
  BY FlowAssumption, Slide DEF FcInv, FcTypeOK, FcTick
<1>2. sf' = sf
  BY DEF FcTick
<1>3. QED
  BY <1>1, <1>2 DEF FcInv, FcTypeOK, NotOverrun, LimitsKept, ChargedOnce, Offsets

\* Every step keeps the invariant, the limits and the order of charging.
LEMMA AnyStep == FcInv /\ FcNext => FcInv' /\ LimitsKept /\ ChargedOnce
BY FrameStep, ConsumeStep, ReadStep, ResetStep, TickStep DEF FcNext

\* The inductive invariant holds of every behaviour of the windows.
THEOREM FcInvariant == FcSpec => []FcInv
<1>1. FcInit => FcInv
  BY FlowAssumption DEF FcInit, NewWindow, FcInv, FcTypeOK, Offsets, NotOverrun
<1>2. FcInv /\ UNCHANGED fcVars => FcInv'
  BY DEF fcVars, FcInv, FcTypeOK, NotOverrun
<1>3. QED
  BY <1>1, <1>2, AnyStep, PTL DEF FcSpec

\* No peer, however it spreads its bytes over streams and resets, is let send
\* more than was announced.
THEOREM WindowsNotOverrun == FcSpec => []NotOverrun
<1>1. FcInv => NotOverrun
  BY DEF FcInv
<1>2. QED
  BY <1>1, FcInvariant, PTL

\* No announced limit is ever taken back.
THEOREM WindowLimitsKept == FcSpec => [][LimitsKept]_fcVars
BY FcInvariant, AnyStep, PTL DEF FcSpec

\* The connection's window moves as its streams' windows do, step by step.
THEOREM WindowsChargedOnce == FcSpec => [][ChargedOnce]_fcVars
BY FcInvariant, AnyStep, PTL DEF FcSpec
=============================================================================
