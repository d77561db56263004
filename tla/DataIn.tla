------------------------------- MODULE DataIn -------------------------------
(***************************************************************************)
(* The two buffers for incoming stream data and the switch between them.   *)
(* A STREAM frame is [off, size, fin].  `nocopy' keeps the frames in a     *)
(* list sorted by offset, each with the part of it already read (roff);    *)
(* `hash' keeps the bytes in blocks of BlockSize.  A byte is its offset.   *)
(***************************************************************************)
EXTENDS Integers, FiniteSets, SequencesExt

CONSTANTS BlockSize,      \* DB_DATA_SIZE
          EffThreshLow,   \* EFF_CHECK_THRESH_LOW
          EffThreshHigh,  \* EFF_CHECK_THRESH_HIGH
          EffFar,         \* EFF_FAR_TRAVERSE_COUNT
          EffMaxHoles,    \* EFF_MAX_HOLES
          EffTiny         \* EFF_TINY_FRAME_SZ

NocopyNew == [impl |-> "nocopy", frames |-> <<>>, fin |-> FALSE, finOff |-> 0,
              holes |-> 0, far |-> 0]
HashNew == [impl |-> "hash", blocks |-> <<>>, fin |-> FALSE, finOff |-> 0]
ErrorDi == [impl |-> "error"]

EndOf(f) == f.off + f.size
AsNum(b) == IF b THEN 1 ELSE 0

\* A frame that disagrees with the final offset
PastFin(di, f) == di.fin /\ (EndOf(f) > di.finOff \/ (f.fin /\ EndOf(f) # di.finOff))

\* The frames between which a new one goes: the last one that does not start
\* after it and the first one that does
Prev(di, f) == Cardinality({i \in DOMAIN di.frames : di.frames[i].off <= f.off})

\* insert_frame() of the nocopy buffer, cases A to O and Z.  An empty list has
\* no neighbours; NCDI_FIN_REACHED makes no difference to cases E to G, since
\* cases C, D and M come first once a FIN has been seen.
Verdict(di, f, ro) ==
    LET n == Prev(di, f)
        prev == di.frames[n]
        next == di.frames[n + 1]
        hasPrev == n > 0
        hasNext == n < Len(di.frames)
    IN
    CASE ro > EndOf(f) -> IF f.fin THEN "err" ELSE "dup"
      [] PastFin(di, f) -> "err"
      [] ro = EndOf(f) /\ (di.fin \/ ~f.fin) -> "dup"
      [] ~hasPrev /\ ~hasNext /\ ro > f.off -> "overlap"
      [] hasPrev /\ prev.off = f.off /\ prev.size = f.size ->
            IF ~prev.fin /\ f.fin THEN "overlap" ELSE "dup"
      [] hasPrev /\ EndOf(prev) > f.off -> "overlap"
      [] hasNext /\ EndOf(f) > next.off -> "overlap"
      [] hasNext /\ ro > f.off -> "overlap"
      [] OTHER -> "ok"

\* Mutant: the hole a frame is put into is not taken off the count.
NewHolesKeep(di, f) ==
    LET n == Prev(di, f) IN
    AsNum(n > 0 /\ EndOf(di.frames[n]) # f.off)
    + AsNum(n < Len(di.frames) /\ EndOf(f) # di.frames[n + 1].off)

\* The change of ncdi_n_holes
NewHoles(di, f) ==
    LET n == Prev(di, f) IN
    AsNum(n > 0 /\ EndOf(di.frames[n]) # f.off)
    + AsNum(n < Len(di.frames) /\ EndOf(f) # di.frames[n + 1].off)
    - AsNum(n > 0 /\ n < Len(di.frames))

\* The list with the new frame in it
Linked(di, f) ==
    [di EXCEPT !.frames = InsertAt(@, Prev(di, f) + 1,
                                   [off |-> f.off, size |-> f.size, fin |-> f.fin, roff |-> 0]),
               !.holes = @ + NewHoles(di, f),
               !.fin = @ \/ f.fin,
               !.finOff = IF f.fin THEN EndOf(f) ELSE @]

\* check_efficiency(), given the frames passed on the way to the position
Far(di, count) == count >= Len(di.frames) \div 2
Byteage(di) == FoldLeft(LAMBDA sum, f : sum + f.size, 0, di.frames)
Inefficient(di, count) ==
    /\ Len(di.frames) > EffThreshLow
    /\ \/ Len(di.frames) > EffThreshHigh
       \/ Far(di, count) /\ di.far + 1 > EffFar
       \/ di.holes > EffMaxHoles
       \/ Byteage(di) \div EffTiny < Len(di.frames)
ConsFar(di, count) ==
    IF Len(di.frames) > EffThreshLow /\ Far(di, count) THEN di.far + 1 ELSE 0

\* has_bytes_after()
HasBytesAfter(bytes, p) == \E i \in bytes : i >= p

\* lsquic_data_in_hash_insert_data_frame(): a block is created even for a frame
\* that is empty or already read.  The bytes that are in are in, error or not.
HashInsert(di, f, ro) ==
    LET from == IF f.off < ro THEN ro ELSE f.off
        first == from \div BlockSize
        lastb == IF EndOf(f) > from THEN (EndOf(f) - 1) \div BlockSize ELSE first
        had(b) == IF b \in DOMAIN di.blocks THEN di.blocks[b] ELSE {}
        bytes(b) == had(b) \cup {i \in from .. EndOf(f) - 1 : i \div BlockSize = b}
        filled == [b \in DOMAIN di.blocks \cup (first .. lastb) |-> bytes(b)]
        beyond == f.fin /\ (HasBytesAfter(filled[lastb], EndOf(f)) \/ lastb + 1 \in DOMAIN filled)
    IN
    CASE EndOf(f) < ro -> [res |-> IF f.fin THEN "err" ELSE "dup", di |-> di]
      [] EndOf(f) >= ro /\ PastFin(di, f) ->
            [res |-> "err", di |-> di]
      [] OTHER ->
            [res |-> IF beyond THEN "err" ELSE "ok",
             di |-> [di EXCEPT !.blocks = filled, !.fin = @ \/ (f.fin /\ ~beyond),
                               !.finOff = IF f.fin /\ ~beyond THEN EndOf(f) ELSE @]]

\* nocopy_di_switch_impl().  hash_di_switch_impl() makes an empty list.
SwitchImpl(di, ro) ==
    FoldLeft(LAMBDA new, f : IF new.res = "err" THEN new ELSE HashInsert(new.di, f, ro),
             [res |-> "ok", di |-> HashNew], di.frames)

\* di_insert_frame() as lsquic_stream_frame_in() calls it: an overlap changes
\* the buffer for good, low efficiency after the frame is in
Insert(di, f, ro) ==
    LET verdict == Verdict(di, f, ro)
        count == Len(di.frames) - Prev(di, f)
        linked == Linked(di, f)
        switched == SwitchImpl(IF verdict = "ok" THEN linked ELSE di, ro)
    IN
    CASE di.impl = "error" -> [res |-> "err", di |-> di]
      [] di.impl = "hash" -> HashInsert(di, f, ro)
      [] di.impl = "nocopy" /\ verdict \in {"err", "dup"} -> [res |-> verdict, di |-> di]
      [] di.impl = "nocopy" /\ verdict = "overlap" ->
            IF switched.res = "err" THEN [res |-> "err", di |-> ErrorDi]
            ELSE HashInsert(switched.di, f, ro)
      [] di.impl = "nocopy" /\ verdict = "ok" ->
            IF ~Inefficient(linked, count)
            THEN [res |-> "ok", di |-> [linked EXCEPT !.far = ConsFar(linked, count)]]
            ELSE IF switched.res = "err" THEN [res |-> "err", di |-> ErrorDi] ELSE switched

NoFrame == [avail |-> 0, fin |-> FALSE, none |-> TRUE]
Frame(avail, fin) == [avail |-> avail, fin |-> fin, none |-> FALSE]

\* Mutant: the byte at which the count stops is counted too.
AvailOne(bytes, ro) ==
    Cardinality({i \in bytes : i >= ro /\ \A j \in ro .. i : j \in bytes}) + 1

\* n_avail_bytes(): bytes of a block without a gap from an offset on
Avail(bytes, ro) ==
    Cardinality({i \in bytes : i >= ro /\ \A j \in ro .. i : j \in bytes})

\* setup_data_frame() says that a frame is the last one by comparing twice the
\* offset into the block plus what is there with the final offset
FinAfter(di, o, avail) == di.fin /\ o + (o + avail) = di.finOff

\* di_get_frame(): what can be read at an offset, at once
GetFrame(di, ro) ==
    LET b == ro \div BlockSize IN
    CASE di.impl = "error" -> NoFrame
      [] di.impl = "nocopy" ->
            IF di.frames # <<>> /\ di.frames[1].off + di.frames[1].roff = ro
            THEN Frame(di.frames[1].size - di.frames[1].roff, di.frames[1].fin)
            ELSE NoFrame
      [] di.impl = "hash" ->
            IF b \in DOMAIN di.blocks /\ ro \in di.blocks[b]
            THEN LET avail == Avail(di.blocks[b], ro) IN
                 Frame(avail, FinAfter(di, ro % BlockSize, avail))
            ELSE IF di.fin /\ ro = di.finOff THEN Frame(0, TRUE) ELSE NoFrame

\* Mutant: a block is let go of although something is left in it.
FrameDoneAll(di, ro, k) ==
    CASE di.impl = "nocopy" ->
            [di EXCEPT !.frames = Tail(@),
                       !.holes = @ - AsNum(Len(di.frames) > 1
                                         /\ EndOf(di.frames[1]) # di.frames[2].off)]
      [] di.impl = "hash" ->
            LET left == [c \in DOMAIN di.blocks \ {ro \div BlockSize} |-> di.blocks[c]]
            IN IF left = <<>> /\ ~di.fin THEN NocopyNew ELSE [di EXCEPT !.blocks = left]

\* di_frame_done() after the k bytes at ro, and maybe_switch_data_in(): a hash
\* that is empty becomes a list again unless the FIN is known
FrameDone(di, ro, k) ==
    CASE di.impl = "nocopy" ->
            [di EXCEPT !.frames = Tail(@),
                       !.holes = @ - AsNum(Len(di.frames) > 1
                                         /\ EndOf(di.frames[1]) # di.frames[2].off)]
      [] di.impl = "hash" ->
            LET b == ro \div BlockSize
                drained == b \in DOMAIN di.blocks /\ ~HasBytesAfter(di.blocks[b], ro + k)
                left == [c \in DOMAIN di.blocks \ {b} |-> di.blocks[c]]
            IN
            IF ~drained THEN di
            ELSE IF left = <<>> /\ ~di.fin THEN NocopyNew
            ELSE [di EXCEPT !.blocks = left]

\* A frame that is read in part
ReadPart(di, k) ==
    IF di.impl = "nocopy" THEN [di EXCEPT !.frames[1].roff = @ + k] ELSE di

\* read_data_frames() with room for n bytes, and the loop of
\* stream_readable_discard(), for which there is always room
RECURSIVE ReadFrames(_, _, _)
ReadFrames(di, ro, n) ==
    LET f == GetFrame(di, ro)
        done == FrameDone(di, ro, f.avail)
    IN
    CASE f.none -> [di |-> di, off |-> ro, fin |-> FALSE]
      [] ~f.none /\ n < f.avail -> [di |-> ReadPart(di, n), off |-> ro + n, fin |-> FALSE]
      [] ~f.none /\ n >= f.avail /\ f.fin -> [di |-> done, off |-> ro + f.avail, fin |-> TRUE]
      [] ~f.none /\ n >= f.avail /\ ~f.fin -> ReadFrames(done, ro + f.avail, n - f.avail)

\* The bytes a buffer holds from an offset on
Held(di, ro) ==
    CASE di.impl = "nocopy" ->
            UNION {di.frames[i].off + di.frames[i].roff .. EndOf(di.frames[i]) - 1 :
                   i \in DOMAIN di.frames}
      [] di.impl = "hash" -> {i \in UNION {di.blocks[b] : b \in DOMAIN di.blocks} : i >= ro}
      [] OTHER -> {}
=============================================================================
