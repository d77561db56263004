------------------------------- MODULE RecHist -------------------------------
(***************************************************************************)
(* The history of received packets of one packet number space, from which  *)
(* ACK frames are written, through the life of a server's connection:      *)
(*   bits  mini connection: a bit per number, while all are below 64       *)
(*   tiny  mini connection, after a larger number: lsquic_trechist.c       *)
(*   full  full connection: lsquic_rechist.c, filled by copy_ranges()      *)
(* Both lists keep ranges, highest first, in the slots of an array that a  *)
(* bit mask manages.  What a slot holds once it is free is never read.     *)
(* A client has a full connection from the start.                          *)
(***************************************************************************)
EXTENDS Integers, Sequences, FiniteSets, SequencesExt, FiniteSetsExt

CONSTANTS MaxPackno,    \* numbers are 0 .. MaxPackno
          MaxBit,       \* MAX_PACKETS, 63
          TrMax,        \* TRECHIST_MAX_RANGES, 16
          UcharMax,     \* UCHAR_MAX: te_count is an unsigned char
          FirstElems,   \* what rechist_grow() allocates first, 4
          MaxRanges     \* rh_max_ranges, 10 or 1000 (never 0 or 1)

VARIABLES phase,    \* which of the histories is in use; "closed", "wrapped"
          bits,     \* imc_recvd_packnos.bitmasks[pns], as a set
          tr,       \* hist_masks[pns] and hist_elems
          rh,       \* ifc_rechist[pns]
          arrival,  \* the packet whose arrival time is kept for the ACK delay
          tops,     \* numbers that headed the history: the largest of some ACK
          seen      \* what the history is meant to hold

rhVars == <<phase, bits, tr, rh, arrival, tops, seen>>

Packno == 0 .. MaxPackno
None == -1              \* UINT_MAX in re_next; no packet in arrival

Elem(low, count, next) == [low |-> low, count |-> count, next |-> next]
Blank == Elem(0, 0, None)
High(e) == e.low + e.count - 1

\* Slots in the order of the list that starts in slot i.
Chain(elems, i, end) ==
    LET walk[n \in 0 .. Cardinality(DOMAIN elems)] ==
            IF n = 0 THEN <<i>>
            ELSE LET s == walk[n - 1]
                     next == elems[Last(s)].next
                 IN  IF next = end THEN s ELSE Append(s, next)
    IN  walk[Cardinality(DOMAIN elems)]

\* Where the search for p stops in a list: the first element that p is inside,
\* above or just below.  0: p belongs after the last one.
Position(elems, order, p) ==
    LET hit == {k \in DOMAIN order : p >= elems[order[k]].low - 1}
    IN  IF hit = {} THEN 0 ELSE Min(hit)

FreeSlot(mask) == Min((0 .. Cardinality(mask)) \ mask)
-----------------------------------------------------------------------------
\* The maximal ranges of a set of numbers, and their order in a history.
Runs(S) ==
    {<<l, Min({h \in S : h >= l /\ h + 1 \notin S})>> : l \in {x \in S : x - 1 \notin S}}

BitRanges(S) == SetToSortSeq(Runs(S), LAMBDA a, b : a[1] > b[1])

LowestRun(S) == LET r == CHOOSE x \in Runs(S) : x[1] = Min(S) IN r[1] .. r[2]

\* The ranges of a list, as the iterators return them.
RangesOf(elems, order) ==
    [k \in DOMAIN order |-> <<elems[order[k]].low, High(elems[order[k]])>>]
-----------------------------------------------------------------------------
\* lsquic_trechist.c: the head is always in slot 0, and 0 ends the list.

TrInit == [mask |-> {}, elems |-> [i \in 0 .. TrMax - 1 |-> Blank], st |-> "ok"]

TrCopy(ranges) ==
    LET n == Min({Len(ranges), TrMax})
    IN  [TrInit EXCEPT !.mask = 0 .. n - 1,
             !.elems = [i \in DOMAIN @ |->
                 IF i >= n THEN Blank
                 ELSE Elem(ranges[i + 1][1], ranges[i + 1][2] - ranges[i + 1][1] + 1,
                           IF i = n - 1 THEN 0 ELSE i + 1)]]

TrRanges(t) ==
    IF t.mask = {} THEN <<>> ELSE RangesOf(t.elems, Chain(t.elems, 0, 0))

TrContains(t, p) ==
    /\ t.mask # {}
    /\ LET order == Chain(t.elems, 0, 0)
           hit == {k \in DOMAIN order : p >= t.elems[order[k]].low}
       IN  hit # {} /\ p <= High(t.elems[order[Min(hit)]])

\* p is just below slot i: merge with the next range, or grow down.  The check
\* that the sum fits te_count is short by two.
TrDown(t, i, p) ==
    LET e == t.elems[i]
        x == t.elems[e.next]
        sum == e.count + x.count + 1
    IN  IF e.next # 0 /\ e.low = High(x) + 2
        THEN IF e.count + x.count - 1 > UcharMax THEN [t EXCEPT !.st = "error"]
             ELSE [t EXCEPT !.mask = @ \ {e.next},
                            !.st = IF sum > UcharMax THEN "wrapped" ELSE @,
                            !.elems[i] = Elem(x.low, sum % (UcharMax + 1), x.next),
                            !.elems[e.next] = Blank]
        ELSE IF e.count = UcharMax THEN [t EXCEPT !.st = "error"]
        ELSE [t EXCEPT !.elems[i] = Elem(p, e.count + 1, e.next)]

TrUp(t, i) ==
    IF t.elems[i].count = UcharMax THEN [t EXCEPT !.st = "error"]
    ELSE [t EXCEPT !.elems[i].count = @ + 1]

\* A number smaller than all: it "overflows" when there is no slot left.
TrTail(t, order, p) ==
    IF t.mask = 0 .. TrMax - 1 THEN t
    ELSE LET idx == FreeSlot(t.mask)
         IN  [t EXCEPT !.mask = @ \cup {idx}, !.elems[idx] = Elem(p, 1, 0),
                       !.elems[Last(order)].next = idx]

\* Mutant: the range before the last one still points to the slot.
TrBeforeOrphan(t, order, k, p) ==
    LET idx == IF t.mask = 0 .. TrMax - 1 THEN Last(order) ELSE FreeSlot(t.mask)
    IN  [t EXCEPT !.mask = @ \cup {idx}, !.elems =
            IF k = 1 THEN [@ EXCEPT ![idx] = t.elems[0], ![0] = Elem(p, 1, idx)]
            ELSE [@ EXCEPT ![idx] = Elem(p, 1, t.elems[order[k - 1]].next),
                           ![order[k - 1]].next = idx]]

\* Insert before the k-th range: into a free slot or that of the last range.
\* A new head takes slot 0 and moves the old one.
TrBefore(t, order, k, p) ==
    LET full == t.mask = 0 .. TrMax - 1
        idx == IF full THEN Last(order) ELSE FreeSlot(t.mask)
        els == IF full THEN [t.elems EXCEPT ![order[Len(order) - 1]].next = 0]
                       ELSE t.elems
    IN  [t EXCEPT !.mask = @ \cup {idx}, !.elems =
            IF k = 1 THEN [els EXCEPT ![idx] = els[0], ![0] = Elem(p, 1, idx)]
            ELSE [els EXCEPT ![idx] = Elem(p, 1, els[order[k - 1]].next),
                             ![order[k - 1]].next = idx]]

TrInsert(t, p) ==
    IF t.mask = {} THEN [t EXCEPT !.mask = {0}, !.elems[0] = Elem(p, 1, 0)]
    ELSE LET order == Chain(t.elems, 0, 0)
             k == Position(t.elems, order, p)
             i == order[k]
         IN  CASE k = 0                          -> TrTail(t, order, p)
               [] k # 0 /\ p > High(t.elems[i]) + 1 -> TrBefore(t, order, k, p)
               [] k # 0 /\ p = t.elems[i].low - 1   -> TrDown(t, i, p)
               [] k # 0 /\ p = High(t.elems[i]) + 1 -> TrUp(t, i)
               [] OTHER                          -> t
-----------------------------------------------------------------------------
\* lsquic_rechist.c.  elems is what is allocated.

RhInit == [elems |-> <<>>, mask |-> {}, used |-> 0, head |-> 0, cutoff |-> 0]

RhOrder(r) == IF r.used = 0 THEN <<>> ELSE Chain(r.elems, r.head, None)

Grow(r) ==
    LET n == Cardinality(DOMAIN r.elems)
        m == Min({MaxRanges, IF n = 0 THEN FirstElems ELSE 2 * n})
    IN  [r EXCEPT !.elems = [i \in 0 .. m - 1 |-> IF i < n THEN r.elems[i] ELSE Blank]]

TakeSlot(r) ==
    LET idx == FreeSlot(r.mask)
    IN  [ok |-> TRUE, idx |-> idx,
         r |-> [r EXCEPT !.mask = @ \cup {idx}, !.used = @ + 1]]

\* The array is full: the last range is the one slot without a next.
ReuseLast(r) ==
    LET last == Min({i \in DOMAIN r.elems : r.elems[i].next = None})
        penultimate == Min({i \in DOMAIN r.elems : r.elems[i].next = last})
    IN  [ok |-> TRUE, idx |-> last, r |-> [r EXCEPT !.elems[penultimate].next = None]]

\* mem: whether realloc() succeeds.
AllocElem(r, mem) ==
    IF r.used # Cardinality(DOMAIN r.elems) THEN TakeSlot(r)
    ELSE IF r.used >= MaxRanges THEN ReuseLast(r)
    ELSE IF mem THEN TakeSlot(Grow(r))
    ELSE [ok |-> FALSE, idx |-> None, r |-> r]

FreeElem(r, idx) ==
    [r EXCEPT !.mask = @ \ {idx}, !.used = @ - 1, !.elems[idx] = Blank]

Ok(r) == [st |-> "ok", r |-> r]
Err(r) == [st |-> "err", r |-> r]

\* Take a slot for p after slot prev (None: as the head), linked to next.
AddElem(r, p, prev, next, mem) ==
    LET a == AllocElem(r, mem)
        els == [a.r.elems EXCEPT ![a.idx] = Elem(p, 1, next)]
    IN  IF ~a.ok THEN Err(r)
        ELSE IF prev = None THEN Ok([a.r EXCEPT !.elems = els, !.head = a.idx])
        ELSE Ok([a.r EXCEPT !.elems = [els EXCEPT ![prev].next = a.idx]])

ReplaceLast(r, i, p) == Ok([r EXCEPT !.elems[i] = Elem(p, 1, None)])

RhDown(r, i, p) ==
    LET e == r.elems[i]
        x == r.elems[e.next]
    IN  IF e.next # None /\ p = High(x) + 1
        THEN Ok([FreeElem(r, e.next) EXCEPT
                     !.elems[i] = Elem(x.low, e.count + 1 + x.count, x.next)])
        ELSE Ok([r EXCEPT !.elems[i] = Elem(p, e.count + 1, e.next)])

RhBefore(r, order, k, p, mem) ==
    IF k = Len(order) /\ r.used >= MaxRanges THEN ReplaceLast(r, order[k], p)
    ELSE AddElem(r, p, IF k = 1 THEN None ELSE order[k - 1], order[k], mem)

RhTail(r, order, p, mem) ==
    IF r.used >= MaxRanges THEN ReplaceLast(r, Last(order), p)
    ELSE AddElem(r, p, Last(order), None, mem)

Received(r, p, mem) ==
    LET order == RhOrder(r)
        k == Position(r.elems, order, p)
        i == order[k]
    IN  CASE r.used = 0 /\ p < r.cutoff -> Err(r)
          [] r.used = 0 /\ p >= r.cutoff -> AddElem(r, p, None, None, mem)
          [] r.used # 0 /\ p < r.cutoff -> [st |-> "dup", r |-> r]
          [] r.used # 0 /\ p >= r.cutoff /\ k = 0 -> RhTail(r, order, p, mem)
          [] OTHER ->
             CASE p > High(r.elems[i]) + 1 -> RhBefore(r, order, k, p, mem)
               [] p = r.elems[i].low - 1 -> RhDown(r, i, p)
               [] p = High(r.elems[i]) + 1 -> Ok([r EXCEPT !.elems[i].count = @ + 1])
               [] OTHER -> [st |-> "dup", r |-> r]

\* Mutant: the number at the cutoff is forgotten too.
StopWaitPast(r, c) ==
    LET gone == {i \in ToSet(RhOrder(r)) : c >= High(r.elems[i])}
    IN  [r EXCEPT !.cutoff = c, !.mask = @ \ gone, !.used = @ - Cardinality(gone)]

\* Forget what is below c.  When nothing is left the head stays as it is.
StopWait(r, c) ==
    LET order == RhOrder(r)
        kept == {i \in ToSet(order) : c <= High(r.elems[i])}
        gone == ToSet(order) \ kept
        last == order[Cardinality(kept)]
        low == Max({c, r.elems[last].low})
    IN  IF c <= r.cutoff THEN r
        ELSE [r EXCEPT !.cutoff = c, !.mask = @ \ gone,
                       !.used = @ - Cardinality(gone),
                       !.elems = [i \in DOMAIN @ |->
                           IF i \in gone THEN Blank
                           ELSE IF kept # {} /\ i = last
                           THEN Elem(low, High(@[i]) - low + 1, None)
                           ELSE @[i]]]

CopyRanges(ranges) ==
    LET add(r, g) ==
            LET a == AllocElem(r, TRUE)
                els == [a.r.elems EXCEPT
                            ![a.idx] = Elem(g[1], g[2] - g[1] + 1, None)]
            IN  IF r.used >= MaxRanges THEN r
                ELSE IF r.used = 0 THEN [a.r EXCEPT !.elems = els, !.head = a.idx]
                ELSE [a.r EXCEPT !.elems =
                          [els EXCEPT ![Last(RhOrder(r))].next = a.idx]]
    IN  FoldLeft(add, RhInit, ranges)
-----------------------------------------------------------------------------
RhStart ==
    /\ phase \in {"bits", "full"}
    /\ bits = {} /\ tr = TrInit /\ rh = RhInit
    /\ arrival = None /\ tops = {} /\ seen = {}

\* tops: earlier ACKs than the one that moved the cutoff change nothing.
Topped(p) == IF arrival = None \/ p > arrival THEN tops \cup {p} ELSE tops

\* A mini connection decrypts packet p: ietf_mini_conn_ci_packet_in().
MiniPacketIn(p) ==
    LET tiny == phase = "tiny" \/ p > MaxBit
        t == IF phase = "bits" /\ tiny THEN TrCopy(BitRanges(bits)) ELSE tr
        largest == IF tiny THEN t.mask = {} \/ p > High(t.elems[0])
                           ELSE bits = {} \/ p > Max(bits)
        dup == IF tiny THEN TrContains(t, p) ELSE p \in bits
        t1 == TrInsert(t, p)
        s == seen \cup {p}
    IN  /\ phase \in {"bits", "tiny"}
        /\ bits' = IF tiny THEN {} ELSE bits \cup {p}
        /\ UNCHANGED rh
        /\ \/ /\ dup
              /\ phase' = IF tiny THEN "tiny" ELSE phase
              /\ tr' = t
              /\ UNCHANGED <<arrival, tops, seen>>
           \/ /\ ~dup
              /\ tr' = IF tiny THEN t1 ELSE tr
              /\ phase' = CASE ~tiny -> "bits"
                            [] tiny /\ t1.st = "ok" -> "tiny"
                            [] tiny /\ t1.st = "error" -> "closed"
                            [] OTHER -> "wrapped"
              /\ arrival' = IF largest THEN p ELSE arrival
              /\ tops' = Topped(p)
              /\ seen' = IF tiny /\ Cardinality(Runs(s)) > TrMax
                         THEN s \ LowestRun(s) ELSE s

\* The handshake is over: lsquic_ietf_full_conn_server_new() copies the ranges.
Promote ==
    LET ranges == IF phase = "tiny" THEN TrRanges(tr) ELSE BitRanges(bits)
        kept == SubSeq(BitRanges(seen), 1, Min({MaxRanges, Cardinality(Runs(seen))}))
    IN  /\ phase \in {"bits", "tiny"}
        /\ phase' = "full"
        /\ rh' = CopyRanges(ranges)
        /\ bits' = {} /\ tr' = TrInit
        /\ seen' = UNION {g[1] .. g[2] : g \in ToSet(kept)}
        /\ UNCHANGED <<arrival, tops>>

\* A full connection decrypts packet p: process_regular_packet().  When p has an
\* ACK of a packet whose own ACK went up to a, process_ack() lets go of all up to
\* a.  The peer sent a before it received that ACK, and p after: a < p.
FullPacketIn(p, a, mem) ==
    LET got == Received(rh, p, mem)
        s == seen \cup {p}
        r1 == IF a = 0 THEN got.r ELSE StopWait(got.r, Max({a + 1, rh.cutoff}))
        fits == Cardinality(Runs(s)) <= MaxRanges
    IN  /\ phase = "full"
        /\ a = 0 \/ a < p
        /\ arrival' = IF /\ rh.used = 0 => got.st = "ok"
                         /\ rh.used # 0 => p > High(rh.elems[rh.head])
                      THEN p ELSE arrival
        /\ UNCHANGED <<bits, tr>>
        /\ \/ got.st = "dup" /\ UNCHANGED <<phase, rh, tops, seen>>
           \/ got.st = "err" /\ phase' = "closed" /\ UNCHANGED <<rh, tops, seen>>
           \/ /\ got.st = "ok"
              /\ rh' = r1
              /\ tops' = {x \in Topped(p) : x >= r1.cutoff}
              /\ seen' = {x \in IF fits THEN s ELSE (seen \ LowestRun(seen)) \cup {p} :
                              x >= r1.cutoff}
              /\ UNCHANGED phase

\* realloc() may fail, where it is called.
Memory == IF rh.used = Cardinality(DOMAIN rh.elems) /\ rh.used < MaxRanges
          THEN BOOLEAN ELSE {TRUE}

RhNext ==
    \/ \E p \in Packno : MiniPacketIn(p)
    \/ Promote
    \/ \E p \in Packno, a \in tops \cup {0}, mem \in Memory : FullPacketIn(p, a, mem)
RhSpec == RhStart /\ [][RhNext]_rhVars
-----------------------------------------------------------------------------
\* The types of the state.
RhTypeOK ==
    /\ phase \in {"bits", "tiny", "full", "closed", "wrapped"}
    /\ bits \subseteq 0 .. MaxBit
    /\ tr.mask \subseteq 0 .. TrMax - 1
    /\ rh.mask \subseteq DOMAIN rh.elems /\ DOMAIN rh.elems \subseteq 0 .. MaxRanges - 1
    /\ arrival \in Packno \cup {None}
    /\ tops \subseteq Packno /\ seen \subseteq Packno

\* The list holds exactly the numbers it is meant to hold, as maximal ranges from
\* the highest down, and the mask and the count are those of the slots in the
\* list: what rechist_test_sanity() asserts in unit tests, and what the list is
\* for.  "Meant to hold" is all that was accepted, without what is below the
\* cutoff and what made room at the limit.  Not when a merged range of the tiny
\* history wrapped around its count: then the phase is "wrapped".
HistoryExact ==
    /\ phase = "bits" => bits = seen
    /\ phase = "tiny" =>
          /\ TrRanges(tr) = BitRanges(seen)
          /\ tr.mask = IF seen = {} THEN {} ELSE ToSet(Chain(tr.elems, 0, 0))
    /\ phase = "full" =>
          /\ RangesOf(rh.elems, RhOrder(rh)) = BitRanges(seen)
          /\ rh.mask = ToSet(RhOrder(rh))
          /\ rh.used = Cardinality(rh.mask)

\* Once a packet was received, there is one to acknowledge, and the time from
\* which the ACK delay is counted is the arrival of the largest number in the
\* history: cutting off what was acknowledged never empties the list (a late
\* packet would then be an error that ends the connection), nor does making room
\* take its head.
AckHasBase ==
    arrival # None =>
        /\ phase = "bits" => bits # {} /\ arrival = Max(bits)
        /\ phase = "tiny" => tr.mask # {} /\ arrival = High(tr.elems[0])
        /\ phase = "full" => rh.used # 0 /\ arrival = High(rh.elems[rh.head])
=============================================================================
