---------------------------- MODULE ArtFeedback ----------------------------
(***************************************************************************)
(* Adaptive ReTransmission (ART): how many duplicates a lost STREAM packet *)
(* gets.  The send controller keeps a window of the fates of the latest    *)
(* replicas (1: detected lost, 0: acknowledged) and, for each              *)
(* retransmission round, a redundancy that art_duplicate_number() moves up *)
(* or down by one according to the replica loss rate of the window.        *)
(*                                                                         *)
(* The C code compares doubles (rlr > 1 - 1.0/r).  Here the rate is the    *)
(* fraction Num/Den and the comparisons are cross-multiplied: for windows  *)
(* of at most 10 entries and redundancies below 2^16 the two agree.        *)
(***************************************************************************)
EXTENDS Integers, Sequences, FiniteSets

CONSTANTS Packet,        \* STREAM packets that may be lost
          MaxRound,      \* MAX_ROUND_BOUND: size of sc_rounds_map
          Window,        \* MAX_FEEDBACK_WINDOW_SIZE
          MaxRedundancy  \* bound of the model on the values of sc_rounds_map

\* The compiled-in limits are positive; index 0 of sc_rounds_map is never read,
\* and the bound of the model leaves room for every initial value of the map.
ASSUME ArtConstants ==
    /\ MaxRound \in Nat /\ MaxRound >= 2
    /\ Window \in Nat /\ Window >= 1
    /\ MaxRedundancy \in Nat /\ MaxRedundancy >= 2 * MaxRound

VARIABLES window,   \* sc_feedback_window, oldest first
          size,     \* sc_feedback_window_size
          rounds,   \* sc_rounds_map
          times,    \* po_retrans_times of each packet
          need,     \* po_need_retrans_number of each packet
          moved     \* the last change of each redundancy since the window changed

vars == <<window, size, rounds, times, need, moved>>

Round == 1 .. MaxRound - 1

-----------------------------------------------------------------------------
\* art_replica_loss_rate(): the number of 1s over the counter of entries.
Num == Cardinality({i \in DOMAIN window : window[i] = 1})
Den == IF size = 0 THEN 1 ELSE size

\* Mutants: a threshold moved by one.
LowerEager(r) == Num * r <= Den * (r - 1)
RaiseLate(r) == Num * r >= Den * (r - 1)

\* rlr > 1 - 1/r, and rlr <= 1 - 2/r
Raise(r) == Num * r > Den * (r - 1)
Lower(r) == Num * r <= Den * (r - 2)

\* Mutant: the second test is dropped.
AdjustedNoFloor(r) == IF Raise(r) THEN r + 1 ELSE r - 1

\* art_duplicate_number(): the redundancy a round has after a packet reaches it
Adjusted(r) == IF Raise(r) THEN r + 1 ELSE IF Lower(r) THEN r - 1 ELSE r

-----------------------------------------------------------------------------
\* send_ctl_init()
Init == /\ window = << >>
        /\ size = 0
        /\ rounds = [t \in Round |-> 2 * t - 1]
        /\ times = [p \in Packet |-> 0]
        /\ need = [p \in Packet |-> 0]
        /\ moved = [t \in Round |-> "none"]

\* Mutant: the counter is also moved when an entry is reused.
PushCount(fate) ==
    /\ window' = Append(IF size >= Window THEN Tail(window) ELSE window, fate)
    /\ size' = size + 1

\* A fate is recorded: at the limit the oldest entry is reused for it.
Push(fate) ==
    IF size >= Window
    THEN /\ window' = Append(Tail(window), fate)
         /\ UNCHANGED size
    ELSE /\ window' = Append(window, fate)
         /\ size' = size + 1

Record(fate) ==
    /\ Push(fate)
    /\ moved' = [t \in Round |-> "none"]
    /\ UNCHANGED <<rounds, times, need>>

\* send_ctl_record_feedback_loss(): a replica is detected lost.  Which fates follow
\* which is up to the network, so any order is allowed here.
ReplicaLost == Record(1)

\* the same in lsquic_send_ctl_got_ack(): a replica is acknowledged
ReplicaAcked == Record(0)

\* A packet is lost and enters its next round.  The code reads sc_rounds_map at
\* po_retrans_times without a check; the guard is the bound of the model.
NextRound(p) ==
    LET t == times[p] + 1 IN
    /\ t \in Round
    /\ rounds[t] < MaxRedundancy
    /\ times' = [times EXCEPT ![p] = t]
    /\ rounds' = [rounds EXCEPT ![t] = Adjusted(rounds[t])]
    /\ need' = [need EXCEPT ![p] = IF rounds'[t] > 0 THEN rounds'[t] ELSE 1]
    /\ moved' = [moved EXCEPT ![t] = IF rounds'[t] > rounds[t] THEN "up"
                                     ELSE IF rounds'[t] < rounds[t] THEN "down"
                                     ELSE @]
    /\ UNCHANGED <<window, size>>

\* The packet is acknowledged or dropped, and another takes its place
\* (lsquic_packet_out_new() clears the ART fields).
Renew(p) ==
    /\ times[p] > 0
    /\ times' = [times EXCEPT ![p] = 0]
    /\ need' = [need EXCEPT ![p] = 0]
    /\ UNCHANGED <<window, size, rounds, moved>>

Next == \/ ReplicaLost
        \/ ReplicaAcked
        \/ \E p \in Packet : NextRound(p) \/ Renew(p)

Spec == Init /\ [][Next]_vars

-----------------------------------------------------------------------------
\* Types of the feedback window, of sc_rounds_map and of the ART fields of packets.
TypeOK == /\ window \in Seq({0, 1})
          /\ size \in 0 .. Window
          /\ rounds \in [Round -> Int]
          /\ times \in [Packet -> Nat]
          /\ need \in [Packet -> Nat]
          /\ moved \in [Round -> {"none", "up", "down"}]

\* The counter sc_feedback_window_size is the length of the list it stands for
\* and never passes the limit, so the loss rate is a true fraction of the
\* recorded fates and lies between 0 and 1.
WindowExact == size = Len(window) /\ size <= Window

\* Every round always grants at least one duplicate, however many adjustments
\* were made and whatever the window held: a packet in a round never has a need
\* of 0, which would make "retrans >= need" true before the first duplicate.
RedundancyPositive ==
    /\ \A t \in Round : rounds[t] >= 1
    /\ \A p \in Packet : times[p] > 0 => need[p] >= 1

\* The feedback is fit for use: a true loss rate on one side, a redundancy that
\* grants a duplicate on the other.
FeedbackSound == WindowExact /\ RedundancyPositive

\* A redundancy that is already as large as the window grows only when every
\* recorded replica was lost: one acknowledged replica in the window stops the
\* growth, so the number of duplicates cannot run away under partial loss.
GrowthOnlyUnderTotalLoss ==
    [][\A t \in Round : rounds'[t] > rounds[t] /\ rounds[t] >= Window
            => \A i \in DOMAIN window : window[i] = 1]_vars

\* The two thresholds of art_duplicate_number() leave a dead band: as long as no
\* new fate is recorded, a redundancy that went up does not come down again, nor
\* the other way round.
NoOscillation ==
    [][\A t \in Round : /\ moved[t] = "up" => rounds'[t] >= rounds[t]
                        /\ moved[t] = "down" => rounds'[t] <= rounds[t]]_vars
=============================================================================
