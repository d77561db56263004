---------------------------- MODULE PacketQueues ----------------------------
(***************************************************************************)
(* The state of the send controller (struct lsquic_send_ctl) and the       *)
(* primitives its handlers share: the queues a packet moves through, loss  *)
(* chains, packet numbering, in-flight counters.                           *)
(*                                                                         *)
(* A packet object (struct lsquic_packet_out) is a member of Pkt.  Every   *)
(* transmission of it has a packet number of its own.  The unacked queue   *)
(* holds, by packet number, the packet itself, the loss records left behind*)
(* by its earlier transmissions, and the poison.  The loss chain of p is   *)
(* the set of entries owned by p.  All packets have the same size, so the  *)
(* byte counters follow the packet counters.                               *)
(***************************************************************************)
EXTENDS Integers, Sequences, FiniteSets, FiniteSetsExt, SequencesExt, Functions

CONSTANTS Pkt,         \* packet objects
          Spaces,      \* packet number spaces in use, "app" among them
          MaxNo,       \* bound of the model on packet numbers
          Modulus,     \* the counters are unsigned: 2^32 in the code
          ReordThresh  \* N_NACKS_BEFORE_RETX

\* The model's bounds: numbers start at 1, the application space is always
\* there, and the wrap-around is out of reach of correct counting.
ASSUME QueueConstants ==
    /\ MaxNo \in Nat /\ ReordThresh \in Nat
    /\ "app" \in Spaces /\ Spaces \subseteq {"init", "hsk", "app"}
    /\ Modulus \in Nat /\ Modulus > 2 * MaxNo

VARIABLES po,         \* the fields of each packet object
          unacked,    \* sc_unacked_packets of all spaces, by packet number
          sched,      \* sc_scheduled_packets
          lost,       \* sc_lost_packets
          out,        \* packets the engine holds in its batch
          cur,        \* sc_cur_packno
          lastSent,   \* sc_senhist.sh_last_sent
          gap,        \* sc_gap, NoGap until optimistic-ACK detection begins
          poison,     \* SC_POISON
          nAll,       \* sc_n_in_flight_all
          nRetx,      \* sc_n_in_flight_retx
          nSched      \* sc_n_scheduled

NoGap == 10 * Modulus   \* UINT64_MAX - 1: a number that is never reached

queues == <<po, unacked, sched, lost, out>>
numbers == <<cur, lastSent, gap, poison>>
counts == <<nAll, nRetx, nSched>>

Kinds == {"stream", "ackstream", "ctl", "hello", "probe", "ack"}

\* lsquic_packet_out_new(): a packet object as it comes from the pool
FreePkt == [kind |-> "free", pns |-> "app", no |-> 0, flags |-> {},
            repack |-> FALSE, enc |-> 0, fake |-> FALSE, dup |-> 0, need |-> 0,
            limited |-> FALSE, reset |-> FALSE]

\* po_frame_types: what the packet carries.  A packet of kind "ack" holds only
\* frames that are regenerated (po_regen_sz = po_data_sz).
HasStream(p) == po[p].kind \in {"stream", "ackstream"}
HasAck(p) == po[p].kind \in {"ack", "ackstream"}
IsProbe(p) == po[p].kind = "probe"
IsRetx(p) == po[p].kind \in Kinds \ {"ack"}

-----------------------------------------------------------------------------
(* The unacked queue.  Its order is the order of the packet numbers.       *)
Regular(n) == unacked[n].t = "pkt"
Record(n) == unacked[n].t = "rec"
SpaceOf(n) == IF unacked[n].t = "poison" THEN "app" ELSE po[unacked[n].p].pns
InSpace(s) == {n \in DOMAIN unacked : SpaceOf(n) = s}
RetxIn(s) == {n \in InSpace(s) : Regular(n) /\ IsRetx(unacked[n].p)}

\* TAILQ_FIRST, TAILQ_NEXT of one space's queue; 0 stands for NULL
MinOf(S) == IF S = {} THEN 0 ELSE Min(S)
MaxOf(S) == IF S = {} THEN 0 ELSE Max(S)
First(s) == MinOf(InSpace(s))
After(n, s) == MinOf({m \in InSpace(s) : m > n})

\* Entries counted in sc_n_in_flight_all: packets, and fake loss records
Counted(n) == Regular(n) \/ (Record(n) /\ unacked[n].fake)

\* Mutant: records of duplicates are left out.
ChainNoFakes(p) == {n \in DOMAIN unacked :
                       /\ unacked[n].t # "poison" /\ unacked[n].p = p
                       /\ ~unacked[n].fake}

\* po_loss_chain: everything the unacked queue holds on behalf of p
Chain(p) == {n \in DOMAIN unacked : unacked[n].t # "poison" /\ unacked[n].p = p}

Without(R) == Restrict(unacked, DOMAIN unacked \ R)
Less(a, b) == (a + Modulus - b) % Modulus

\* Mutant: the saved pointer is not moved off an entry that is destroyed.
AdvanceKeep(n, s, R) == n

\* send_ctl_destroy_chain(): where the caller's saved `next' points after the
\* entries R are destroyed
Advance(n, s, R) == IF n = 0 THEN 0 ELSE MinOf({m \in InSpace(s) \ R : m >= n})

-----------------------------------------------------------------------------
(* Packet numbers.                                                         *)

\* Mutant: the gap is not left out.
NextPacknoNoGap(c) == c + 1

\* send_ctl_next_packno()
NextPackno(c) == IF c + 1 = gap THEN c + 2 ELSE c + 1

IndexIn(q, p) == CHOOSE i \in DOMAIN q : q[i] = p

\* send_ctl_maybe_renumber_sched_to_right(): the packets it marks
RightOf(p) ==
    LET i == IndexIn(sched, p) IN
    IF po[p].repack THEN {}
    ELSE {sched[j] : j \in {k \in i + 1 .. Len(sched) :
                               \A l \in i + 1 .. k : ~po[sched[l]].repack}}

\* ... and the counter it leaves
CurLeftOf(p) == IF po[p].repack THEN cur ELSE po[p].no - 1

Scheduled(p) == "SCHED" \in po[p].flags
WithRepack(f, S) == [p \in Pkt |-> IF p \in S THEN [f[p] EXCEPT !.repack = TRUE]
                                   ELSE f[p]]
=============================================================================
