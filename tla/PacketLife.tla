----------------------------- MODULE PacketLife -----------------------------
(***************************************************************************)
(* What the send controller promises about the life of a packet: it is     *)
(* queued, flies under a fresh number, may be lost and queued again any    *)
(* number of times, and is settled once, with everything that was recorded *)
(* on its behalf.  SendCtl implements this specification.                  *)
(***************************************************************************)
EXTENDS Integers, FiniteSets

CONSTANTS Pkt,   \* packet objects
          MaxNo  \* the largest packet number

Numbers == 1 .. MaxNo

VARIABLES where,     \* the queue a packet is on
          chain,     \* outstanding transmissions of a packet, by number
          at,        \* the number a flying packet flies under, else 0
          counted,   \* transmissions counted as in flight
          inflight,  \* the counter
          last       \* the largest number used so far

vars == <<where, chain, at, counted, inflight, last>>

Init ==
    /\ where = [p \in Pkt |-> "free"]
    /\ chain = [p \in Pkt |-> {}]
    /\ at = [p \in Pkt |-> 0]
    /\ counted = {} /\ inflight = 0 /\ last = 0

\* A packet object is taken from the pool and scheduled
Enqueue(p) ==
    /\ where[p] = "free"
    /\ where' = [where EXCEPT ![p] = "queued"]
    /\ UNCHANGED <<chain, at, counted, inflight, last>>

\* Mutant: the number may be an old one.
SendOld(p, n) ==
    /\ where[p] = "queued"
    /\ where' = [where EXCEPT ![p] = "flying"]
    /\ chain' = [chain EXCEPT ![p] = @ \cup {n}]
    /\ at' = [at EXCEPT ![p] = n]
    /\ counted' = counted \cup {n} /\ inflight' = inflight + 1
    /\ last' = IF n > last THEN n ELSE last

\* It is sent under a number that was never used
Send(p, n) ==
    /\ where[p] = "queued" /\ n > last
    /\ where' = [where EXCEPT ![p] = "flying"]
    /\ chain' = [chain EXCEPT ![p] = @ \cup {n}]
    /\ at' = [at EXCEPT ![p] = n]
    /\ counted' = counted \cup {n} /\ inflight' = inflight + 1
    /\ last' = n

\* It is taken for lost; the transmission stays on record, and is still in
\* flight if it is one of several duplicates
Lose(p, keep) ==
    /\ where[p] = "flying"
    /\ where' = [where EXCEPT ![p] = "lost"]
    /\ at' = [at EXCEPT ![p] = 0]
    /\ counted' = IF keep THEN counted ELSE counted \ {at[p]}
    /\ inflight' = IF keep THEN inflight ELSE inflight - 1
    /\ UNCHANGED <<chain, last>>

\* It is scheduled again
Requeue(p) ==
    /\ where[p] = "lost"
    /\ where' = [where EXCEPT ![p] = "queued"]
    /\ UNCHANGED <<chain, at, counted, inflight, last>>

\* Mutant: only the transmission a packet flies under is settled.
SettleLast(S) ==
    LET R == {at[p] : p \in S} IN
    /\ \A p \in S : where[p] # "free"
    /\ where' = [p \in Pkt |-> IF p \in S THEN "free" ELSE where[p]]
    /\ chain' = [p \in Pkt |-> IF p \in S THEN chain[p] \ R ELSE chain[p]]
    /\ at' = [p \in Pkt |-> IF p \in S THEN 0 ELSE at[p]]
    /\ counted' = counted \ R
    /\ inflight' = inflight - Cardinality(counted \cap R)
    /\ UNCHANGED last

\* Packets are acknowledged or given up, with all of their transmissions.  A
\* number may be used up on this occasion.
Settle(S) ==
    LET R == UNION {chain[p] : p \in S} IN
    /\ \A p \in S : where[p] # "free"
    /\ where' = [p \in Pkt |-> IF p \in S THEN "free" ELSE where[p]]
    /\ chain' = [p \in Pkt |-> IF p \in S THEN {} ELSE chain[p]]
    /\ at' = [p \in Pkt |-> IF p \in S THEN 0 ELSE at[p]]
    /\ counted' = counted \ R
    /\ inflight' = inflight - Cardinality(counted \cap R)
    /\ last' \in {last} \cup {n \in Numbers : n > last}

Next ==
    \/ \E p \in Pkt : Enqueue(p) \/ Requeue(p)
    \/ \E p \in Pkt, n \in Numbers : Send(p, n)
    \/ \E p \in Pkt, keep \in BOOLEAN : Lose(p, keep)
    \/ \E S \in SUBSET Pkt : Settle(S)

Spec == Init /\ [][Next]_vars

-----------------------------------------------------------------------------
\* Types of the abstract state of the packet queues.
TypeOK ==
    /\ where \in [Pkt -> {"free", "queued", "flying", "lost"}]
    /\ chain \in [Pkt -> SUBSET Numbers]
    /\ at \in [Pkt -> Numbers \cup {0}]
    /\ counted \subseteq Numbers /\ IsFiniteSet(counted)
    /\ inflight \in Nat /\ last \in Numbers \cup {0}

\* The in-flight counter of the send controller is the number of transmissions
\* that are counted, and each of those is on record for some packet.
InFlightExact ==
    /\ inflight = Cardinality(counted)
    /\ counted \subseteq UNION {chain[p] : p \in Pkt}

\* No transmission is on record for two packets or for a packet that is gone:
\* an acknowledgement settles exactly one packet.
ChainsApart ==
    /\ \A p, q \in Pkt : p # q => chain[p] \cap chain[q] = {}
    /\ \A p \in Pkt : where[p] = "free" => chain[p] = {}

\* A flying packet flies under the newest of its numbers, and that transmission
\* is counted as in flight.
NewestFlies ==
    \A p \in Pkt : where[p] = "flying" =>
        /\ at[p] \in chain[p] \cap counted
        /\ \A n \in chain[p] : n <= at[p]

\* What the books of the send controller owe to the packets, in one statement:
\* the three above, which rest on each other.
LifeSafe == InFlightExact /\ ChainsApart /\ NewestFlies

\* No packet number is used a second time, not even after its transmission was
\* settled: a late acknowledgement cannot be taken for another packet.
NumbersFresh ==
    [][\A p \in Pkt : \A n \in chain'[p] \ chain[p] : n > last]_vars
=============================================================================
