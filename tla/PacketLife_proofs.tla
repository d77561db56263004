-------------------------- MODULE PacketLife_proofs --------------------------
(***************************************************************************)
(* For every set of packets: the invariants of PacketLife hold of every    *)
(* behaviour.  The inductive invariant adds that no number on record lies  *)
(* above the largest number used: this is what makes a new number fresh.   *)
(***************************************************************************)
EXTENDS PacketLife, FiniteSetTheorems, TLAPS

BelowLast == \A p \in Pkt : \A n \in chain[p] : n <= last

IInv == TypeOK /\ InFlightExact /\ ChainsApart /\ NewestFlies /\ BelowLast

\* Packet numbers are positive: 0 stands for none.
LEMMA NumbersPositive == Numbers \subseteq Nat \ {0}
BY DEF Numbers

\* Counting with and without the part of a finite set that is removed.
LEMMA SplitCount ==
    ASSUME NEW C, IsFiniteSet(C), NEW R
    PROVE  /\ IsFiniteSet(C \ R)
           /\ Cardinality(C) = Cardinality(C \ R) + Cardinality(C \cap R)
           /\ Cardinality(C \cap R) \in Nat /\ Cardinality(C \ R) \in Nat
<1>1. IsFiniteSet(C \ R) /\ IsFiniteSet(C \cap R)
  BY FS_Subset
<1>2. (C \ R) \cap (C \cap R) = {} /\ (C \ R) \cup (C \cap R) = C
  OBVIOUS
<1>3. Cardinality((C \ R) \cup (C \cap R)) =
         Cardinality(C \ R) + Cardinality(C \cap R) - Cardinality((C \ R) \cap (C \cap R))
  BY <1>1, FS_Union
<1>4. Cardinality((C \ R) \cap (C \cap R)) = 0
  <2>1. Cardinality({}) = 0
    BY FS_EmptySet
  <2>2. QED
    BY <1>2, <2>1
<1>5. Cardinality(C \cap R) \in Nat /\ Cardinality(C \ R) \in Nat
  BY <1>1, FS_CardinalityType
<1>6. Cardinality((C \ R) \cup (C \cap R)) = Cardinality(C)
  BY <1>2
<1>7. Cardinality(C) = Cardinality(C \ R) + Cardinality(C \cap R)
  BY <1>3, <1>4, <1>5, <1>6
<1>8. QED
  BY <1>1, <1>5, <1>7

\* Sending adds one fresh transmission to the chain of one packet.
LEMMA SendStep ==
    ASSUME IInv, NEW p \in Pkt, NEW n \in Numbers, Send(p, n)
    PROVE  IInv'
<1>1. n > last /\ n \in Numbers /\ n \notin counted
  BY NumbersPositive DEF IInv, TypeOK, InFlightExact, BelowLast, Send
<1>2. /\ IsFiniteSet(counted')
      /\ Cardinality(counted') = Cardinality(counted) + 1
  BY <1>1, FS_AddElement DEF IInv, TypeOK, Send
<1>3. TypeOK'
  BY <1>1, <1>2 DEF IInv, TypeOK, Send
<1>4. chain'[p] = chain[p] \cup {n} /\ \A q \in Pkt : q # p => chain'[q] = chain[q]
  BY DEF IInv, TypeOK, Send
<1>5. InFlightExact'
  <2>1. \A q \in Pkt : chain[q] \subseteq chain'[q]
    BY <1>4
  <2>2. counted' \subseteq UNION {chain'[q] : q \in Pkt}
    BY <2>1, <1>4 DEF IInv, InFlightExact, Send
  <2>3. QED
    BY <1>2, <2>2 DEF IInv, InFlightExact, Send
<1>6. ChainsApart'
  <2>1. \A q \in Pkt : n \notin chain[q]
    BY NumbersPositive, <1>1 DEF IInv, TypeOK, BelowLast
  <2>2. QED
    BY <2>1, <1>4 DEF IInv, TypeOK, ChainsApart, Send
<1>7. NewestFlies'
  BY NumbersPositive, <1>1, <1>4 DEF IInv, TypeOK, NewestFlies, BelowLast, Send
<1>8. BelowLast'
  BY NumbersPositive, <1>1, <1>4 DEF IInv, TypeOK, BelowLast, Send
<1>9. QED
  BY <1>3, <1>5, <1>6, <1>7, <1>8 DEF IInv

\* Losing a packet takes at most the transmission it flew under off the count;
\* by ChainsApart that is nobody else's.
LEMMA LoseStep ==
    ASSUME IInv, NEW p \in Pkt, NEW keep \in BOOLEAN, Lose(p, keep)
    PROVE  IInv'
<1>1. at[p] \in counted /\ at[p] \in chain[p]
  BY DEF IInv, NewestFlies, Lose
<1>2. /\ IsFiniteSet(counted \ {at[p]})
      /\ Cardinality(counted \ {at[p]}) = Cardinality(counted) - 1
  BY <1>1, FS_RemoveElement DEF IInv, TypeOK
<1>3. Cardinality(counted) \in Nat /\ Cardinality(counted \ {at[p]}) \in Nat
  BY <1>2, FS_CardinalityType DEF IInv, TypeOK
<1>4. TypeOK' /\ InFlightExact'
  BY <1>2, <1>3 DEF IInv, TypeOK, InFlightExact, Lose
<1>5. ChainsApart' /\ BelowLast'
  BY DEF IInv, TypeOK, ChainsApart, BelowLast, Lose
<1>6. NewestFlies'
  <2>1. SUFFICES ASSUME NEW q \in Pkt, where'[q] = "flying"
                 PROVE  /\ at'[q] \in chain'[q] \cap counted'
                        /\ \A n \in chain'[q] : n <= at'[q]
    BY DEF NewestFlies
  <2>2. q # p /\ where[q] = "flying" /\ at'[q] = at[q] /\ chain'[q] = chain[q]
    BY <2>1 DEF IInv, TypeOK, Lose
  <2>3. at[q] # at[p]
    BY <2>2, <1>1 DEF IInv, ChainsApart, NewestFlies
  <2>4. QED
    BY <2>2, <2>3 DEF IInv, NewestFlies, Lose
<1>7. QED
  BY <1>4, <1>5, <1>6 DEF IInv

\* Settling packets removes their chains; what the others own is untouched.
LEMMA SettleStep ==
    ASSUME IInv, NEW S \in SUBSET Pkt, Settle(S)
    PROVE  IInv'
<1> DEFINE R == UNION {chain[p] : p \in S}
<1>1. /\ counted' = counted \ R
      /\ inflight' = inflight - Cardinality(counted \cap R)
      /\ last' \in Numbers \cup {0} /\ last' >= last
  BY NumbersPositive DEF Settle, IInv, TypeOK
<1>2. \A q \in Pkt : /\ q \in S => chain'[q] = {} /\ where'[q] = "free" /\ at'[q] = 0
                     /\ q \notin S => /\ chain'[q] = chain[q]
                                      /\ where'[q] = where[q] /\ at'[q] = at[q]
  BY DEF Settle
<1>3. /\ IsFiniteSet(counted \ R)
      /\ Cardinality(counted) = Cardinality(counted \ R) + Cardinality(counted \cap R)
      /\ Cardinality(counted \cap R) \in Nat /\ Cardinality(counted \ R) \in Nat
  BY SplitCount DEF IInv, TypeOK
<1>4. inflight' = Cardinality(counted') /\ inflight' \in Nat
  BY <1>1, <1>3 DEF IInv, TypeOK, InFlightExact
<1>5. TypeOK'
  BY <1>1, <1>3, <1>4 DEF IInv, TypeOK, Settle
<1>6. InFlightExact'
  <2>1. SUFFICES ASSUME NEW n \in counted' PROVE \E q \in Pkt : n \in chain'[q]
    BY <1>4 DEF InFlightExact
  <2>2. PICK q \in Pkt : n \in chain[q]
    BY <1>1 DEF IInv, InFlightExact
  <2>3. q \notin S
    BY <2>2, <1>1
  <2>4. QED
    BY <2>2, <2>3, <1>2
<1>7. ChainsApart' /\ BelowLast'
  <2>1. ChainsApart'
    BY <1>2 DEF IInv, ChainsApart
  <2>2. ASSUME NEW q \in Pkt, NEW n \in chain'[q] PROVE n <= last'
    <3>0. n \in chain[q]
      BY <1>2, <2>2
    <3>1. n \in Nat /\ last \in Nat /\ last' \in Nat
      BY <3>0, <1>1, NumbersPositive DEF IInv, TypeOK
    <3>2. n <= last
      BY <3>0 DEF IInv, BelowLast
    <3>3. QED
      BY <3>1, <3>2, <1>1
  <2>3. QED
    BY <2>1, <2>2 DEF BelowLast
<1>8. NewestFlies'
  <2>1. SUFFICES ASSUME NEW q \in Pkt, where'[q] = "flying"
                 PROVE  /\ at'[q] \in chain'[q] \cap counted'
                        /\ \A n \in chain'[q] : n <= at'[q]
    BY DEF NewestFlies
  <2>2. q \notin S /\ where[q] = "flying" /\ chain'[q] = chain[q] /\ at'[q] = at[q]
    BY <2>1, <1>2
  <2>3. at[q] \notin R
    BY <2>2 DEF IInv, ChainsApart, NewestFlies
  <2>4. QED
    BY <2>2, <2>3, <1>1 DEF IInv, NewestFlies
<1>9. QED
  BY <1>5, <1>6, <1>7, <1>8 DEF IInv

\* The inductive invariant holds of every behaviour.
THEOREM LifeInvariant == Spec => []IInv
<1>1. Init => IInv
  BY FS_EmptySet DEF Init, IInv, TypeOK, InFlightExact, ChainsApart, NewestFlies, BelowLast
<1>2. IInv /\ [Next]_vars => IInv'
  <2> SUFFICES ASSUME IInv, [Next]_vars PROVE IInv'
    OBVIOUS
  <2>1. ASSUME NEW p \in Pkt, Enqueue(p) \/ Requeue(p) PROVE IInv'
    <3>1. /\ chain' = chain /\ at' = at /\ counted' = counted
          /\ inflight' = inflight /\ last' = last
          /\ \A q \in Pkt : q # p => where'[q] = where[q]
          /\ where'[p] = "queued"
          /\ where' \in [Pkt -> {"free", "queued", "flying", "lost"}]
      BY <2>1 DEF IInv, TypeOK, Enqueue, Requeue
    <3>2. TypeOK' /\ InFlightExact' /\ BelowLast'
      BY <3>1 DEF IInv, TypeOK, InFlightExact, BelowLast
    <3>3. ChainsApart' /\ NewestFlies'
      BY <3>1 DEF IInv, ChainsApart, NewestFlies
    <3>4. QED
      BY <3>2, <3>3 DEF IInv
  <2>2. ASSUME NEW p \in Pkt, NEW n \in Numbers, Send(p, n) PROVE IInv'
    BY <2>2, SendStep
  <2>3. ASSUME NEW p \in Pkt, NEW keep \in BOOLEAN, Lose(p, keep) PROVE IInv'
    BY <2>3, LoseStep
  <2>4. ASSUME NEW S \in SUBSET Pkt, Settle(S) PROVE IInv'
    BY <2>4, SettleStep
  <2>5. CASE UNCHANGED vars
    BY <2>5 DEF vars, IInv, TypeOK, InFlightExact, ChainsApart, NewestFlies, BelowLast
  <2>6. QED
    BY <2>1, <2>2, <2>3, <2>4, <2>5 DEF Next
<1>3. QED
  BY <1>1, <1>2, PTL DEF Spec

\* The types of the packet queues, for every set of packet objects.
THEOREM LifeTypeOK == Spec => []TypeOK
<1>1. IInv => TypeOK
  BY DEF IInv
<1>2. QED
  BY <1>1, LifeInvariant, PTL

\* The in-flight counter counts the transmissions in flight, whatever the order
\* of sending, losing, duplicating and settling packets.
THEOREM LifeInFlightExact == Spec => []InFlightExact
<1>1. IInv => InFlightExact
  BY DEF IInv
<1>2. QED
  BY <1>1, LifeInvariant, PTL

\* Loss chains never share a transmission and never outlive their packet.
THEOREM LifeChainsApart == Spec => []ChainsApart
<1>1. IInv => ChainsApart
  BY DEF IInv
<1>2. QED
  BY <1>1, LifeInvariant, PTL

\* A packet in flight is in flight under its newest number.
THEOREM LifeNewestFlies == Spec => []NewestFlies
<1>1. IInv => NewestFlies
  BY DEF IInv
<1>2. QED
  BY <1>1, LifeInvariant, PTL

\* The three together, the statement that TLC checks on an instance.
THEOREM LifeSafety == Spec => []LifeSafe
<1>1. IInv => LifeSafe
  BY DEF IInv, LifeSafe
<1>2. QED
  BY <1>1, LifeInvariant, PTL

\* Packet numbers are never reused.
THEOREM LifeNumbersFresh == Spec => NumbersFresh
<1>1. IInv /\ [Next]_vars => [\A p \in Pkt : \A n \in chain'[p] \ chain[p] : n > last]_vars
  <2> SUFFICES ASSUME IInv, Next, NEW q \in Pkt, NEW m \in chain'[q] \ chain[q]
               PROVE  m > last
    OBVIOUS
  <2>1. ASSUME NEW p \in Pkt, Enqueue(p) \/ Requeue(p) PROVE FALSE
    BY <2>1 DEF Enqueue, Requeue
  <2>2. ASSUME NEW p \in Pkt, NEW n \in Numbers, Send(p, n) PROVE m > last
    BY <2>2 DEF IInv, TypeOK, Send
  <2>3. ASSUME NEW p \in Pkt, NEW keep \in BOOLEAN, Lose(p, keep) PROVE FALSE
    BY <2>3 DEF Lose
  <2>4. ASSUME NEW S \in SUBSET Pkt, Settle(S) PROVE FALSE
    BY <2>4 DEF IInv, TypeOK, Settle
  <2>5. QED
    BY <2>1, <2>2, <2>3, <2>4 DEF Next
<1>2. QED
  BY <1>1, LifeInvariant, PTL DEF Spec, NumbersFresh
=============================================================================
