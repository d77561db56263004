------------------------ MODULE ArtFeedback_proofs ------------------------
(***************************************************************************)
(* For every window size, number of rounds and set of packets: the window  *)
(* counter is exact, every round grants at least one duplicate, redundancy *)
(* larger than the window grows only under total loss, and the adjustments *)
(* do not oscillate.                                                       *)
(***************************************************************************)
EXTENDS ArtFeedback, FiniteSetTheorems, SequenceTheorems, TLAPS

\* What the last move says of the thresholds, as long as the window stands.
MovedInv == \A t \in Round : /\ moved[t] = "up" => Raise(rounds[t] - 1)
                             /\ moved[t] = "down" => Lower(rounds[t] + 1)

\* The inductive invariant.
IInv == TypeOK /\ WindowExact /\ RedundancyPositive /\ MovedInv

-----------------------------------------------------------------------------
\* The loss rate is a fraction between 0 and 1, and is 1 only when every
\* recorded replica was lost (art_replica_loss_rate()).
LEMMA RateBounds ==
    ASSUME TypeOK, WindowExact
    PROVE  /\ Num \in Nat
           /\ Den \in Nat /\ Den >= 1 /\ Den <= Window
           /\ Num <= Den
           /\ Num = Den => \A i \in DOMAIN window : window[i] = 1
<1> DEFINE Ones == {i \in DOMAIN window : window[i] = 1}
<1>1. DOMAIN window = 1 .. Len(window) /\ Len(window) \in Nat
  BY LenProperties DEF TypeOK
<1>2. IsFiniteSet(1 .. Len(window)) /\ Cardinality(1 .. Len(window)) = Len(window)
  <2>1. \A n \in Nat : IsFiniteSet(1 .. n) /\ Cardinality(1 .. n) = n
    <3> SUFFICES ASSUME NEW n \in Nat
                 PROVE  IsFiniteSet(1 .. n) /\ Cardinality(1 .. n) = n
      OBVIOUS
    <3>1. /\ IsFiniteSet(1 .. n)
          /\ Cardinality(1 .. n) = IF 1 > n THEN 0 ELSE n - 1 + 1
      BY FS_Interval
    <3> QED BY <3>1
  <2> QED BY <1>1, <2>1
<1>3. Ones \in SUBSET (1 .. Len(window))
  BY <1>1
<1>4. /\ IsFiniteSet(Ones)
      /\ Cardinality(Ones) <= Len(window)
      /\ Cardinality(Ones) = Len(window) => Ones = 1 .. Len(window)
  BY <1>2, <1>3, FS_Subset
<1>5. Cardinality(Ones) \in Nat
  BY <1>4, FS_CardinalityType
<1>6. Num = Cardinality(Ones)
  BY DEF Num
<1>7. size = Len(window) /\ size <= Window
  BY DEF WindowExact
<1> HIDE DEF Ones
<1>8. CASE size = 0
  BY <1>1, <1>4, <1>5, <1>6, <1>7, <1>8, ArtConstants DEF Den
<1>9. CASE size # 0
  <2>1. Den = size
    BY <1>9 DEF Den
  <2>2. Num = Den => \A i \in DOMAIN window : window[i] = 1
    <3> SUFFICES ASSUME Num = Den PROVE \A i \in DOMAIN window : window[i] = 1
      OBVIOUS
    <3>1. Ones = 1 .. Len(window)
      BY <2>1, <1>4, <1>6, <1>7
    <3> QED BY <3>1, <1>1 DEF Ones
  <2> QED BY <2>1, <2>2, <1>1, <1>4, <1>5, <1>6, <1>7, <1>9, ArtConstants
<1> QED BY <1>8, <1>9

\* A round that grants one duplicate is never lowered.
LEMMA LowerNeedsTwo ==
    ASSUME TypeOK, WindowExact, NEW r \in Nat, r >= 1, Lower(r)
    PROVE  r >= 2
<1>1. SUFFICES ASSUME r = 1 PROVE FALSE
  OBVIOUS
<1>2. Num \in Nat /\ Den \in Nat /\ Den >= 1
  BY RateBounds
<1>3. Num * 1 <= Den * (1 - 2)
  BY <1>1 DEF Lower
<1> QED BY <1>2, <1>3

\* The two thresholds exclude each other across neighbouring redundancies.
LEMMA DeadBand ==
    ASSUME TypeOK, WindowExact, NEW r \in Int
    PROVE  /\ Raise(r - 1) => ~Lower(r)
           /\ Lower(r + 1) => ~Raise(r)
<1>1. Num \in Nat /\ Den \in Nat
  BY RateBounds
<1>2. ASSUME Raise(r - 1), Lower(r) PROVE FALSE
  <2>1. Num * (r - 1) > Den * ((r - 1) - 1)
    BY <1>2 DEF Raise
  <2>2. Num * r <= Den * (r - 2)
    BY <1>2 DEF Lower
  <2>3. Num * (r - 1) = Num * r - Num
    BY <1>1
  <2>4. (r - 1) - 1 = r - 2 /\ Den * (r - 2) \in Int /\ Num * r \in Int
    BY <1>1
  <2> QED BY <1>1, <2>1, <2>2, <2>3, <2>4
<1>3. ASSUME Lower(r + 1), Raise(r) PROVE FALSE
  <2>1. Num * (r + 1) <= Den * ((r + 1) - 2)
    BY <1>3 DEF Lower
  <2>2. Num * r > Den * (r - 1)
    BY <1>3 DEF Raise
  <2>3. Num * (r + 1) = Num * r + Num
    BY <1>1
  <2>4. (r + 1) - 2 = r - 1 /\ Den * (r - 1) \in Int /\ Num * r \in Int
    BY <1>1
  <2> QED BY <1>1, <2>1, <2>2, <2>3, <2>4
<1> QED BY <1>2, <1>3

\* At a redundancy no smaller than the window, only a rate of 1 raises it.
LEMMA RaiseNeedsTotalLoss ==
    ASSUME TypeOK, WindowExact, NEW r \in Nat, r >= Window, Raise(r)
    PROVE  \A i \in DOMAIN window : window[i] = 1
<1>1. /\ Num \in Nat /\ Den \in Nat /\ Den <= Window /\ Num <= Den
      /\ Num = Den => \A i \in DOMAIN window : window[i] = 1
  BY RateBounds
<1>2. SUFFICES ASSUME Num < Den PROVE FALSE
  BY <1>1
<1>3. Num * r > Den * (r - 1)
  BY DEF Raise
<1>4. Den * (r - 1) = Den * r - Den
  BY <1>1
<1>5. PICK d \in Nat : Den = Num + 1 + d
  <2>1. Den - Num - 1 \in Nat /\ Den = Num + 1 + (Den - Num - 1)
    BY <1>1, <1>2
  <2> QED BY <2>1
<1>6. Den * r = Num * r + r + d * r
  BY <1>1, <1>5
<1>7. d * r \in Nat /\ Num * r \in Nat
  BY <1>1, <1>5
<1> QED BY <1>1, <1>3, <1>4, <1>6, <1>7, ArtConstants

-----------------------------------------------------------------------------
\* Every step of the model preserves the inductive invariant.
LEMMA ArtStep ==
    ASSUME IInv, [Next]_vars
    PROVE  IInv'
<1>0. TypeOK /\ WindowExact /\ RedundancyPositive /\ MovedInv
  BY DEF IInv
<1>1. ASSUME NEW fate \in {0, 1}, Record(fate) PROVE IInv'
  <2> USE <1>1 DEF Record, Push
  <2>1. window' \in Seq({0, 1}) /\ size' \in 0 .. Window /\ size' = Len(window')
    <3>1. CASE size >= Window
      <4>1. window # << >>
        BY <1>0, <3>1, ArtConstants DEF WindowExact, TypeOK
      <4>2. Tail(window) \in Seq({0, 1}) /\ Len(Tail(window)) = Len(window) - 1
        BY <1>0, <4>1, HeadTailProperties DEF TypeOK
      <4>3. window' = Append(Tail(window), fate) /\ size' = size
        BY <3>1
      <4> HIDE <1>1 DEF Record, Push
      <4> QED BY <1>0, <1>1, <4>2, <4>3 DEF TypeOK, WindowExact
    <3>2. CASE ~(size >= Window)
      <4>1. window' = Append(window, fate) /\ size' = size + 1
        BY <3>2
      <4> HIDE <1>1 DEF Record, Push
      <4> QED BY <1>0, <1>1, <4>1, <3>2, ArtConstants DEF TypeOK, WindowExact
    <3> QED BY <3>1, <3>2
  <2>2. TypeOK'
    BY <1>0, <2>1 DEF TypeOK
  <2>3. WindowExact'
    BY <2>1, ArtConstants DEF WindowExact
  <2>4. RedundancyPositive'
    BY <1>0 DEF RedundancyPositive
  <2>5. MovedInv'
    BY DEF MovedInv
  <2> QED BY <2>2, <2>3, <2>4, <2>5 DEF IInv
<1>2. ASSUME NEW p \in Packet, NextRound(p) PROVE IInv'
  <2> DEFINE t == times[p] + 1
             r == rounds[t]
  <2>1. /\ t \in Round
        /\ times' = [times EXCEPT ![p] = t]
        /\ rounds' = [rounds EXCEPT ![t] = Adjusted(r)]
        /\ need' = [need EXCEPT ![p] = IF rounds'[t] > 0 THEN rounds'[t] ELSE 1]
        /\ moved' = [moved EXCEPT ![t] = IF rounds'[t] > rounds[t] THEN "up"
                                         ELSE IF rounds'[t] < rounds[t] THEN "down"
                                         ELSE @]
        /\ window' = window /\ size' = size
    BY <1>2 DEF NextRound
  <2>2. r \in Nat /\ r >= 1
    BY <1>0, <2>1 DEF TypeOK, RedundancyPositive
  <2>3. Adjusted(r) \in Nat /\ Adjusted(r) >= 1
    BY <1>0, <2>2, LowerNeedsTwo DEF Adjusted
  <2>4. rounds'[t] = Adjusted(r)
    BY <1>0, <2>1 DEF TypeOK
  <2> HIDE DEF t, r
  <2>5. TypeOK'
    <3>1. t \in Nat
      BY <2>1 DEF Round
    <3>2. need'[p] \in Nat /\ need' \in [Packet -> Nat]
      BY <1>0, <2>1, <2>3, <2>4 DEF TypeOK
    <3> QED BY <1>0, <2>1, <2>3, <3>1, <3>2 DEF TypeOK
  <2>6. WindowExact'
    BY <1>0, <2>1 DEF WindowExact
  <2>7. RedundancyPositive'
    BY <1>0, <2>1, <2>3, <2>4 DEF RedundancyPositive, TypeOK
  <2>8. MovedInv'
    <3>1. Num' = Num /\ Den' = Den
      BY <2>1 DEF Num, Den
    <3> SUFFICES ASSUME NEW u \in Round
                 PROVE  /\ moved'[u] = "up" => Num * (rounds'[u] - 1) >
                                                Den * ((rounds'[u] - 1) - 1)
                        /\ moved'[u] = "down" => Num * (rounds'[u] + 1) <=
                                                  Den * ((rounds'[u] + 1) - 2)
      BY <3>1 DEF MovedInv, Raise, Lower
    <3>2. /\ moved[u] = "up" => Num * (rounds[u] - 1) > Den * ((rounds[u] - 1) - 1)
          /\ moved[u] = "down" => Num * (rounds[u] + 1) <= Den * ((rounds[u] + 1) - 2)
      BY <1>0 DEF MovedInv, Raise, Lower
    <3>3. CASE u # t
      <4>1. rounds'[u] = rounds[u] /\ moved'[u] = moved[u]
        BY <3>3, <1>0, <2>1 DEF TypeOK
      <4> QED BY <3>2, <4>1
    <3>4. CASE u = t
      <4>1. rounds[u] = r /\ rounds'[u] = Adjusted(r)
        BY <3>4, <2>4 DEF r
      <4>2. moved'[u] = IF Adjusted(r) > r THEN "up"
                        ELSE IF Adjusted(r) < r THEN "down" ELSE moved[u]
        BY <3>4, <1>0, <2>1, <4>1 DEF TypeOK
      <4>3. CASE Raise(r)
        <5>1. Adjusted(r) = r + 1 /\ (r + 1) - 1 = r
          BY <4>3, <2>2 DEF Adjusted
        <5>2. moved'[u] = "up"
          BY <4>2, <5>1, <2>2
        <5> QED BY <4>1, <4>3, <5>1, <5>2 DEF Raise
      <4>4. CASE ~Raise(r) /\ Lower(r)
        <5>1. Adjusted(r) = r - 1 /\ (r - 1) + 1 = r
          BY <4>4, <2>2 DEF Adjusted
        <5>2. moved'[u] = "down"
          BY <4>2, <5>1, <2>2
        <5> QED BY <4>1, <4>4, <5>1, <5>2 DEF Lower
      <4>5. CASE ~Raise(r) /\ ~Lower(r)
        <5>1. Adjusted(r) = r
          BY <4>5 DEF Adjusted
        <5>2. moved'[u] = moved[u]
          BY <4>2, <5>1, <2>2
        <5> QED BY <3>2, <4>1, <5>1, <5>2
      <4> QED BY <4>3, <4>4, <4>5
    <3> QED BY <3>3, <3>4
  <2> QED BY <2>5, <2>6, <2>7, <2>8 DEF IInv
<1>3. ASSUME NEW p \in Packet, Renew(p) PROVE IInv'
  BY <1>0, <1>3 DEF Renew, IInv, TypeOK, WindowExact, RedundancyPositive,
     MovedInv, Raise, Lower, Num, Den
<1>4. CASE UNCHANGED vars
  BY <1>0, <1>4 DEF vars, IInv, TypeOK, WindowExact, RedundancyPositive,
     MovedInv, Raise, Lower, Num, Den
<1> QED BY <1>1, <1>2, <1>3, <1>4 DEF Next, ReplicaLost, ReplicaAcked

\* Every state of ArtFeedback is well typed, with an exact window counter, a
\* positive redundancy in every round and a consistent memory of the last move.
THEOREM ArtInvariant == Spec => []IInv
<1>1. Init => IInv
  <2> SUFFICES ASSUME Init PROVE IInv
    OBVIOUS
  <2> USE DEF Init
  <2>1. TypeOK
    BY ArtConstants DEF TypeOK, Round
  <2>2. WindowExact
    BY ArtConstants DEF WindowExact
  <2>3. RedundancyPositive
    BY ArtConstants DEF RedundancyPositive, Round
  <2>4. MovedInv
    BY DEF MovedInv
  <2> QED BY <2>1, <2>2, <2>3, <2>4 DEF IInv
<1>2. IInv /\ [Next]_vars => IInv'
  BY ArtStep
<1> QED BY <1>1, <1>2, PTL DEF Spec

\* The feedback window counter is exact and bounded in every reachable state.
THEOREM ArtWindowExact == Spec => []WindowExact
<1>1. IInv => WindowExact
  BY DEF IInv
<1> QED BY <1>1, ArtInvariant, PTL

\* Every state is well typed; in particular the loss rate is well defined.
THEOREM ArtTypeOK == Spec => []TypeOK
<1>1. IInv => TypeOK
  BY DEF IInv
<1> QED BY <1>1, ArtInvariant, PTL

\* Every round grants at least one duplicate in every reachable state, for any
\* number of rounds, packets and any window.
THEOREM ArtRedundancyPositive == Spec => []RedundancyPositive
<1>1. IInv => RedundancyPositive
  BY DEF IInv
<1> QED BY <1>1, ArtInvariant, PTL

\* Both together, the statement that TLC checks on an instance.
THEOREM ArtFeedbackSound == Spec => []FeedbackSound
<1>1. IInv => FeedbackSound
  BY DEF IInv, FeedbackSound
<1> QED BY <1>1, ArtInvariant, PTL

\* How one step changes a redundancy: only art_duplicate_number() moves it.
LEMMA RoundsStep ==
    ASSUME IInv, [Next]_vars, NEW t \in Round
    PROVE  /\ rounds'[t] > rounds[t] => Raise(rounds[t])
           /\ rounds'[t] < rounds[t] => ~Raise(rounds[t]) /\ Lower(rounds[t])
<1>0. TypeOK /\ rounds[t] \in Int
  BY DEF IInv, TypeOK
<1>1. ASSUME NEW p \in Packet, NextRound(p)
      PROVE  rounds'[t] = rounds[t] \/ rounds'[t] = Adjusted(rounds[t])
  BY <1>0, <1>1 DEF NextRound, TypeOK
<1>2. ASSUME ~\E p \in Packet : NextRound(p) PROVE rounds'[t] = rounds[t]
  BY <1>2 DEF Next, vars, ReplicaLost, ReplicaAcked, Record, Renew
<1>3. rounds'[t] = rounds[t] \/ rounds'[t] = Adjusted(rounds[t])
  BY <1>1, <1>2
<1> QED BY <1>0, <1>3 DEF Adjusted

\* A redundancy no smaller than the window grows only when the whole window was
\* lost (art_duplicate_number()).
THEOREM ArtGrowth == Spec => GrowthOnlyUnderTotalLoss
<1>1. IInv /\ [Next]_vars =>
        [\A t \in Round : rounds'[t] > rounds[t] /\ rounds[t] >= Window
              => \A i \in DOMAIN window : window[i] = 1]_vars
  <2> SUFFICES ASSUME IInv, [Next]_vars, NEW t \in Round,
                      rounds'[t] > rounds[t], rounds[t] >= Window
               PROVE  \A i \in DOMAIN window : window[i] = 1
    OBVIOUS
  <2>1. Raise(rounds[t])
    BY RoundsStep
  <2>2. TypeOK /\ WindowExact /\ rounds[t] \in Nat
    BY DEF IInv, TypeOK, RedundancyPositive
  <2> QED BY <2>1, <2>2, RaiseNeedsTotalLoss
<1> QED BY <1>1, ArtInvariant, PTL DEF Spec, GrowthOnlyUnderTotalLoss

\* Between two recorded fates a redundancy moves in one direction only.
THEOREM ArtNoOscillation == Spec => NoOscillation
<1>1. IInv /\ [Next]_vars =>
        [\A t \in Round : /\ moved[t] = "up" => rounds'[t] >= rounds[t]
                          /\ moved[t] = "down" => rounds'[t] <= rounds[t]]_vars
  <2> SUFFICES ASSUME IInv, [Next]_vars, NEW t \in Round
               PROVE  /\ moved[t] = "up" => rounds'[t] >= rounds[t]
                      /\ moved[t] = "down" => rounds'[t] <= rounds[t]
    OBVIOUS
  <2>1. TypeOK /\ WindowExact /\ MovedInv /\ rounds[t] \in Int
    BY DEF IInv, TypeOK
  <2>2. rounds'[t] \in Int
    BY ArtStep DEF IInv, TypeOK
  <2>3. moved[t] = "up" => ~Lower(rounds[t])
    BY <2>1, DeadBand DEF MovedInv
  <2>4. moved[t] = "down" => ~Raise(rounds[t])
    BY <2>1, DeadBand DEF MovedInv
  <2> QED BY <2>1, <2>2, <2>3, <2>4, RoundsStep
<1> QED BY <1>1, ArtInvariant, PTL DEF Spec, NoOscillation
=============================================================================
