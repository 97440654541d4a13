---------------------------- MODULE ConsumerProofs ----------------------------
(***************************************************************************)
(* Proofs about the consumer of hash-guided Interests: whatever the        *)
(* network loses, repeats and delays, and however Data, timeouts and       *)
(* transmissions of one sequence number meet.                              *)
(***************************************************************************)
EXTENDS ConsumerHash, FiniteSetTheorems, WellFoundedInduction, TLAPS

\* What the maps and sets of the application hold.
Types ==
  /\ m_active \in BOOLEAN /\ m_sendEvent \in BOOLEAN
  /\ m_seq \in 0 .. MaxSeq
  /\ network \subseteq 0 .. m_seq - 1
  /\ m_seqRetxCounts \in [DOMAIN m_seqRetxCounts -> 1 .. MaxSent]
  /\ m_history \in [DOMAIN m_history -> BOOLEAN]

Inv == Types /\ EveryRequestIsKept /\ RetxIsScheduled /\ MeasuresUnrepeated

------------------------------------------------------------------------------
(* Maps. *)

LEMMA WithoutMap ==
  ASSUME NEW f, NEW S
  PROVE  /\ DOMAIN Without(f, S) = DOMAIN f \ S
         /\ \A x \in DOMAIN f \ S : Without(f, S)[x] = f[x]
  BY DEF Without

LEMMA WithoutType ==
  ASSUME NEW f, NEW S, NEW T, f \in [DOMAIN f -> T]
  PROVE  Without(f, S) \in [DOMAIN Without(f, S) -> T]
  BY DEF Without

LEMMA WithMap ==
  ASSUME NEW f, NEW S, NEW v
  PROVE  /\ DOMAIN With(f, S, v) = DOMAIN f \cup S
         /\ \A x \in DOMAIN f \cup S : With(f, S, v)[x] = IF x \in S THEN v ELSE f[x]
  BY DEF With

LEMMA WithType ==
  ASSUME NEW f, NEW S, NEW T, NEW v \in T, f \in [DOMAIN f -> T]
  PROVE  With(f, S, v) \in [DOMAIN With(f, S, v) -> T]
  BY DEF With

\* SentSeq adds the sequence numbers and marks those that were there.
LEMMA HistoryMap ==
  ASSUME NEW S, SentSeq(S), m_history \in [DOMAIN m_history -> BOOLEAN]
  PROVE  /\ DOMAIN m_history' = DOMAIN m_history \cup S
         /\ m_history' \in [DOMAIN m_history' -> BOOLEAN]
         /\ \A q \in DOMAIN m_history' :
              m_history'[q] <=> q \in DOMAIN m_history /\ (q \in S \/ m_history[q])
  BY DEF SentSeq

------------------------------------------------------------------------------
(* The actions. *)

LEMMA InitInv == Init => Inv
  BY ConsumerAssumption DEF Init, Inv, Types, Empty, EveryRequestIsKept, RetxIsScheduled,
     MeasuresUnrepeated

LEMMA FirstIsMember ==
  ASSUME NEW S \in SUBSET Nat, S # {}
  PROVE  First(S) \in S
  <1>1. PICK x \in S : \A y \in S : <<y, x>> \notin OpToRel(<, Nat)
    BY NatLessThanWellFounded, WFMin, Zenon
  <1>2. \A y \in S : ~(y < x)
    BY <1>1, Zenon DEF OpToRel
  <1>3. \A y \in S : x <= y
    BY <1>2
  <1> QED BY <1>3 DEF First

\* What SendPacket asks for is the next new sequence number or one that waits to
\* be repeated; either way no map knows it as waiting.
LEMMA NextSeqIs ==
  ASSUME Inv, SomethingToSend
  PROVE  /\ NextSeq \in 0 .. MaxSeq - 1
         /\ NextSeq \notin DOMAIN m_seqTimeouts
         /\ IF m_retxSeqs # {} THEN NextSeq \in m_retxSeqs ELSE NextSeq = m_seq /\ m_seq < MaxSeq
  <1>1. CASE m_retxSeqs # {}
    <2>1. m_retxSeqs \subseteq 0 .. m_seq - 1 /\ m_seq \in 0 .. MaxSeq
      BY DEF Inv, Types, EveryRequestIsKept
    <2>2. First(m_retxSeqs) \in m_retxSeqs
      BY <1>1, <2>1, FirstIsMember, ConsumerAssumption
    <2> QED BY <1>1, <2>1, <2>2, ConsumerAssumption DEF NextSeq, Inv, EveryRequestIsKept
  <1>2. CASE m_retxSeqs = {}
    BY <1>2, ConsumerAssumption DEF NextSeq, SomethingToSend, Inv, Types, EveryRequestIsKept
  <1> QED BY <1>1, <1>2

LEMMA SendPacketInv == Inv /\ SendPacket => Inv'
  <1> SUFFICES ASSUME Inv, SendPacket PROVE Inv'
    OBVIOUS
  <1> USE DEF Inv, Types
  <1>1. CASE ~(m_active /\ SomethingToSend)
    <2>1. /\ UNCHANGED <<m_active, requests, m_history, network, answered>>
          /\ m_sendEvent' = FALSE /\ (m_active => m_retxSeqs = {})
      BY <1>1 DEF SendPacket, SomethingToSend
    <2>2. Types'
      BY <2>1 DEF requests
    <2>3. EveryRequestIsKept' /\ RetxIsScheduled' /\ MeasuresUnrepeated'
      BY <2>1 DEF requests, EveryRequestIsKept, RetxIsScheduled, MeasuresUnrepeated
    <2> QED BY <2>2, <2>3
  <1>2. CASE m_active /\ SomethingToSend
    <2> DEFINE q == NextSeq
    <2>0. /\ TakeNextSeq /\ WillSendOutInterest(q) /\ network' = network \cup {q}
          /\ ScheduleNextPacket /\ UNCHANGED <<m_active, answered>>
      BY <1>2 DEF SendPacket
    <2>1. /\ q \in 0 .. MaxSeq - 1 /\ q \notin DOMAIN m_seqTimeouts
          /\ IF m_retxSeqs # {} THEN q \in m_retxSeqs ELSE q = m_seq /\ m_seq < MaxSeq
      BY <1>2, NextSeqIs
    <2> HIDE DEF q
    <2>2. /\ m_seq \in 0 .. MaxSeq /\ m_seq' \in 0 .. MaxSeq /\ m_seq \in Nat /\ MaxSeq \in Nat
          /\ m_retxSeqs' = m_retxSeqs \ {q}
          /\ 0 .. m_seq' - 1 = (0 .. m_seq - 1) \cup {q}
      <3>1. m_seq \in 0 .. MaxSeq /\ m_retxSeqs \subseteq 0 .. m_seq - 1 /\ MaxSeq \in Nat
        BY ConsumerAssumption DEF EveryRequestIsKept
      <3>2. m_retxSeqs' = m_retxSeqs \ {q} /\ m_seq' = IF m_retxSeqs # {} THEN m_seq ELSE m_seq + 1
        BY <2>0 DEF TakeNextSeq, q
      <3> QED BY <3>1, <3>2, <2>1
    <2>3. DOMAIN m_seqTimeouts' = DOMAIN m_seqTimeouts \cup {q}
      BY <2>0, <2>1, WithMap DEF WillSendOutInterest
    <2>4. SentSeq({q})
      BY <2>0 DEF WillSendOutInterest
    <2>5. /\ DOMAIN m_history' = DOMAIN m_history \cup {q}
          /\ m_history' \in [DOMAIN m_history' -> BOOLEAN]
          /\ \A x \in DOMAIN m_history' :
               m_history'[x] <=> x \in DOMAIN m_history /\ (x = q \/ m_history[x])
      BY <2>4, HistoryMap
    <2> DEFINE n == IF q \in DOMAIN m_seqRetxCounts THEN Lesser(MaxSent, m_seqRetxCounts[q] + 1) ELSE 1
    <2>6. n \in 1 .. MaxSent
      BY ConsumerAssumption DEF Lesser
    <2>7. m_seqRetxCounts' = With(m_seqRetxCounts, {q}, n)
      BY <2>0 DEF WillSendOutInterest
    <2>8. q \notin DOMAIN m_history => n = 1
      BY DEF EveryRequestIsKept
    <2> HIDE DEF n
    <2>9. /\ DOMAIN m_seqRetxCounts' = DOMAIN m_seqRetxCounts \cup {q}
          /\ m_seqRetxCounts' \in [DOMAIN m_seqRetxCounts' -> 1 .. MaxSent]
          /\ \A x \in DOMAIN m_seqRetxCounts' :
               m_seqRetxCounts'[x] = IF x = q THEN n ELSE m_seqRetxCounts[x]
      <3> DEFINE f == m_seqRetxCounts
      <3>1. f \in [DOMAIN f -> 1 .. MaxSent] /\ m_seqRetxCounts' = With(f, {q}, n)
        BY <2>7
      <3> HIDE DEF f
      <3>2. With(f, {q}, n) \in [DOMAIN With(f, {q}, n) -> 1 .. MaxSent]
        BY <2>6, <3>1, WithType
      <3>3. /\ DOMAIN With(f, {q}, n) = DOMAIN f \cup {q}
            /\ \A x \in DOMAIN f \cup {q} : With(f, {q}, n)[x] = IF x \in {q} THEN n ELSE f[x]
        BY WithMap
      <3> QED BY <3>1, <3>2, <3>3 DEF f
    <2>10. Types'
      BY <2>0, <2>2, <2>5, <2>9 DEF ScheduleNextPacket
    <2>11. q \notin answered
      <3>1. CASE m_retxSeqs # {}
        BY <3>1, <2>1 DEF EveryRequestIsKept
      <3>2. CASE m_retxSeqs = {}
        BY <3>2, <2>1, <2>2 DEF EveryRequestIsKept
      <3> QED BY <3>1, <3>2
    <2>12. EveryRequestIsKept'
      BY <2>0, <2>2, <2>3, <2>5, <2>9, <2>11 DEF EveryRequestIsKept
    <2>13. RetxIsScheduled'
      BY <2>0 DEF RetxIsScheduled, ScheduleNextPacket
    <2>14. MeasuresUnrepeated'
      BY <2>3, <2>5, <2>8, <2>9 DEF MeasuresUnrepeated, EveryRequestIsKept
    <2> QED BY <2>10, <2>12, <2>13, <2>14
  <1> QED BY <1>1, <1>2

LEMMA CheckRetxTimeoutInv == Inv /\ CheckRetxTimeout => Inv'
  <1> SUFFICES ASSUME Inv, CheckRetxTimeout PROVE Inv'
    OBVIOUS
  <1> USE DEF Inv, Types
  <1> DEFINE S == Expired
  <1>1. S \subseteq DOMAIN m_seqTimeouts
    BY DEF Expired
  <1>2. /\ DOMAIN m_seqTimeouts' = DOMAIN m_seqTimeouts \ S
        /\ m_retxSeqs' = m_retxSeqs \cup S
        /\ SentSeq(S)
        /\ UNCHANGED <<m_active, m_seq, m_seqRetxCounts, network, answered>>
        /\ m_sendEvent' = IF S = {} THEN m_sendEvent ELSE TRUE
    BY DEF CheckRetxTimeout, OnTimeout, ScheduleNextPacket
  <1> HIDE DEF S
  <1>3. /\ DOMAIN m_history' = DOMAIN m_history \cup S
        /\ m_history' \in [DOMAIN m_history' -> BOOLEAN]
        /\ \A x \in DOMAIN m_history' :
             m_history'[x] <=> x \in DOMAIN m_history /\ (x \in S \/ m_history[x])
    BY <1>2, HistoryMap
  <1>4. Types'
    BY <1>2, <1>3
  <1>5. EveryRequestIsKept'
    BY <1>1, <1>2, <1>3 DEF EveryRequestIsKept
  <1>6. RetxIsScheduled'
    BY <1>2 DEF RetxIsScheduled
  <1>7. MeasuresUnrepeated'
    BY <1>1, <1>2, <1>3 DEF MeasuresUnrepeated, EveryRequestIsKept
  <1> QED BY <1>4, <1>5, <1>6, <1>7

LEMMA OnDataInv == ASSUME NEW q PROVE Inv /\ OnData(q) => Inv'
  <1> SUFFICES ASSUME Inv, OnData(q) PROVE Inv'
    OBVIOUS
  <1> USE DEF Inv, Types
  <1>1. q \in network /\ network' \subseteq network /\ UNCHANGED <<m_active, m_sendEvent>>
    BY DEF OnData, Arrive
  <1>2. CASE ~m_active
    BY <1>1, <1>2 DEF OnData, requests, estimator, EveryRequestIsKept, RetxIsScheduled,
       MeasuresUnrepeated
  <1>3. CASE m_active
    <2>1. Forget(q)
      BY <1>3 DEF OnData
    <2>2. /\ DOMAIN m_seqTimeouts' = DOMAIN m_seqTimeouts \ {q}
          /\ m_retxSeqs' = m_retxSeqs \ {q}
          /\ answered' = answered \cup {q} /\ m_seq' = m_seq
      BY <2>1, WithoutMap DEF Forget
    <2>3. /\ DOMAIN m_seqRetxCounts' = DOMAIN m_seqRetxCounts \ {q}
          /\ m_seqRetxCounts' \in [DOMAIN m_seqRetxCounts' -> 1 .. MaxSent]
          /\ \A x \in DOMAIN m_seqRetxCounts' : m_seqRetxCounts'[x] = m_seqRetxCounts[x]
      <3> DEFINE f == m_seqRetxCounts
      <3>1. f \in [DOMAIN f -> 1 .. MaxSent] /\ m_seqRetxCounts' = Without(f, {q})
        BY <2>1 DEF Forget
      <3> HIDE DEF f
      <3>2. Without(f, {q}) \in [DOMAIN Without(f, {q}) -> 1 .. MaxSent]
        BY <3>1, WithoutType
      <3>3. /\ DOMAIN Without(f, {q}) = DOMAIN f \ {q}
            /\ \A x \in DOMAIN f \ {q} : Without(f, {q})[x] = f[x]
        BY WithoutMap
      <3> QED BY <3>1, <3>2, <3>3 DEF f
    <2>4. /\ DOMAIN m_history' = DOMAIN m_history \ {q}
          /\ m_history' \in [DOMAIN m_history' -> BOOLEAN]
          /\ \A x \in DOMAIN m_history' : m_history'[x] = m_history[x]
      <3> DEFINE f == m_history
      <3>1. f \in [DOMAIN f -> BOOLEAN] /\ m_history' = Without(f, {q})
        BY <2>1 DEF Forget, AckSeq
      <3> HIDE DEF f
      <3>2. Without(f, {q}) \in [DOMAIN Without(f, {q}) -> BOOLEAN]
        BY <3>1, WithoutType
      <3>3. /\ DOMAIN Without(f, {q}) = DOMAIN f \ {q}
            /\ \A x \in DOMAIN f \ {q} : Without(f, {q})[x] = f[x]
        BY WithoutMap
      <3> QED BY <3>1, <3>2, <3>3 DEF f
    <2>5. Types'
      BY <1>1, <2>2, <2>3, <2>4
    <2>6. EveryRequestIsKept'
      BY <1>1, <2>2, <2>3, <2>4 DEF EveryRequestIsKept
    <2>7. RetxIsScheduled'
      BY <1>1, <2>2 DEF RetxIsScheduled
    <2>8. MeasuresUnrepeated'
      BY <2>2, <2>3, <2>4 DEF MeasuresUnrepeated, EveryRequestIsKept
    <2> QED BY <2>5, <2>6, <2>7, <2>8
  <1> QED BY <1>2, <1>3

LEMMA OthersInv ==
  Inv /\ (StopApplication \/ (\E q \in Seqs : Lose(q)) \/ UNCHANGED base) => Inv'
  <1> USE DEF Inv, Types, requests, estimator, EveryRequestIsKept, RetxIsScheduled, MeasuresUnrepeated
  <1>1. ASSUME Inv, StopApplication PROVE Inv'
    <2>1. UNCHANGED <<requests, estimator, network, answered>> /\ m_active' = FALSE /\ m_sendEvent' = FALSE
      BY <1>1 DEF StopApplication
    <2>2. Types'
      BY <1>1, <2>1
    <2>3. EveryRequestIsKept' /\ RetxIsScheduled' /\ MeasuresUnrepeated'
      BY <1>1, <2>1
    <2> QED BY <2>2, <2>3
  <1>2. Inv /\ (\E q \in Seqs : Lose(q)) => Inv'
    BY DEF Lose
  <1>3. Inv /\ UNCHANGED base => Inv'
    BY DEF base
  <1> QED BY <1>1, <1>2, <1>3

------------------------------------------------------------------------------
(* The theorems. *)

\* Every step of the consumer and its network keeps the invariant.
THEOREM ConsumerInvariance == Spec => []Inv
  <1>1. Inv /\ [Next]_base => Inv'
    BY SendPacketInv, CheckRetxTimeoutInv, OnDataInv, OthersInv DEF Next
  <1> QED BY <1>1, InitInv, PTL DEF Spec

\* A sequence number asked for waits for its Data, waits to be asked for again,
\* or was answered (m_seqTimeouts, m_retxSeqs), and never two of these.
THEOREM RequestsAreKept == Spec => []EveryRequestIsKept
  <1>1. Inv => EveryRequestIsKept
    BY DEF Inv
  <1> QED BY <1>1, ConsumerInvariance, PTL

\* An active application that has something to repeat has an event to do it.
THEOREM RepeatsAreScheduled == Spec => []RetxIsScheduled
  <1>1. Inv => RetxIsScheduled
    BY DEF Inv
  <1> QED BY <1>1, ConsumerInvariance, PTL

\* The estimator of round-trip times never measures a repeated Interest.
THEOREM OnlyUnrepeatedIsMeasured == Spec => []MeasuresUnrepeated
  <1>1. Inv => MeasuresUnrepeated
    BY DEF Inv
  <1> QED BY <1>1, ConsumerInvariance, PTL

------------------------------------------------------------------------------
(* The bounds of the estimator and of the timeouts. *)

Bounds ==
  /\ m_seqTimeouts \in [DOMAIN m_seqTimeouts -> 0 .. MaxRto]
  /\ estimate \in Estimates
  /\ m_multiplier \in 1 .. MaxMultiplier

\* A power of two counts the subsets of a set, so it is a positive number.
LEMMA PowerOfTwo ==
  ASSUME NEW n \in Nat
  PROVE  2^n \in Nat \ {0}
<1>1. IsFiniteSet(1 .. n) /\ Cardinality(1 .. n) = n
  BY FS_Interval
<1>2. IsFiniteSet(SUBSET (1 .. n)) /\ Cardinality(SUBSET (1 .. n)) = 2^n
  BY <1>1, FS_SUBSET
<1>3. {} \in SUBSET (1 .. n)
  OBVIOUS
<1>4. Cardinality(SUBSET (1 .. n)) \in Nat /\ Cardinality(SUBSET (1 .. n)) # 0
  BY <1>2, <1>3, FS_CardinalityType, FS_EmptySet
<1> QED
  BY <1>2, <1>4

\* However many requests time out at once, the multiplier stays in its bounds.
LEMMA MultiplierIsBounded ==
  ASSUME NEW n \in Nat, m_multiplier \in 1 .. MaxMultiplier, IncreaseMultiplier(n)
  PROVE  m_multiplier' \in 1 .. MaxMultiplier
<1>1. 2^n \in Nat \ {0}
  BY PowerOfTwo
<1> DEFINE p == 2^n
<1> HIDE DEF p
<1>2. p \in Nat /\ p >= 1 /\ m_multiplier \in Nat /\ m_multiplier >= 1
  BY <1>1, ConsumerAssumption DEF p
<1>3. m_multiplier * p \in Nat /\ m_multiplier * p >= 1
  BY <1>2
<1> DEFINE product == m_multiplier * p
<1>4. m_multiplier' = Lesser(MaxMultiplier, product)
  BY DEF IncreaseMultiplier, p
<1> HIDE DEF product
<1>5. product \in Nat /\ product >= 1
  BY <1>3 DEF product
<1> QED
  BY <1>4, <1>5, ConsumerAssumption DEF Lesser

LEMMA SendPacketBounds == Bounds /\ SendPacket => Bounds'
<1> SUFFICES ASSUME Bounds, SendPacket PROVE Bounds'
  OBVIOUS
<1>1. UNCHANGED <<estimate, m_multiplier>>
  BY DEF SendPacket
<1>2. CASE UNCHANGED requests
  BY <1>1, <1>2 DEF Bounds, requests
<1>3. CASE WillSendOutInterest(NextSeq)
  <2> DEFINE f == m_seqTimeouts
             q == NextSeq
  <2>1. f \in [DOMAIN f -> 0 .. MaxRto] /\ 0 \in 0 .. MaxRto
    BY ConsumerAssumption DEF Bounds
  <2>2. m_seqTimeouts' = f \/ m_seqTimeouts' = With(f, {q}, 0)
    BY <1>3 DEF WillSendOutInterest
  <2> HIDE DEF f, q
  <2>3. With(f, {q}, 0) \in [DOMAIN With(f, {q}, 0) -> 0 .. MaxRto]
    BY <2>1, WithType
  <2> QED
    BY <1>1, <2>1, <2>2, <2>3 DEF Bounds, f
<1> QED
  BY <1>2, <1>3 DEF SendPacket

LEMMA CheckRetxTimeoutBounds ==
  ASSUME Inv, Bounds, CheckRetxTimeout
  PROVE  Bounds'
<1>1. OnTimeout(Expired) /\ estimate' = estimate
  BY DEF CheckRetxTimeout
<1>2. Cardinality(Expired) \in Nat
  <2>1. m_seq \in 0 .. MaxSeq /\ MaxSeq \in Nat /\ Expired \subseteq 0 .. m_seq - 1
    BY ConsumerAssumption DEF Inv, Types, EveryRequestIsKept, Expired
  <2>2. IsFiniteSet(0 .. m_seq - 1)
    BY <2>1, FS_Interval
  <2> QED
    BY <2>1, <2>2, FS_Subset, FS_CardinalityType
<1>3. m_multiplier' \in 1 .. MaxMultiplier
  BY <1>1, <1>2, MultiplierIsBounded DEF Bounds, OnTimeout
<1>4. m_seqTimeouts' \in [DOMAIN m_seqTimeouts' -> 0 .. MaxRto]
  <2> DEFINE age(q) == Lesser(MaxRto, m_seqTimeouts[q] + 1)
  <2>1. \A q \in DOMAIN m_seqTimeouts : age(q) \in 0 .. MaxRto
    BY ConsumerAssumption DEF Bounds, Lesser
  <2>2. m_seqTimeouts' = [q \in DOMAIN m_seqTimeouts \ Expired |-> age(q)]
    BY <1>1 DEF OnTimeout
  <2> HIDE DEF age
  <2> QED
    BY <2>1, <2>2
<1> QED
  BY <1>1, <1>3, <1>4 DEF Bounds

LEMMA OnDataBounds == ASSUME NEW q PROVE Bounds /\ OnData(q) => Bounds'
<1> SUFFICES ASSUME Bounds, OnData(q) PROVE Bounds'
  OBVIOUS
<1>1. CASE UNCHANGED <<requests, estimator>>
  BY <1>1 DEF Bounds, requests, estimator
<1>2. CASE Forget(q)
  <2>1. estimate' \in Estimates /\ m_multiplier' \in 1 .. MaxMultiplier
    BY <1>2, ConsumerAssumption DEF Bounds, Forget, AckSeq
  <2> DEFINE f == m_seqTimeouts
  <2>2. f \in [DOMAIN f -> 0 .. MaxRto] /\ m_seqTimeouts' = Without(f, {q})
    BY <1>2 DEF Bounds, Forget
  <2> HIDE DEF f
  <2>3. Without(f, {q}) \in [DOMAIN Without(f, {q}) -> 0 .. MaxRto]
    BY <2>2, WithoutType
  <2> QED
    BY <2>1, <2>2, <2>3 DEF Bounds
<1> QED
  BY <1>1, <1>2 DEF OnData

\* The maps of the application hold sequence numbers that exist, no timeout
\* runs past the largest one, and the multiplier of the estimator stays between
\* one and its maximum.
THEOREM ConsumerTypes == Spec => []TypeOK
<1>1. Init => Bounds
  BY ConsumerAssumption DEF Init, Bounds, Empty
<1>2. Inv /\ Bounds /\ [Next]_base => Bounds'
  <2>1. Bounds /\ (StopApplication \/ (\E q \in Seqs : Lose(q)) \/ UNCHANGED base) => Bounds'
    BY DEF Bounds, StopApplication, Lose, base, requests, estimator
  <2> QED
    BY <2>1, SendPacketBounds, CheckRetxTimeoutBounds, OnDataBounds DEF Next
<1>3. Inv /\ Bounds => TypeOK
  <2> SUFFICES ASSUME Inv, Bounds PROVE TypeOK
    OBVIOUS
  <2>1. m_seq \in 0 .. MaxSeq /\ 0 .. m_seq - 1 \subseteq Seqs
    BY ConsumerAssumption DEF Inv, Types, Seqs
  <2>2. /\ m_retxSeqs \subseteq Seqs /\ answered \subseteq Seqs
        /\ DOMAIN m_seqTimeouts \subseteq Seqs /\ DOMAIN m_seqRetxCounts \subseteq Seqs
    BY <2>1 DEF Inv, EveryRequestIsKept
  <2> QED
    BY <2>1, <2>2 DEF TypeOK, Inv, Types, Bounds
<1> QED
  BY <1>1, <1>2, <1>3, ConsumerInvariance, PTL DEF Spec
==============================================================================
