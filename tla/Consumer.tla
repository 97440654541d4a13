------------------------------- MODULE Consumer -------------------------------
(***************************************************************************)
(* What every consumer application (apps/ndn-consumer.cpp) keeps for each  *)
(* sequence number it asks for, with the estimator of round-trip times     *)
(* (utils/ndn-rtt-mean-deviation.cpp) that sets the retransmission         *)
(* timeout.  The subclasses decide when a packet is sent.                  *)
(*                                                                         *)
(* Time is counted in runs of CheckRetxTimeout; an age that has reached    *)
(* MaxRto grows no more, which no comparison can tell, and the count of    *)
(* transmissions, which only a trace reads, stops at MaxSent.              *)
(***************************************************************************)
EXTENDS Naturals, FiniteSets

CONSTANTS
  MaxSeq,         \* m_seqMax
  MaxMultiplier,  \* RttEstimator::m_maxMultiplier
  MaxRto,         \* RttEstimator::m_maxRto
  MaxSent,        \* where the count of transmissions of a request stops
  Estimates       \* what round-trip time and variance may come to: base timeouts

ASSUME ConsumerAssumption ==
  /\ MaxSeq \in Nat /\ MaxMultiplier \in Nat \ {0} /\ MaxRto \in Nat \ {0}
  /\ MaxSent \in Nat \ {0, 1}
  /\ Estimates # {} /\ Estimates \subseteq 1 .. MaxRto

VARIABLES
  m_active,
  m_sendEvent,      \* whether the event is scheduled
  m_seq,
  m_seqTimeouts,    \* [sequence numbers that wait for Data -> age]
  m_retxSeqs,       \* sequence numbers to be asked for again
  m_seqRetxCounts,  \* [sequence numbers not answered yet -> times asked for];
                    \* m_seqFullDelay and m_seqLastDelay have the same keys
  m_history,        \* [sequence numbers of the estimator -> retx]
  estimate, m_multiplier,
  network,          \* sequence numbers with an Interest or Data under way
  answered          \* history: the sequence numbers whose Data was received

estimator == <<m_history, estimate, m_multiplier>>
requests  == <<m_seq, m_seqTimeouts, m_retxSeqs, m_seqRetxCounts>>
base      == <<m_active, m_sendEvent, requests, estimator, network, answered>>

Seqs == 0 .. MaxSeq - 1

\* The map f without the keys in S, and with v for the keys in S.
Without(f, S) == [x \in DOMAIN f \ S |-> f[x]]
With(f, S, v) == [x \in DOMAIN f \cup S |-> IF x \in S THEN v ELSE f[x]]

Lesser(a, b) == IF a < b THEN a ELSE b
First(S) == CHOOSE x \in S : \A y \in S : x <= y

Empty == [x \in {} |-> 0]

\* StartApplication has scheduled the first packet.
Init ==
  /\ m_active = TRUE /\ m_sendEvent = TRUE
  /\ m_seq = 0
  /\ m_seqTimeouts = Empty /\ m_retxSeqs = {} /\ m_seqRetxCounts = Empty
  /\ m_history = Empty /\ estimate \in Estimates /\ m_multiplier = 1
  /\ network = {} /\ answered = {}

------------------------------------------------------------------------------
(* The estimator. *)

RetransmitTimeout == Lesser(MaxRto, m_multiplier * estimate)

\* SentSeq: a sequence number that m_history holds is marked as repeated.
SentSeq(S) ==
  m_history' = [q \in DOMAIN m_history \cup S |->
                  q \in DOMAIN m_history /\ (q \in S \/ m_history[q])]

MutantUncapped(n) == m_multiplier' = m_multiplier * 2^n

\* IncreaseMultiplier, n times.
IncreaseMultiplier(n) == m_multiplier' = Lesser(MaxMultiplier, m_multiplier * 2^n)

\* AckSeq: only the answer to an Interest that was not repeated is measured.
AckSeq(q) ==
  /\ m_history' = Without(m_history, {q})
  /\ IF q \in DOMAIN m_history /\ ~m_history[q]
     THEN estimate' \in Estimates /\ m_multiplier' = 1
     ELSE UNCHANGED <<estimate, m_multiplier>>

------------------------------------------------------------------------------
(* The parts of the handlers that the subclasses share. *)

Expired == {q \in DOMAIN m_seqTimeouts : m_seqTimeouts[q] + 1 >= RetransmitTimeout}

MutantNotMarked(S) ==
  /\ m_seqTimeouts' = [q \in DOMAIN m_seqTimeouts \ S |-> Lesser(MaxRto, m_seqTimeouts[q] + 1)]
  /\ m_retxSeqs' = m_retxSeqs \cup S
  /\ IncreaseMultiplier(Cardinality(S))
  /\ UNCHANGED m_history

\* CheckRetxTimeout after one more period, which calls OnTimeout for each
\* sequence number in S.
OnTimeout(S) ==
  /\ m_seqTimeouts' = [q \in DOMAIN m_seqTimeouts \ S |-> Lesser(MaxRto, m_seqTimeouts[q] + 1)]
  /\ m_retxSeqs' = m_retxSeqs \cup S
  /\ IncreaseMultiplier(Cardinality(S))
  /\ SentSeq(S)

MutantStillToRepeat(q) ==
  /\ m_seqRetxCounts' = Without(m_seqRetxCounts, {q})
  /\ m_seqTimeouts' = Without(m_seqTimeouts, {q})
  /\ AckSeq(q)
  /\ answered' = answered \cup {q}
  /\ UNCHANGED <<m_seq, m_retxSeqs>>

\* OnData, when the application is active.
Forget(q) ==
  /\ m_seqRetxCounts' = Without(m_seqRetxCounts, {q})
  /\ m_seqTimeouts' = Without(m_seqTimeouts, {q})
  /\ m_retxSeqs' = m_retxSeqs \ {q}
  /\ AckSeq(q)
  /\ answered' = answered \cup {q}
  /\ UNCHANGED m_seq

\* Whether SendPacket has something to ask for, and what: what was asked for
\* before comes first.
SomethingToSend == m_retxSeqs # {} \/ m_seq < MaxSeq
NextSeq == IF m_retxSeqs # {} THEN First(m_retxSeqs) ELSE m_seq

TakeNextSeq ==
  /\ m_retxSeqs' = m_retxSeqs \ {NextSeq}
  /\ m_seq' = IF m_retxSeqs # {} THEN m_seq ELSE m_seq + 1

WillSendOutInterest(q) ==
  /\ m_seqTimeouts' = IF q \in DOMAIN m_seqTimeouts THEN m_seqTimeouts
                      ELSE With(m_seqTimeouts, {q}, 0)
  /\ m_seqRetxCounts' = With(m_seqRetxCounts, {q},
                             IF q \in DOMAIN m_seqRetxCounts
                             THEN Lesser(MaxSent, m_seqRetxCounts[q] + 1) ELSE 1)
  /\ SentSeq({q})

StopApplication ==
  /\ m_active
  /\ m_active' = FALSE /\ m_sendEvent' = FALSE
  /\ UNCHANGED <<requests, estimator, network, answered>>

(* The network loses and repeats what is under way. *)

Lose(q) ==
  /\ q \in network /\ network' = network \ {q}
  /\ UNCHANGED <<m_active, m_sendEvent, requests, estimator, answered>>

Arrive(q) == q \in network /\ network' \in {network, network \ {q}}
==============================================================================
