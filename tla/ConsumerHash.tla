----------------------------- MODULE ConsumerHash -----------------------------
(***************************************************************************)
(* The consumer of hash-guided Interests (apps/ndn-consumer-hash.cpp) over *)
(* a network that loses, repeats and delays: it asks at a steady pace and  *)
(* asks again for what was not answered in time.                           *)
(***************************************************************************)
EXTENDS Consumer

\* ScheduleNextPacket: an event that is scheduled stays.
ScheduleNextPacket == m_sendEvent' = TRUE

MutantUntracked ==
  /\ m_sendEvent
  /\ IF m_active /\ SomethingToSend
     THEN /\ TakeNextSeq
          /\ network' = network \cup {NextSeq}
          /\ ScheduleNextPacket
          /\ UNCHANGED <<m_seqTimeouts, m_seqRetxCounts, m_history>>
     ELSE m_sendEvent' = FALSE /\ UNCHANGED <<requests, m_history, network>>
  /\ UNCHANGED <<m_active, estimate, m_multiplier, answered>>

SendPacket ==
  /\ m_sendEvent
  /\ IF m_active /\ SomethingToSend
     THEN /\ TakeNextSeq
          /\ WillSendOutInterest(NextSeq)
          /\ network' = network \cup {NextSeq}
          /\ ScheduleNextPacket
     ELSE m_sendEvent' = FALSE /\ UNCHANGED <<requests, m_history, network>>
  /\ UNCHANGED <<m_active, estimate, m_multiplier, answered>>

MutantNothingScheduled ==
  /\ OnTimeout(Expired)
  /\ UNCHANGED m_sendEvent
  /\ UNCHANGED <<m_active, m_seq, m_seqRetxCounts, estimate, network, answered>>

CheckRetxTimeout ==
  /\ OnTimeout(Expired)
  /\ IF Expired = {} THEN UNCHANGED m_sendEvent ELSE ScheduleNextPacket
  /\ UNCHANGED <<m_active, m_seq, m_seqRetxCounts, estimate, network, answered>>

OnData(q) ==
  /\ Arrive(q)
  /\ IF m_active THEN Forget(q) ELSE UNCHANGED <<requests, estimator, answered>>
  /\ UNCHANGED <<m_active, m_sendEvent>>

Next ==
  \/ SendPacket \/ CheckRetxTimeout \/ StopApplication
  \/ \E q \in Seqs : OnData(q) \/ Lose(q)

Spec == Init /\ [][Next]_base

\* Events happen at their time; the network lets through, now and then, what is
\* sent again and again.
FairSpec ==
  /\ Spec
  /\ WF_base(SendPacket) /\ WF_base(CheckRetxTimeout)
  /\ \A q \in Seqs : SF_base(OnData(q))

------------------------------------------------------------------------------
(* Properties. *)

TypeOK ==
  /\ m_active \in BOOLEAN /\ m_sendEvent \in BOOLEAN
  /\ m_seq \in 0 .. MaxSeq /\ m_retxSeqs \subseteq Seqs
  /\ DOMAIN m_seqTimeouts \subseteq Seqs /\ DOMAIN m_seqRetxCounts \subseteq Seqs
  /\ m_seqTimeouts \in [DOMAIN m_seqTimeouts -> 0 .. MaxRto]
  /\ m_seqRetxCounts \in [DOMAIN m_seqRetxCounts -> 1 .. MaxSent]
  /\ m_history \in [DOMAIN m_history -> BOOLEAN]
  /\ estimate \in Estimates /\ m_multiplier \in 1 .. MaxMultiplier
  /\ network \subseteq Seqs /\ answered \subseteq Seqs

\* Each sequence number asked for waits for its Data, or waits to be asked for
\* again, or was answered, and is in one of these places only; the estimator and
\* the delay traces know just those not answered.
EveryRequestIsKept ==
  LET waiting == DOMAIN m_seqTimeouts
  IN /\ waiting \cap m_retxSeqs = {}
     /\ (waiting \cup m_retxSeqs) \cap answered = {}
     /\ waiting \cup m_retxSeqs \cup answered = 0 .. m_seq - 1
     /\ DOMAIN m_seqRetxCounts = waiting \cup m_retxSeqs
     /\ DOMAIN m_history = waiting \cup m_retxSeqs

\* What waits to be asked for again has an event that will ask, even after the
\* application had sent all it had to and its events had run out.
RetxIsScheduled == m_active /\ m_retxSeqs # {} => m_sendEvent

\* The estimator measures an answer only if it cannot belong to an earlier
\* Interest: it takes as not repeated just what was sent once and has not timed
\* out.
MeasuresUnrepeated ==
  \A q \in DOMAIN m_history :
    ~m_history[q] => m_seqRetxCounts[q] = 1 /\ q \in DOMAIN m_seqTimeouts

\* Over a network that now and then lets a packet through, each request is
\* answered in the end, unless the application stops.
AllAnswered ==
  \A q \in Seqs : []m_active => <>(q \in answered)
==============================================================================
