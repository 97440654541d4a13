---------------------------- MODULE ConsumerWindow ----------------------------
(***************************************************************************)
(* The consumer with a congestion window (apps/ndn-consumer-window.cpp),   *)
(* which sends with the SendPacket of its base class.                      *)
(***************************************************************************)
EXTENDS Consumer

CONSTANTS
  InitialWindow,           \* m_initialWindow
  InitialWindowOnTimeout,  \* m_setInitialWindowOnTimeout
  MaxWindow                \* where the model stops counting the window

VARIABLES m_window, m_inFlight

window == <<m_window, m_inFlight>>
vars == <<base, window>>

WindowInit == Init /\ m_window = InitialWindow /\ m_inFlight = 0

\* ScheduleNextPacket, as the handler leaves the window.  A window of zero sends
\* a packet at every timeout.
ScheduleNextPacket ==
  m_sendEvent' = IF m_window' # 0 /\ m_inFlight' >= m_window' THEN m_sendEvent ELSE TRUE

\* Consumer::SendPacket, which is not virtual and leaves WillSendOutInterest out.
SendPacket ==
  /\ m_sendEvent
  /\ UNCHANGED window
  /\ IF m_active /\ SomethingToSend
     THEN /\ TakeNextSeq
          /\ network' = network \cup {NextSeq}
          /\ \* The event that runs is not scheduled any more.
             m_sendEvent' = ~(m_window # 0 /\ m_inFlight >= m_window)
     ELSE m_sendEvent' = FALSE /\ UNCHANGED <<m_seq, m_retxSeqs, network>>
  /\ UNCHANGED <<m_active, m_seqTimeouts, m_seqRetxCounts, estimator, answered>>

\* For each sequence number in Expired, OnTimeout.
CheckRetxTimeout ==
  /\ OnTimeout(Expired)
  /\ IF Expired = {} THEN UNCHANGED <<window, m_sendEvent>>
     ELSE /\ m_inFlight' = IF m_inFlight > Cardinality(Expired)
                           THEN m_inFlight - Cardinality(Expired) ELSE 0
          /\ m_window' = IF InitialWindowOnTimeout THEN InitialWindow ELSE m_window
          /\ ScheduleNextPacket
  /\ UNCHANGED <<m_active, m_seq, m_seqRetxCounts, estimate, network, answered>>

OnData(q) ==
  /\ Arrive(q)
  /\ IF m_active THEN Forget(q) ELSE UNCHANGED <<requests, estimator, answered>>
  /\ m_window' = Lesser(MaxWindow, m_window + 1)
  /\ m_inFlight' = IF m_inFlight > 0 THEN m_inFlight - 1 ELSE 0
  /\ ScheduleNextPacket
  /\ UNCHANGED m_active

Next ==
  \/ SendPacket \/ CheckRetxTimeout
  \/ StopApplication /\ UNCHANGED window
  \/ \E q \in Seqs : OnData(q) \/ (Lose(q) /\ UNCHANGED window)

Spec == WindowInit /\ [][Next]_vars

\* The Interests sent and not answered.
Outstanding == (0 .. m_seq - 1) \ answered

\* "Window that controls how many outstanding interests are allowed"
\* (ndn-consumer-window.cpp:75): nothing new is asked for while as many Interests
\* are outstanding as the window allows.
WindowIsKept == [][m_seq' > m_seq => Cardinality(Outstanding) < m_window]_vars
==============================================================================
