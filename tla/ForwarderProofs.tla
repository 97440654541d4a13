--------------------------- MODULE ForwarderProofs ---------------------------
(***************************************************************************)
(* Proofs about the forwarding pipelines, for all values of the constants. *)
(*                                                                         *)
(* EntryInv is the inductive invariant of a PIT entry between two events.  *)
(* Every pipeline ends by putting back an entry that the operators of      *)
(* PitEntry have built from an entry with EntryInv, so the proof goes      *)
(* operator by operator (first part), then tail by tail (second part).     *)
(***************************************************************************)
EXTENDS ForwarderProps, FiniteSetTheorems, TLAPS

EntryInv(e) ==
  /\ (e.unsatisfy >= 0) <=> ~(e.straggler >= 0)
  /\ e.unsatisfy >= 0 => \A f \in InFaces(e) : e.in[f].expires <= e.unsatisfy
  /\ e.straggler >= 0 /\ e.result # "unsatisfied" => InFaces(e) = {}

------------------------------------------------------------------------------
(* Operators on PIT entries keep entries well formed. *)

\* A PIT entry fresh from its constructor is well formed.
LEMMA NewEntryType == NewEntry \in Entry
  BY PacketsAssumption, PitEntryAssumption, SMT
     DEF NewEntry, Entry, NotArmed, Result, Periods

\* The in-record of a face in InFaces is a record.
LEMMA InRecordType ==
  ASSUME NEW e \in Entry, NEW f \in InFaces(e)
  PROVE  f \in FaceId /\ e.in[f] \in InRecord
  BY DEF Entry, InFaces

\* The out-record of a face in OutFaces is a record.
LEMMA OutRecordType ==
  ASSUME NEW e \in Entry, NEW g \in OutFaces(e)
  PROVE  g \in OutFace /\ e.out[g] \in OutRecord
  BY DEF Entry, OutFaces

\* insertOrUpdateInRecord keeps the entry well formed and leaves an in-record of
\* the face, and one that has not expired.
LEMMA WithInRecordType ==
  ASSUME NEW e \in Entry, NEW f \in FaceId, NEW i \in Interest
  PROVE  /\ WithInRecord(e, f, i) \in Entry
         /\ WithInRecord(e, f, i).straggler = e.straggler
         /\ f \in InFaces(WithInRecord(e, f, i))
         /\ \E h \in InFaces(WithInRecord(e, f, i)) :
              WithInRecord(e, f, i).in[h].expires >= 0
<1> DEFINE r == [nonce |-> i.nonce, flag |-> i.flag, life |-> i.life, expires |-> i.life,
                 behind |-> IF e.in[f] = NoRecord THEN InFaces(e) ELSE e.in[f].behind]
<1>1. InFaces(e) \subseteq FaceId
  BY DEF InFaces
<1>2. e.in[f] \in InRecord \cup {NoRecord}
  BY DEF Entry
<1>3. (IF e.in[f] = NoRecord THEN InFaces(e) ELSE e.in[f].behind) \in SUBSET FaceId
  BY <1>1, <1>2 DEF InRecord
<1>4. /\ i.nonce \in Nonce /\ i.flag \in HashFlag /\ i.life \in 1 .. MaxLifetime
      /\ i.life \in -1 .. MaxLifetime
  BY PacketsAssumption DEF Interest
<1>5. r \in InRecord
  BY <1>3, <1>4 DEF InRecord
<1>6. WithInRecord(e, f, i) = [e EXCEPT !.in = [e.in EXCEPT ![f] = r]]
  BY DEF WithInRecord, Entry
<1>7. [e.in EXCEPT ![f] = r] \in [FaceId -> InRecord \cup {NoRecord}]
  BY <1>5 DEF Entry
<1>8. /\ WithInRecord(e, f, i).in[f] = r /\ r.expires = i.life /\ i.life >= 0
      /\ r # NoRecord
  BY <1>4, <1>5, <1>6, PitEntryAssumption, PacketsAssumption DEF Entry
<1>9. /\ WithInRecord(e, f, i) \in Entry
      /\ WithInRecord(e, f, i).straggler = e.straggler
  BY <1>6, <1>7 DEF Entry
<1> QED
  BY <1>8, <1>9 DEF InFaces

\* Deleting in-records keeps the entry well formed and the others' expiry.
LEMMA WithoutInRecordsType ==
  ASSUME NEW e \in Entry, NEW F
  PROVE  /\ WithoutInRecords(e, F) \in Entry
         /\ InFaces(WithoutInRecords(e, F)) = InFaces(e) \ F
         /\ \A f \in InFaces(e) \ F :
              WithoutInRecords(e, F).in[f].expires = e.in[f].expires
         /\ WithoutInRecords(e, F).out = e.out
         /\ WithoutInRecords(e, F).unsatisfy = e.unsatisfy
         /\ WithoutInRecords(e, F).straggler = e.straggler
         /\ WithoutInRecords(e, F).result = e.result
<1> DEFINE w == WithoutInRecords(e, F)
<1>1. \A f \in FaceId : e.in[f] # NoRecord =>
        /\ [e.in[f] EXCEPT !.behind = @ \ F] \in InRecord
        /\ [e.in[f] EXCEPT !.behind = @ \ F].expires = e.in[f].expires
  BY DEF Entry, InRecord
<1>2. w.in \in [FaceId -> InRecord \cup {NoRecord}]
  BY <1>1 DEF WithoutInRecords, Entry
<1>3. w \in Entry
  BY <1>2 DEF WithoutInRecords, Entry
<1>4. InFaces(w) = InFaces(e) \ F
  BY <1>1, PitEntryAssumption DEF WithoutInRecords, InFaces, Entry
<1>5. \A f \in InFaces(e) \ F : w.in[f].expires = e.in[f].expires
  BY <1>1 DEF WithoutInRecords, InFaces, Entry
<1> QED
  BY <1>3, <1>4, <1>5 DEF WithoutInRecords, Entry

\* What EntryInv depends on is the same in both entries.
SameDownstreams(e1, e2) ==
  /\ e2.in = e1.in /\ e2.result = e1.result
  /\ e2.unsatisfy = e1.unsatisfy /\ e2.straggler = e1.straggler

\* insertOrUpdateOutRecord keeps downstreams and timers as they are.
LEMMA WithOutRecordsType ==
  ASSUME NEW e \in Entry, NEW G, NEW i \in Interest
  PROVE  /\ WithOutRecords(e, G, i) \in Entry
         /\ SameDownstreams(e, WithOutRecords(e, G, i))
<1>1. /\ i.nonce \in Nonce /\ i.life \in -1 .. MaxLifetime /\ 0 \in 0 .. MaxLifetime + 1
  BY PacketsAssumption DEF Interest
<1>2. \A g \in OutFace :
        (IF e.out[g] = NoRecord THEN NotNacked ELSE e.out[g].nack) \in Reason \cup {NotNacked}
  BY DEF Entry, OutRecord
<1> DEFINE out == [g \in OutFace |->
              IF g \notin G THEN e.out[g]
              ELSE [nonce |-> i.nonce, expires |-> i.life, age |-> 0,
                    nack |-> IF e.out[g] = NoRecord THEN NotNacked ELSE e.out[g].nack]]
<1>3. \A g \in OutFace : [nonce |-> i.nonce, expires |-> i.life, age |-> 0,
                    nack |-> IF e.out[g] = NoRecord THEN NotNacked ELSE e.out[g].nack]
                    \in OutRecord
  BY <1>1, <1>2 DEF OutRecord
<1>4. out \in [OutFace -> OutRecord \cup {NoRecord}]
  BY <1>3 DEF Entry
<1>5. WithOutRecords(e, G, i) = [e EXCEPT !.out = out]
  BY DEF WithOutRecords
<1> HIDE DEF out
<1> QED
  BY <1>4, <1>5 DEF Entry, SameDownstreams

\* deleteOutRecord keeps downstreams and timers as they are.
LEMMA WithoutOutRecordType ==
  ASSUME NEW e \in Entry, NEW g
  PROVE  /\ WithoutOutRecord(e, g) \in Entry
         /\ SameDownstreams(e, WithoutOutRecord(e, g))
<1>1. WithoutOutRecord(e, g) = [e EXCEPT !.out = [e.out EXCEPT ![g] = NoRecord]]
  BY DEF WithoutOutRecord, Entry
<1>2. [e.out EXCEPT ![g] = NoRecord] \in [OutFace -> OutRecord \cup {NoRecord}]
  BY DEF Entry
<1> QED
  BY <1>1, <1>2 DEF Entry, SameDownstreams

\* setIncomingNack keeps downstreams and timers as they are.
LEMMA WithIncomingNackType ==
  ASSUME NEW e \in Entry, NEW g \in OutFaces(e), NEW reason \in Reason
  PROVE  /\ WithIncomingNack(e, g, reason) \in Entry
         /\ SameDownstreams(e, WithIncomingNack(e, g, reason))
<1>1. WithIncomingNack(e, g, reason) =
        [e EXCEPT !.out = [e.out EXCEPT ![g] = [e.out[g] EXCEPT !.nack = reason]]]
  BY DEF WithIncomingNack, Entry
<1>2. [e.out[g] EXCEPT !.nack = reason] \in OutRecord
  BY OutRecordType DEF OutRecord
<1>3. [e.out EXCEPT ![g] = [e.out[g] EXCEPT !.nack = reason]]
        \in [OutFace -> OutRecord \cup {NoRecord}]
  BY <1>2, OutRecordType DEF Entry
<1> QED
  BY <1>1, <1>3 DEF Entry, SameDownstreams

\* Cancelling leaves no timer armed and the records untouched.
LEMMA WithTimersCancelledType ==
  ASSUME NEW e \in Entry
  PROVE  /\ WithTimersCancelled(e) \in Entry
         /\ WithTimersCancelled(e).in = e.in
         /\ WithTimersCancelled(e).unsatisfy = -1
         /\ WithTimersCancelled(e).straggler = -1
<1>1. -1 \in -1 .. MaxLifetime /\ -1 \in -1 .. StragglerTime
  BY PacketsAssumption, PitEntryAssumption
<1> QED
  BY <1>1 DEF WithTimersCancelled, NotArmed, Entry

\* setStragglerTimer arms that timer and touches nothing else.
LEMMA WithStragglerTimerType ==
  ASSUME NEW e \in Entry, NEW result \in Result
  PROVE  /\ WithStragglerTimer(e, result) \in Entry
         /\ WithStragglerTimer(e, result).in = e.in
         /\ WithStragglerTimer(e, result).unsatisfy = e.unsatisfy
         /\ WithStragglerTimer(e, result).straggler >= 0
         /\ WithStragglerTimer(e, result).result = result
<1>1. StragglerTime \in -1 .. StragglerTime /\ StragglerTime >= 0
  BY PitEntryAssumption
<1> QED
  BY <1>1 DEF WithStragglerTimer, Entry

\* The timer outlasts every in-record: it is set after the last to expire.
LEMMA WithUnsatisfyTimerType ==
  ASSUME NEW e \in Entry, NEW f \in FaceId, IsLastExpiring(e, f),
         e.straggler = -1, \E h \in InFaces(e) : e.in[h].expires >= 0
  PROVE  /\ WithUnsatisfyTimer(e, f) \in Entry
         /\ EntryInv(WithUnsatisfyTimer(e, f))
<1> DEFINE w == WithUnsatisfyTimer(e, f)
<1>1. f \in InFaces(e) /\ \A h \in InFaces(e) : e.in[h].expires <= e.in[f].expires
  BY DEF IsLastExpiring
<1>2. \A h \in InFaces(e) : e.in[h].expires \in -1 .. MaxLifetime
  BY InRecordType DEF InRecord
<1>3. /\ w \in Entry /\ w.in = e.in /\ w.straggler = -1
      /\ w.unsatisfy = e.in[f].expires
  BY <1>1, <1>2 DEF WithUnsatisfyTimer, Entry
<1>4. w.unsatisfy >= 0
  BY <1>1, <1>2, <1>3, PacketsAssumption
<1>5. InFaces(w) = InFaces(e)
  BY <1>3 DEF InFaces
<1> QED
  BY <1>1, <1>3, <1>4, <1>5 DEF EntryInv

\* EntryInv speaks of the downstreams and the timers only.
LEMMA SameDownstreamsInv ==
  ASSUME NEW e1 \in Entry, NEW e2 \in Entry, SameDownstreams(e1, e2), EntryInv(e1)
  PROVE  EntryInv(e2)
  BY DEF SameDownstreams, EntryInv, InFaces

\* Deleting in-records does not break EntryInv.
LEMMA WithoutInRecordsInv ==
  ASSUME NEW e \in Entry, NEW F, EntryInv(e)
  PROVE  EntryInv(WithoutInRecords(e, F))
<1> DEFINE w == WithoutInRecords(e, F)
<1>1. /\ InFaces(w) = InFaces(e) \ F
      /\ \A f \in InFaces(e) \ F : w.in[f].expires = e.in[f].expires
      /\ w.unsatisfy = e.unsatisfy /\ w.straggler = e.straggler /\ w.result = e.result
  BY WithoutInRecordsType
<1> QED
  BY <1>1 DEF EntryInv

\* Once the straggler timer alone is armed, the entry is well formed unless it
\* was satisfied with a downstream left.
LEMMA StragglerInv ==
  ASSUME NEW e \in Entry, NEW result \in Result, e.unsatisfy = -1,
         result = "unsatisfied" \/ InFaces(e) = {}
  PROVE  /\ WithStragglerTimer(e, result) \in Entry
         /\ EntryInv(WithStragglerTimer(e, result))
<1> DEFINE w == WithStragglerTimer(e, result)
<1>1. /\ w \in Entry /\ w.in = e.in /\ w.unsatisfy = -1 /\ w.straggler >= 0
      /\ w.result = result
  BY WithStragglerTimerType
<1>2. InFaces(w) = InFaces(e)
  BY <1>1 DEF InFaces
<1> QED
  BY <1>1, <1>2 DEF EntryInv

\* onInterestReject swaps one timer for the other, or does nothing.
LEMMA RejectedInv ==
  ASSUME NEW e \in Entry, EntryInv(e)
  PROVE  Rejected(e) \in Entry /\ EntryInv(Rejected(e))
<1>1. CASE HasPendingOutRecords(e)
  BY <1>1 DEF Rejected
<1>2. CASE ~HasPendingOutRecords(e)
  <2>1. "unsatisfied" \in Result
    BY DEF Result
  <2>2. /\ WithTimersCancelled(e) \in Entry
        /\ WithTimersCancelled(e).unsatisfy = -1
    BY WithTimersCancelledType
  <2> QED
    BY <1>2, <2>1, <2>2, StragglerInv DEF Rejected
<1> QED
  BY <1>1, <1>2

\* An entry that Data satisfies ends with the straggler timer and no downstream.
LEMMA SatisfiedInv ==
  ASSUME NEW e \in Entry, NEW f, NEW result \in Periods
  PROVE  Satisfied(e, f, result) \in Entry /\ EntryInv(Satisfied(e, f, result))
<1> DEFINE e1 == WithoutInRecords(e, FaceId)
           e2 == WithoutOutRecord(e1, f)
           e3 == WithTimersCancelled(e2)
<1>1. e1 \in Entry /\ InFaces(e1) = {}
  BY WithoutInRecordsType DEF InFaces
<1>2. e2 \in Entry /\ e2.in = e1.in
  BY <1>1, WithoutOutRecordType DEF SameDownstreams
<1>3. e3 \in Entry /\ e3.in = e2.in /\ e3.unsatisfy = -1
  BY <1>2, WithTimersCancelledType
<1>4. InFaces(e3) = {}
  BY <1>1, <1>2, <1>3 DEF InFaces
<1>5. result \in Result
  BY DEF Result
<1>6. Satisfied(e, f, result) = WithStragglerTimer(e3, result)
  BY DEF Satisfied
<1> HIDE DEF e3
<1> QED
  BY <1>3, <1>4, <1>5, <1>6, StragglerInv

\* Time passes evenly for records and timers.
LEMMA ElapseInv ==
  ASSUME NEW e \in Entry, EntryInv(e), e.unsatisfy # 0, e.straggler # 0
  PROVE  Elapse(e) \in Entry /\ EntryInv(Elapse(e))
<1> DEFINE Left(t) == IF t >= 0 THEN t - 1 ELSE t
           inr(f)  == [e.in[f] EXCEPT !.expires = Left(@)]
           outr(g) == [e.out[g] EXCEPT !.expires = Left(@),
                         !.age = IF @ > MaxLifetime THEN @ ELSE @ + 1]
           in  == [f \in FaceId |-> IF e.in[f] = NoRecord THEN NoRecord ELSE inr(f)]
           out == [g \in OutFace |-> IF e.out[g] = NoRecord THEN NoRecord ELSE outr(g)]
           w   == Elapse(e)
<1>1. w = [e EXCEPT !.in = in, !.out = out, !.unsatisfy = Left(@), !.straggler = Left(@)]
  BY DEF Elapse
<1>2. MaxLifetime \in Nat /\ StragglerTime \in Nat
  BY PacketsAssumption, PitEntryAssumption
<1>3. ASSUME NEW f \in InFaces(e)
      PROVE  inr(f) \in InRecord /\ inr(f).expires = Left(e.in[f].expires)
  BY <1>2, <1>3, InRecordType DEF InRecord
<1>4. ASSUME NEW g \in OutFaces(e)
      PROVE  outr(g) \in OutRecord
  <2> DEFINE age == IF e.out[g].age > MaxLifetime THEN e.out[g].age ELSE e.out[g].age + 1
  <2>1. e.out[g] \in OutRecord
    BY <1>4, OutRecordType
  <2>2. outr(g) = [e.out[g] EXCEPT !.expires = Left(e.out[g].expires), !.age = age]
    BY <2>1 DEF OutRecord
  <2>3. Left(e.out[g].expires) \in -1 .. MaxLifetime
    BY <1>2, <2>1 DEF OutRecord
  <2>4. age \in 0 .. MaxLifetime + 1
    BY <1>2, <2>1 DEF OutRecord
  <2> HIDE DEF age, Left
  <2> QED
    BY <2>1, <2>2, <2>3, <2>4 DEF OutRecord
<1>5. in \in [FaceId -> InRecord \cup {NoRecord}]
  BY <1>3 DEF InFaces
<1>6. out \in [OutFace -> OutRecord \cup {NoRecord}]
  BY <1>4 DEF OutFaces
<1>7. /\ e.unsatisfy \in -1 .. MaxLifetime /\ e.straggler \in -1 .. StragglerTime
      /\ Left(e.unsatisfy) \in -1 .. MaxLifetime
      /\ Left(e.straggler) \in -1 .. StragglerTime
  BY <1>2 DEF Entry
<1>8. /\ InFaces(w) = InFaces(e)
      /\ \A f \in InFaces(e) : w.in[f].expires = Left(e.in[f].expires)
  <2>1. w.in = in
    BY <1>1 DEF Entry
  <2>2. \A f \in InFaces(e) : inr(f) # NoRecord
    BY <1>3, PitEntryAssumption
  <2> HIDE DEF inr, w
  <2> QED
    BY <1>3, <2>1, <2>2 DEF InFaces
<1>9. /\ w.unsatisfy = Left(e.unsatisfy) /\ w.straggler = Left(e.straggler)
      /\ w.result = e.result
  BY <1>1 DEF Entry
<1>10. w \in Entry
  <2> HIDE DEF in, out, Left
  <2> QED
    BY <1>1, <1>5, <1>6, <1>7 DEF Entry
<1>11. \A f \in InFaces(e) : e.in[f].expires \in -1 .. MaxLifetime
  BY InRecordType DEF InRecord
<1>12. EntryInv(w)
  <2> HIDE DEF w
  <2>1. (w.unsatisfy >= 0) <=> ~(w.straggler >= 0)
    BY <1>7, <1>9 DEF EntryInv
  <2>2. w.unsatisfy >= 0 => \A f \in InFaces(w) : w.in[f].expires <= w.unsatisfy
    BY <1>2, <1>7, <1>8, <1>9, <1>11 DEF EntryInv
  <2>3. w.straggler >= 0 /\ w.result # "unsatisfied" => InFaces(w) = {}
    BY <1>7, <1>8, <1>9 DEF EntryInv
  <2> QED
    BY <2>1, <2>2, <2>3 DEF EntryInv
<1> QED
  BY <1>10, <1>12

------------------------------------------------------------------------------
(* The invariant of an entry of node n: it is well formed and its records are *)
(* those of faces that exist.                                                 *)

Usable(n) == {g \in OutFace : g = FACEID_CONTENT_STORE \/ Live(n, g)}

OnLiveFaces(n, e) == InFaces(e) \subseteq Usable(n) /\ OutFaces(e) \subseteq Usable(n)

Good(n, e) == e \in Entry /\ EntryInv(e) /\ OnLiveFaces(n, e)

\* An entry whose timers are cancelled while a pipeline works on it.
Idle(n, e) == e \in Entry /\ e.unsatisfy = -1 /\ e.straggler = -1 /\ OnLiveFaces(n, e)

\* Out-records to faces that may be used keep an entry good.
LEMMA GoodWithOutRecords ==
  ASSUME NEW n, NEW e, Good(n, e), NEW G \in SUBSET Usable(n), NEW i \in Interest
  PROVE  Good(n, WithOutRecords(e, G, i))
<1> DEFINE w == WithOutRecords(e, G, i)
<1>1. e \in Entry /\ EntryInv(e) /\ OnLiveFaces(n, e)
  BY DEF Good
<1>2. w \in Entry /\ SameDownstreams(e, w)
  BY <1>1, WithOutRecordsType
<1>3. EntryInv(w)
  BY <1>1, <1>2, SameDownstreamsInv
<1>4. InFaces(w) = InFaces(e)
  BY <1>2 DEF SameDownstreams, InFaces
<1>5. ASSUME NEW g \in OutFaces(w), g \notin G
      PROVE  g \in OutFaces(e)
  BY <1>1, <1>5 DEF OutFaces, WithOutRecords, Entry
<1>6. OnLiveFaces(n, w)
  BY <1>1, <1>4, <1>5 DEF OnLiveFaces
<1> QED
  BY <1>2, <1>3, <1>6 DEF Good

\* Deleting an out-record keeps an entry good.
LEMMA GoodWithoutOutRecord ==
  ASSUME NEW n, NEW e, Good(n, e), NEW g
  PROVE  Good(n, WithoutOutRecord(e, g))
<1> DEFINE w == WithoutOutRecord(e, g)
<1>1. e \in Entry /\ EntryInv(e) /\ OnLiveFaces(n, e)
  BY DEF Good
<1>2. w \in Entry /\ SameDownstreams(e, w)
  BY <1>1, WithoutOutRecordType
<1>3. EntryInv(w)
  BY <1>1, <1>2, SameDownstreamsInv
<1>4. InFaces(w) = InFaces(e)
  BY <1>2 DEF SameDownstreams, InFaces
<1>5. OutFaces(w) \subseteq OutFaces(e)
  BY <1>1 DEF OutFaces, WithoutOutRecord, Entry
<1> QED
  BY <1>1, <1>2, <1>3, <1>4, <1>5 DEF Good, OnLiveFaces

\* Recording a Nack keeps an entry good.
LEMMA GoodWithIncomingNack ==
  ASSUME NEW n, NEW e, Good(n, e), NEW g \in OutFaces(e), NEW reason \in Reason
  PROVE  Good(n, WithIncomingNack(e, g, reason))
<1> DEFINE w == WithIncomingNack(e, g, reason)
<1>1. e \in Entry /\ EntryInv(e) /\ OnLiveFaces(n, e)
  BY DEF Good
<1>2. w \in Entry /\ SameDownstreams(e, w)
  BY <1>1, WithIncomingNackType
<1>3. EntryInv(w)
  BY <1>1, <1>2, SameDownstreamsInv
<1>4. InFaces(w) = InFaces(e)
  BY <1>2 DEF SameDownstreams, InFaces
<1>5. OutFaces(w) \subseteq OutFaces(e)
  BY <1>1 DEF OutFaces, WithIncomingNack, Entry
<1> QED
  BY <1>1, <1>2, <1>3, <1>4, <1>5 DEF Good, OnLiveFaces

\* Deleting in-records keeps an entry good.
LEMMA GoodWithoutInRecords ==
  ASSUME NEW n, NEW e, Good(n, e), NEW F
  PROVE  Good(n, WithoutInRecords(e, F))
<1> DEFINE w == WithoutInRecords(e, F)
<1>1. e \in Entry /\ EntryInv(e) /\ OnLiveFaces(n, e)
  BY DEF Good
<1>2. w \in Entry /\ InFaces(w) = InFaces(e) \ F /\ w.out = e.out
  BY <1>1, WithoutInRecordsType
<1>3. EntryInv(w)
  BY <1>1, WithoutInRecordsInv
<1>4. OutFaces(w) = OutFaces(e)
  BY <1>2 DEF OutFaces
<1> QED
  BY <1>1, <1>2, <1>3, <1>4 DEF Good, OnLiveFaces

\* onInterestReject keeps an entry good.
LEMMA GoodRejected ==
  ASSUME NEW n, NEW e, Good(n, e)
  PROVE  Good(n, Rejected(e))
<1> DEFINE w == Rejected(e)
<1>1. e \in Entry /\ EntryInv(e) /\ OnLiveFaces(n, e)
  BY DEF Good
<1>2. w \in Entry /\ EntryInv(w)
  BY <1>1, RejectedInv
<1>3. w.in = e.in /\ w.out = e.out
  BY <1>1 DEF Rejected, WithStragglerTimer, WithTimersCancelled, Entry
<1>4. InFaces(w) = InFaces(e) /\ OutFaces(w) = OutFaces(e)
  BY <1>3 DEF InFaces, OutFaces
<1> QED
  BY <1>1, <1>2, <1>4 DEF Good, OnLiveFaces

\* Satisfying an entry leaves it good.
LEMMA GoodSatisfied ==
  ASSUME NEW n, NEW e, Good(n, e), NEW f, NEW result \in Periods
  PROVE  Good(n, Satisfied(e, f, result))
<1> DEFINE w == Satisfied(e, f, result)
<1>1. e \in Entry /\ OnLiveFaces(n, e)
  BY DEF Good
<1>2. w \in Entry /\ EntryInv(w)
  BY <1>1, SatisfiedInv
<1> DEFINE e1 == WithoutInRecords(e, FaceId)
           e2 == WithoutOutRecord(e1, f)
<1>3. e1 \in Entry /\ InFaces(e1) = {} /\ e1.out = e.out
  BY <1>1, WithoutInRecordsType DEF InFaces
<1>4. e2 \in Entry /\ e2.in = e1.in
  BY <1>3, WithoutOutRecordType DEF SameDownstreams
<1>5. OutFaces(e2) \subseteq OutFaces(e)
  BY <1>3 DEF OutFaces, WithoutOutRecord, Entry
<1>6. w.in = e2.in /\ w.out = e2.out
  <2> HIDE DEF e2
  <2> QED
    BY <1>4 DEF Satisfied, WithStragglerTimer, WithTimersCancelled, Entry, e2
<1>7. InFaces(w) = {} /\ OutFaces(w) \subseteq OutFaces(e)
  BY <1>3, <1>4, <1>5, <1>6 DEF InFaces, OutFaces
<1> QED
  BY <1>1, <1>2, <1>7 DEF Good, OnLiveFaces

\* A tick that passes no due timer keeps an entry good.
LEMMA GoodElapse ==
  ASSUME NEW n, NEW e, Good(n, e), e.unsatisfy # 0, e.straggler # 0
  PROVE  Good(n, Elapse(e))
<1> DEFINE w == Elapse(e)
<1>1. e \in Entry /\ EntryInv(e) /\ OnLiveFaces(n, e)
  BY DEF Good
<1>2. w \in Entry /\ EntryInv(w)
  BY <1>1, ElapseInv
<1>3. InFaces(w) \subseteq InFaces(e) /\ OutFaces(w) \subseteq OutFaces(e)
  BY <1>1 DEF Elapse, InFaces, OutFaces, Entry
<1> QED
  BY <1>1, <1>2, <1>3 DEF Good, OnLiveFaces

\* An entry whose timers were cancelled is ready for a pipeline.
LEMMA IdleWithTimersCancelled ==
  ASSUME NEW n, NEW e \in Entry, OnLiveFaces(n, e)
  PROVE  /\ Idle(n, WithTimersCancelled(e))
         /\ InFaces(WithTimersCancelled(e)) = InFaces(e)
<1> DEFINE w == WithTimersCancelled(e)
<1>1. w \in Entry /\ w.in = e.in /\ w.unsatisfy = -1 /\ w.straggler = -1
  BY WithTimersCancelledType
<1>2. w.out = e.out
  BY DEF WithTimersCancelled, Entry
<1>3. InFaces(w) = InFaces(e) /\ OutFaces(w) = OutFaces(e)
  BY <1>1, <1>2 DEF InFaces, OutFaces
<1> QED
  BY <1>1, <1>3 DEF Idle, OnLiveFaces

\* A hit in the ContentStore arms the straggler timer of an entry that nothing
\* waits on.
LEMMA GoodWithStragglerTimer ==
  ASSUME NEW n, NEW e, Idle(n, e), InFaces(e) = {}, NEW result \in Periods
  PROVE  Good(n, WithStragglerTimer(e, result))
<1> DEFINE w == WithStragglerTimer(e, result)
<1>1. e \in Entry /\ e.unsatisfy = -1 /\ OnLiveFaces(n, e)
  BY DEF Idle
<1>2. result \in Result
  BY DEF Result
<1>3. w \in Entry /\ EntryInv(w)
  BY <1>1, <1>2, StragglerInv
<1>4. w.in = e.in /\ w.out = e.out
  BY <1>1 DEF WithStragglerTimer, Entry
<1>5. InFaces(w) = InFaces(e) /\ OutFaces(w) = OutFaces(e)
  BY <1>4 DEF InFaces, OutFaces
<1> QED
  BY <1>1, <1>3, <1>5 DEF Good, OnLiveFaces

\* A miss adds the in-record of the face and then arms the unsatisfy timer.
LEMMA GoodWithUnsatisfyTimer ==
  ASSUME NEW n, NEW e, Idle(n, e), NEW f \in FaceId, Live(n, f), NEW i \in Interest,
         NEW h \in FaceId, IsLastExpiring(WithInRecord(e, f, i), h)
  PROVE  /\ Good(n, WithUnsatisfyTimer(WithInRecord(e, f, i), h))
         /\ f \in InFaces(WithUnsatisfyTimer(WithInRecord(e, f, i), h))
<1> DEFINE e1 == WithInRecord(e, f, i)
           w  == WithUnsatisfyTimer(e1, h)
<1>1. e \in Entry /\ e.straggler = -1 /\ OnLiveFaces(n, e)
  BY DEF Idle
<1>2. /\ e1 \in Entry /\ e1.straggler = -1 /\ f \in InFaces(e1)
      /\ \E g \in InFaces(e1) : e1.in[g].expires >= 0
  BY <1>1, WithInRecordType
<1>3. InFaces(e1) \subseteq InFaces(e) \cup {f} /\ e1.out = e.out
  BY <1>1 DEF WithInRecord, InFaces, Entry
<1>4. w \in Entry /\ EntryInv(w)
  <2> HIDE DEF e1
  <2> QED
    BY <1>2, WithUnsatisfyTimerType DEF e1
<1>5. w.in = e1.in /\ w.out = e1.out
  <2> HIDE DEF e1
  <2> QED
    BY <1>2 DEF WithUnsatisfyTimer, Entry
<1>6. InFaces(w) = InFaces(e1) /\ OutFaces(w) = OutFaces(e)
  BY <1>3, <1>5 DEF InFaces, OutFaces
<1>7. f \in Usable(n)
  BY DEF Usable, OutFace
<1> QED
  BY <1>1, <1>2, <1>3, <1>4, <1>6, <1>7 DEF Good, OnLiveFaces

------------------------------------------------------------------------------
(* The tails of the handlers leave one good entry behind, and put packets on  *)
(* faces.                                                                     *)

SentType == [at : NodeId, face : OutFace, pkt : Packet]

Outcome(n, k) ==
  /\ \E e \in Entry : Good(n, e) /\ Put(n, k, e)
  /\ sent' \subseteq SentType
  /\ status' \in Status

\* What Sends puts on faces is well typed.
LEMMA SendsType ==
  ASSUME NEW n \in NodeId, NEW F \in SUBSET OutFace, NEW p \in Packet
  PROVE  Sends(n, F, p) \subseteq SentType
  BY DEF Sends, SentType

\* The faces a strategy may use can have out-records.
LEMMA UsableType ==
  ASSUME NEW n
  PROVE  /\ Usable(n) \subseteq OutFace
         /\ \A g \in FaceId : Live(n, g) => g \in Usable(n)
         /\ FaceId \subseteq OutFace
  BY DEF Usable, OutFace

\* A handler that ends quietly with a good entry has a good outcome.
LEMMA DoneOutcome ==
  ASSUME TypeOK, NEW n \in NodeId, NEW k \in Key, NEW e, Good(n, e), Done(n, k, e)
  PROVE  Outcome(n, k)
  BY DEF Done, Outcome, Good, TypeOK

\* onOutgoingInterest to faces that may be used has a good outcome.
LEMMA OutgoingInterestOutcome ==
  ASSUME TypeOK, NEW n \in NodeId, NEW k \in Key, NEW e, Good(n, e),
         NEW G \in SUBSET Usable(n), NEW i \in Interest, OutgoingInterest(n, k, e, G, i)
  PROVE  Outcome(n, k)
<1>1. Good(n, WithOutRecords(e, G, i))
  BY GoodWithOutRecords
<1>2. WithOutRecords(e, G, i) \in Entry
  BY <1>1 DEF Good
<1>3. i \in Packet /\ G \in SUBSET OutFace
  BY UsableType DEF Packet
<1>4. Sends(n, G, i) \subseteq SentType
  BY <1>3, SendsType
<1> QED
  BY <1>1, <1>2, <1>4 DEF OutgoingInterest, Outcome, TypeOK

\* The Nack made from an in-record is a packet.
LEMMA NackOfType ==
  ASSUME NEW k \in Key, NEW e \in Entry, NEW f \in InFaces(e), NEW reason \in Reason
  PROVE  NackOf(k, e, f, reason) \in Packet
<1>1. e.in[f] \in InRecord
  BY InRecordType
<1> QED
  BY <1>1 DEF NackOf, InRecord, Packet, Nack

\* The Nacks for a set of downstreams are well typed.
LEMMA NacksType ==
  ASSUME NEW n \in NodeId, NEW k \in Key, NEW e \in Entry, NEW F, NEW reason \in Reason
  PROVE  {[at |-> n, face |-> f, pkt |-> NackOf(k, e, f, reason)] :
            f \in Nackable(n, e, F)} \subseteq SentType
<1>1. \A f \in Nackable(n, e, F) : f \in InFaces(e) /\ f \in OutFace
  BY DEF Nackable, InFaces, OutFace
<1>2. \A f \in Nackable(n, e, F) : NackOf(k, e, f, reason) \in Packet
  BY <1>1, NackOfType
<1> QED
  BY <1>1, <1>2 DEF SentType

\* onOutgoingNack has a good outcome.
LEMMA OutgoingNackOutcome ==
  ASSUME TypeOK, NEW n \in NodeId, NEW k \in Key, NEW e, Good(n, e), NEW F,
         NEW reason \in Reason, OutgoingNack(n, k, e, F, reason)
  PROVE  Outcome(n, k)
<1> DEFINE w == WithoutInRecords(e, Nackable(n, e, F))
<1>1. Good(n, w)
  BY GoodWithoutInRecords
<1>2. w \in Entry /\ e \in Entry
  BY <1>1 DEF Good
<1>3. Put(n, k, w) /\ status' = status
  BY DEF OutgoingNack
<1>4. sent' \subseteq SentType
  BY <1>2, NacksType DEF OutgoingNack
<1> QED
  BY <1>1, <1>2, <1>3, <1>4 DEF Outcome, TypeOK

\* The CHOOSE of LeastSevere finds a reason: the severities are ordered.
LEMMA LeastSevereType ==
  ASSUME NEW reasons \in SUBSET Reason
  PROVE  LeastSevere(reasons) \in Reason
<1> DEFINE Least(r) == r \in reasons \cup {"NoReason"} /\
                       \A s \in reasons : Severity[r] <= Severity[s]
<1>1. /\ Severity["NoReason"] = 200 /\ Severity["NoRoute"] = 150
      /\ Severity["Duplicate"] = 100 /\ Severity["Congestion"] = 50
  BY DEF Severity
<1>2. \A s \in reasons : s \in {"NoReason", "Duplicate", "NoRoute", "Congestion"}
  BY DEF Reason
<1>3. \A s \in reasons : Severity[s] \in {50, 100, 150, 200}
  BY <1>1, <1>2
<1>4. \E r \in reasons \cup {"NoReason"} : \A s \in reasons : Severity[r] <= Severity[s]
  <2>1. CASE "Congestion" \in reasons
    BY <1>1, <1>3, <2>1
  <2>2. CASE "Congestion" \notin reasons /\ "Duplicate" \in reasons
    <3>1. \A s \in reasons : Severity[s] \in {100, 150, 200}
      BY <1>1, <1>2, <2>2
    <3> QED
      BY <1>1, <2>2, <3>1
  <2>3. CASE {"Congestion", "Duplicate"} \cap reasons = {} /\ "NoRoute" \in reasons
    <3>1. \A s \in reasons : Severity[s] \in {150, 200}
      BY <1>1, <1>2, <2>3
    <3> QED
      BY <1>1, <2>3, <3>1
  <2>4. CASE {"Congestion", "Duplicate", "NoRoute"} \cap reasons = {}
    <3>1. \A s \in reasons : Severity[s] = 200
      BY <1>1, <1>2, <2>4
    <3> QED
      BY <1>1, <3>1
  <2> QED
    BY <2>1, <2>2, <2>3, <2>4
<1>5. LeastSevere(reasons) \in reasons \cup {"NoReason"}
  BY <1>4 DEF LeastSevere
<1> QED
  BY <1>5 DEF Reason

\* best-route's afterReceiveNack has a good outcome.
LEMMA AfterReceiveNackOutcome ==
  ASSUME TypeOK, NEW n \in NodeId, NEW k \in Key, NEW e, Good(n, e),
         AfterReceiveNack(n, k, e)
  PROVE  Outcome(n, k)
<1> DEFINE reason == LeastSevere(NackReasons(e))
<1>1. NackReasons(e) \in SUBSET Reason
  <2>1. e \in Entry
    BY DEF Good
  <2>2. \A g \in OutFaces(e) : e.out[g].nack \in Reason \cup {NotNacked}
    BY <2>1, OutRecordType DEF OutRecord
  <2> QED
    BY <2>2 DEF NackReasons
<1>2. reason \in Reason
  BY <1>1, LeastSevereType
<1>3. \/ OutgoingNack(n, k, e, FaceId, reason)
      \/ \E g \in NotNackedFaces(e) : OutgoingNack(n, k, e, {g}, reason)
      \/ Done(n, k, e)
  BY DEF AfterReceiveNack
<1> HIDE DEF reason
<1> QED
  BY <1>2, <1>3, DoneOutcome, OutgoingNackOutcome

\* afterReceiveNack of any strategy has a good outcome.
LEMMA NackTriggerOutcome ==
  ASSUME TypeOK, NEW n \in NodeId, NEW k \in Key, NEW e, Good(n, e), NackTrigger(n, k, e)
  PROVE  Outcome(n, k)
  BY AfterReceiveNackOutcome, DoneOutcome DEF NackTrigger

------------------------------------------------------------------------------
(* Forwarding by the FIB. *)

\* The nexthops that are left in the FIB are live faces.
LEMMA NextHopsUsable ==
  ASSUME NEW n, NEW name, NEW j \in NextHops(n, name)
  PROVE  Fib[n][name][j] \in Usable(n)
  BY DEF NextHops, Usable, Live, OutFace

\* Forwarding to a nexthop has a good outcome.
LEMMA ForwardToFirstOutcome ==
  ASSUME TypeOK, NEW n \in NodeId, NEW k \in Key, NEW e, Good(n, e), NEW i \in Interest,
         NEW J \in SUBSET NextHops(n, k.name), ForwardToFirst(n, k, e, J, i)
  PROVE  Outcome(n, k)
<1>1. PICK j \in J : OutgoingInterest(n, k, e, {Fib[n][k.name][j]}, i)
  BY DEF ForwardToFirst
<1>2. {Fib[n][k.name][j]} \in SUBSET Usable(n)
  BY NextHopsUsable
<1> QED
  BY <1>1, <1>2, OutgoingInterestOutcome

\* best-route without the hash has a good outcome.
LEMMA BestRouteOutcome ==
  ASSUME TypeOK, NEW n \in NodeId, NEW k \in Key, NEW e, Good(n, e), NEW f,
         NEW i \in Interest, BestRoute(n, k, e, f, i)
  PROVE  Outcome(n, k)
<1>1. CASE ForwardNew(n, k, e, f, i)
  BY <1>1, ForwardToFirstOutcome DEF ForwardNew, Eligible
<1>2. CASE NoNextHop(n, k, e, f)
  <2> DEFINE w == Rejected(WithoutInRecords(e, Nackable(n, e, {f})))
  <2>1. Good(n, w)
    BY GoodWithoutInRecords, GoodRejected
  <2>2. w \in Entry /\ e \in Entry
    BY <2>1 DEF Good
  <2>3. Put(n, k, w) /\ status' = status
    BY <1>2 DEF NoNextHop
  <2>4. sent' \subseteq SentType
    BY <1>2, <2>2, NacksType DEF NoNextHop, Reason
  <2> QED
    BY <2>1, <2>2, <2>3, <2>4 DEF Outcome, TypeOK
<1>3. CASE RetransmitUnused(n, k, e, f, i)
  BY <1>3, ForwardToFirstOutcome DEF RetransmitUnused, Unused, Eligible
<1>4. CASE RetransmitRetry(n, k, e, f, i)
  <2>1. Done(n, k, e) \/ \E J \in SUBSET Eligible(n, f, k.name) : ForwardToFirst(n, k, e, J, i)
    BY <1>4 DEF RetransmitRetry
  <2> QED
    BY <2>1, DoneOutcome, ForwardToFirstOutcome DEF Eligible
<1> QED
  BY <1>1, <1>2, <1>3, <1>4 DEF BestRoute

\* multicast without the hash has a good outcome.
LEMMA MulticastOutcome ==
  ASSUME TypeOK, NEW n \in NodeId, NEW k \in Key, NEW e, Good(n, e), NEW f,
         NEW i \in Interest, Multicast(n, k, e, f, i)
  PROVE  Outcome(n, k)
<1> DEFINE G == {Fib[n][k.name][j] : j \in Sendable(n, e, f, k.name)}
           w == Rejected(WithOutRecords(e, G, i))
<1>1. G \in SUBSET Usable(n)
  BY NextHopsUsable DEF Sendable
<1>2. Good(n, w)
  BY <1>1, GoodWithOutRecords, GoodRejected
<1>3. w \in Entry
  BY <1>2 DEF Good
<1>4. Put(n, k, w) /\ sent' = Sends(n, G, i) /\ status' = status
  BY DEF Multicast
<1>5. i \in Packet /\ G \in SUBSET OutFace
  BY <1>1, UsableType DEF Packet
<1>6. sent' \subseteq SentType
  BY <1>4, <1>5, SendsType
<1> QED
  BY <1>2, <1>3, <1>4, <1>6 DEF Outcome, TypeOK

\* The first best-route strategy has a good outcome.
LEMMA BestRouteV1Outcome ==
  ASSUME TypeOK, NEW n \in NodeId, NEW k \in Key, NEW e, Good(n, e), NEW f,
         NEW i \in Interest, BestRouteV1(n, k, e, f, i)
  PROVE  Outcome(n, k)
<1>1. \/ Done(n, k, e) \/ Done(n, k, Rejected(e))
      \/ ForwardToFirst(n, k, e, Sendable(n, e, f, k.name), i)
  BY DEF BestRouteV1
<1>2. Sendable(n, e, f, k.name) \in SUBSET NextHops(n, k.name)
  BY DEF Sendable
<1> QED
  BY <1>1, <1>2, GoodRejected, DoneOutcome, ForwardToFirstOutcome

\* Forwarding by the FIB has a good outcome.
LEMMA ForwardByFibOutcome ==
  ASSUME TypeOK, NEW n \in NodeId, NEW k \in Key, NEW e, Good(n, e), NEW f,
         NEW i \in Interest, ForwardByFib(n, k, e, f, i)
  PROVE  Outcome(n, k)
  BY BestRouteOutcome, MulticastOutcome, BestRouteV1Outcome DEF ForwardByFib

------------------------------------------------------------------------------
(* Hash-guided forwarding, and the strategies. *)

\* A process that stops in a strategy leaves a good entry behind.
LEMMA StopOutcome ==
  ASSUME TypeOK, NEW n \in NodeId, NEW k \in Key, NEW e, Good(n, e), Put(n, k, e),
         sent' = {}, status' \in Status
  PROVE  Outcome(n, k)
  BY DEF Outcome, Good

\* Following the tag of cached Data has a good outcome: lookupCs is defined.
LEMMA ForwardToNearestOutcome ==
  ASSUME TypeOK, NEW n \in NodeId, NEW k \in Key, NEW e, Good(n, e), NEW f,
         NEW i \in Interest, ForwardToNearest(n, k, e, f, i)
  PROVE  Outcome(n, k)
<1>1. PICK c : LookupCsIsDefined(n, c) /\ OutgoingInterest(n, k, e, {c.tag}, i)
  BY DEF ForwardToNearest
<1>2. {c.tag} \in SUBSET Usable(n)
  BY <1>1 DEF LookupCsIsDefined, Usable, Live, OutFace
<1> QED
  BY <1>1, <1>2, OutgoingInterestOutcome

\* Forwarding to a face drawn at random has a good outcome.
LEMMA ForwardToRandomOutcome ==
  ASSUME TypeOK, NEW n \in NodeId, NEW k \in Key, NEW e, Good(n, e), NEW f,
         NEW i \in Interest, ForwardToRandom(n, k, e, f, i)
  PROVE  Outcome(n, k)
<1>1. PICK g \in RandomFaces(n, f) : OutgoingInterest(n, k, e, {g}, i)
  BY DEF ForwardToRandom
<1>2. {g} \in SUBSET Usable(n)
  BY DEF RandomFaces, Usable, Live, OutFace
<1> QED
  BY <1>1, <1>2, OutgoingInterestOutcome

\* afterReceiveInterest of any strategy has a good outcome.
LEMMA AfterReceiveInterestOutcome ==
  ASSUME TypeOK, NEW n \in NodeId, NEW k \in Key, NEW e, Good(n, e), NEW f,
         NEW i \in Interest, AfterReceiveInterest(n, k, e, f, i)
  PROVE  Outcome(n, k)
<1>1. \/ ForwardByFib(n, k, e, f, i)     \/ ForwardToNearest(n, k, e, f, i)
      \/ NearestFaceIsUndefined(n, k, e) \/ AfterReceiveNack(n, k, e)
      \/ ForwardToRandom(n, k, e, f, i)  \/ DrawForever(n, k, e, f)
  BY DEF AfterReceiveInterest
<1>2. CASE NearestFaceIsUndefined(n, k, e)
  BY <1>2, StopOutcome DEF NearestFaceIsUndefined, Status
<1>3. CASE DrawForever(n, k, e, f)
  BY <1>3, StopOutcome DEF DrawForever, Status
<1> QED
  BY <1>1, <1>2, <1>3, ForwardByFibOutcome, ForwardToNearestOutcome,
     AfterReceiveNackOutcome, ForwardToRandomOutcome

------------------------------------------------------------------------------
(* The incoming Interest pipelines. *)

CsType == [NodeId -> SUBSET CsEntry]

\* The FreshnessPeriod of Data is one of the three periods.
LEMMA FreshnessType ==
  ASSUME NEW d \in Data
  PROVE  FreshnessOf(d) \in Periods
<1>1. d.name \in Name
  BY DEF Data
<1>2. Freshness[d.name] \in Periods
  BY <1>1, PacketsAssumption
<1> QED
  BY <1>2 DEF FreshnessOf, Periods

\* What onOutgoingData puts on faces is well typed.
LEMMA DataToType ==
  ASSUME NEW n \in NodeId, NEW F, NEW d \in Data
  PROVE  DataTo(n, F, d) \subseteq SentType
<1> DEFINE G == {f \in F : Live(n, f) /\ ~ViolatesLocalhost(n, f, d.name)}
<1>1. G \in SUBSET OutFace /\ d \in Packet
  BY DEF Live, OutFace, Packet
<1> QED
  BY <1>1, SendsType DEF DataTo

\* onContentStoreMiss has a good outcome: the unsatisfy timer it sets lasts as
\* long as the last in-record.
LEMMA ContentStoreMissOutcome ==
  ASSUME TypeOK, NEW n \in NodeId, NEW k \in Key, NEW e, Idle(n, e),
         NEW f \in FaceId, Live(n, f), NEW i \in Interest, ContentStoreMiss(n, k, e, f, i)
  PROVE  Outcome(n, k) /\ cs' = cs
<1> DEFINE After(h) == WithUnsatisfyTimer(WithInRecord(e, f, i), h)
<1>1. PICK h \in FaceId :
        /\ IsLastExpiring(WithInRecord(e, f, i), h)
        /\ \/ Live(n, i.nextHop) /\ OutgoingInterest(n, k, After(h), {i.nextHop}, i)
           \/ Done(n, k, After(h))
           \/ AfterReceiveInterest(n, k, After(h), f, i)
        /\ cs' = cs
  BY DEF ContentStoreMiss
<1>2. Good(n, After(h))
  BY <1>1, GoodWithUnsatisfyTimer
<1>3. Live(n, i.nextHop) => {i.nextHop} \in SUBSET Usable(n)
  BY DEF Usable, Live, OutFace
<1> HIDE DEF After
<1> QED
  BY <1>1, <1>2, <1>3, OutgoingInterestOutcome, DoneOutcome, AfterReceiveInterestOutcome

\* onContentStoreHit has a good outcome: the entry has no downstream.
LEMMA ContentStoreHitOutcome ==
  ASSUME TypeOK, NEW n \in NodeId, NEW k \in Key, NEW e, Idle(n, e), InFaces(e) = {},
         NEW f \in FaceId, NEW c \in cs[n], ContentStoreHit(n, k, e, f, c)
  PROVE  Outcome(n, k) /\ cs' \in CsType
<1> DEFINE w == WithStragglerTimer(e, FreshnessOf(c.data))
<1>1. c \in CsEntry /\ c.data \in Data
  BY DEF TypeOK, CsEntry
<1>2. Good(n, w)
  BY <1>1, FreshnessType, GoodWithStragglerTimer
<1>3. w \in Entry
  BY <1>2 DEF Good
<1>4. Put(n, k, w) /\ status' = status /\ sent' = DataTo(n, {f}, c.data)
  BY DEF ContentStoreHit
<1>5. Outcome(n, k)
  BY <1>1, <1>2, <1>3, <1>4, DataToType DEF Outcome, TypeOK
<1>6. [c EXCEPT !.tag = FACEID_CONTENT_STORE] \in CsEntry
  BY <1>1 DEF CsEntry, OutFace
<1>7. cs' \in CsType
  BY <1>6 DEF ContentStoreHit, CsType, TypeOK
<1> QED
  BY <1>5, <1>7

\* The reply to a consumer-hash Interest has a good outcome.
LEMMA ConsumerHashHitOutcome ==
  ASSUME TypeOK, NEW n \in NodeId, NEW k \in Key, NEW e, Idle(n, e), InFaces(e) = {},
         NEW f \in FaceId, NEW i \in Interest, ConsumerHashHit(n, k, e, f, i)
  PROVE  Outcome(n, k) /\ cs' = cs
<1> DEFINE reply(c) == [type |-> "Data", name |-> k.name, inner |-> c.data.name,
                        parsed |-> FALSE]
           w(c)     == WithStragglerTimer(e, FreshnessOf(reply(c)))
<1>1. PICK c \in Nearest(n, i.id) :
        /\ Put(n, k, w(c)) /\ sent' = DataTo(n, {f}, reply(c))
        /\ cs' = cs /\ status' = status
  BY DEF ConsumerHashHit
<1>2. c.data \in Data
  BY DEF Nearest, TypeOK, CsEntry
<1>3. reply(c) \in Data
  BY <1>2 DEF Data, Key
<1> HIDE DEF reply
<1>4. Good(n, w(c))
  BY <1>3, FreshnessType, GoodWithStragglerTimer
<1>5. w(c) \in Entry
  BY <1>4 DEF Good
<1>6. DataTo(n, {f}, reply(c)) \subseteq SentType
  BY <1>3, DataToType
<1> QED
  BY <1>1, <1>4, <1>5, <1>6 DEF Outcome, TypeOK

\* A ContentStore lookup, hit or miss, has a good outcome.
LEMMA CsLookupOutcome ==
  ASSUME TypeOK, NEW n \in NodeId, NEW k \in Key, NEW e, Idle(n, e), InFaces(e) = {},
         NEW f \in FaceId, Live(n, f), NEW i \in Interest, CsLookup(n, k, e, f, i)
  PROVE  Outcome(n, k) /\ cs' \in CsType
<1>1. CASE \E c \in CsMatches(n, k) : ContentStoreHit(n, k, e, f, c)
  BY <1>1, ContentStoreHitOutcome DEF CsMatches
<1>2. CASE ContentStoreMiss(n, k, e, f, i)
  BY <1>2, ContentStoreMissOutcome DEF CsType, TypeOK
<1> QED
  BY <1>1, <1>2 DEF CsLookup

EntriesGood == \A n \in NodeId, k \in Key : Present(n, k) => Good(n, pit[n][k])

\* The inductive invariant.
Inv == TypeOK /\ EntriesGood

\* A handler that rejects a packet before it reaches the PIT.
Quiet == pit' = pit /\ sent' \subseteq SentType /\ status' = status

\* The entry that a pipeline finds or inserts is well formed, and good when it
\* already holds a nonce.
LEMMA EntryForType ==
  ASSUME Inv, NEW n \in NodeId, NEW k \in Key
  PROVE  /\ EntryFor(n, k) \in Entry /\ OnLiveFaces(n, EntryFor(n, k))
         /\ \A nonce : HasDuplicateNonce(EntryFor(n, k), nonce) => Good(n, EntryFor(n, k))
<1>1. CASE pit[n][k] = NoEntry
  <2>1. EntryFor(n, k) = NewEntry
    BY <1>1 DEF EntryFor
  <2>2. InFaces(NewEntry) = {} /\ OutFaces(NewEntry) = {}
    BY DEF NewEntry, InFaces, OutFaces
  <2> QED
    BY <2>1, <2>2, NewEntryType DEF OnLiveFaces, HasDuplicateNonce
<1>2. CASE pit[n][k] # NoEntry
  BY <1>2 DEF EntryFor, Inv, EntriesGood, Present, Good
<1> QED
  BY <1>1, <1>2

\* The hash flags of an entry matter to none of the invariants.
LEMMA FlaggedType ==
  ASSUME NEW n, NEW e \in Entry, OnLiveFaces(n, e), NEW w \in Entry,
         w.out = e.out, SameDownstreams(e, w)
  PROVE  /\ OnLiveFaces(n, w)
         /\ \A nonce : HasDuplicateNonce(w, nonce) => HasDuplicateNonce(e, nonce)
         /\ Good(n, e) => Good(n, w)
<1>1. w.in = e.in
  BY DEF SameDownstreams
<1>2. InFaces(w) = InFaces(e) /\ OutFaces(w) = OutFaces(e)
  BY <1>1 DEF InFaces, OutFaces
<1>3. OnLiveFaces(n, w)
  BY <1>2 DEF OnLiveFaces
<1>4. \A nonce : HasDuplicateNonce(w, nonce) => HasDuplicateNonce(e, nonce)
  BY <1>1, <1>2 DEF HasDuplicateNonce
<1>5. ASSUME Good(n, e)
      PROVE  Good(n, w)
  BY <1>3, <1>5, SameDownstreamsInv DEF Good
<1> QED
  BY <1>3, <1>4, <1>5

\* A Nack sent outside the Nack pipeline is well typed.
LEMMA DirectNackType ==
  ASSUME NEW n \in NodeId, NEW f \in FaceId, NEW i \in Interest, NEW reason \in Reason,
         DirectNack(n, f, i, reason)
  PROVE  sent' \subseteq SentType
<1>1. NackFor(i, reason) \in Packet /\ {f} \in SUBSET OutFace
  BY DEF NackFor, Interest, Nack, Packet, OutFace
<1> QED
  BY <1>1, SendsType DEF DirectNack

\* The Interest the hash pipeline rewrites is an Interest.
LEMMA NextHashType ==
  ASSUME NEW i \in Interest, UsesHashPipeline(i)
  PROVE  NextHash(i) \in Interest
<1>1. i.ttl - 1 \in 0 .. TTL_MAX + 1
  BY PacketsAssumption DEF UsesHashPipeline, Interest
<1>2. (IF i.flag = 2 THEN 1 ELSE i.flag) \in HashFlag
  BY DEF Interest, HashFlag
<1> QED
  BY <1>1, <1>2 DEF NextHash, Interest

\* The ways the hash pipeline ends: in a Nack, or in a hit or a miss for an entry
\* whose timers are cancelled, with the Interest as it is rewritten.
LEMMA HashPipelineCases ==
  ASSUME Inv, NEW n \in NodeId, NEW f \in FaceId, NEW i \in Interest,
         UsesHashPipeline(i), HashPipeline(n, f, i)
  PROVE  \/ DirectNack(n, f, i, "NoReason") /\ UNCHANGED <<pit, cs, status>>
         \/ /\ \E e \in Entry : Good(n, e) /\ Put(n, i.key, e)
            /\ DirectNack(n, f, NextHash(i), "NoReason") /\ UNCHANGED <<cs, status>>
         \/ \E e \in Entry :
              /\ Idle(n, e) /\ InFaces(e) = {}
              /\ \/ ConsumerHashHit(n, i.key, e, f, NextHash(i))
                 \/ CsLookup(n, i.key, e, f, NextHash(i))
         \/ \E e \in Entry : Idle(n, e) /\ ContentStoreMiss(n, i.key, e, f, NextHash(i))
<1> DEFINE k == i.key
           j == NextHash(i)
           e0 == EntryFor(n, k)
           a == e0.hashStart \/ i.flag = 2
           b == e0.consumerHash \/ i.flag = 11
           e == [e0 EXCEPT !.hashStart = a, !.consumerHash = b]
           idle == WithTimersCancelled(e)
<1>1. k \in Key
  BY DEF Interest
<1>2. a \in BOOLEAN /\ b \in BOOLEAN
  OBVIOUS
<1>3. /\ e0 \in Entry /\ OnLiveFaces(n, e0)
      /\ \A nonce : HasDuplicateNonce(e0, nonce) => Good(n, e0)
  BY <1>1, EntryForType
<1>4. \/ DirectNack(n, f, i, "NoReason") /\ UNCHANGED <<pit, cs, status>>
      \/ /\ HasDuplicateNonce(e, i.nonce) /\ Put(n, k, e)
         /\ DirectNack(n, f, j, "NoReason") /\ UNCHANGED <<cs, status>>
      \/ InFaces(e) = {} /\ ConsumerHashHit(n, k, idle, f, j)
      \/ InFaces(e) = {} /\ CsLookup(n, k, idle, f, j)
      \/ ContentStoreMiss(n, k, idle, f, j)
  BY DEF HashPipeline
<1> HIDE DEF a, b, k, j, e0, e
<1>5. /\ e \in Entry /\ OnLiveFaces(n, e)
      /\ HasDuplicateNonce(e, i.nonce) => Good(n, e)
  <2>1. e \in Entry
    BY <1>2, <1>3 DEF e, Entry
  <2>2. e.out = e0.out /\ SameDownstreams(e0, e)
    BY <1>3 DEF e, Entry, SameDownstreams
  <2>3. /\ OnLiveFaces(n, e)
        /\ \A nonce : HasDuplicateNonce(e, nonce) => HasDuplicateNonce(e0, nonce)
        /\ Good(n, e0) => Good(n, e)
    BY <1>3, <2>1, <2>2, FlaggedType
  <2> QED
    BY <1>3, <2>1, <2>3
<1>6. Idle(n, idle) /\ InFaces(idle) = InFaces(e)
  BY <1>5, IdleWithTimersCancelled
<1>7. idle \in Entry
  BY <1>6 DEF Idle
<1> HIDE DEF idle
<1> QED
  BY <1>4, <1>5, <1>6, <1>7 DEF k, j

\* The hash pipeline changes at most the entry of its Interest, to a good one.
LEMMA HashPipelineStep ==
  ASSUME Inv, NEW n \in NodeId, NEW f \in FaceId, Live(n, f), NEW i \in Interest,
         UsesHashPipeline(i), HashPipeline(n, f, i)
  PROVE  (Quiet \/ Outcome(n, i.key)) /\ cs' \in CsType
<1> DEFINE j == NextHash(i)
<1>1. TypeOK /\ cs \in CsType
  BY DEF Inv, TypeOK, CsType
<1>2. i.key \in Key /\ j \in Interest
  BY NextHashType DEF Interest
<1> HIDE DEF j
<1>3. "NoReason" \in Reason
  BY DEF Reason
<1>4. CASE DirectNack(n, f, i, "NoReason") /\ UNCHANGED <<pit, cs, status>>
  BY <1>1, <1>3, <1>4, DirectNackType DEF Quiet
<1>5. CASE /\ \E e \in Entry : Good(n, e) /\ Put(n, i.key, e)
           /\ DirectNack(n, f, j, "NoReason") /\ UNCHANGED <<cs, status>>
  <2>1. sent' \subseteq SentType
    BY <1>2, <1>3, <1>5, DirectNackType
  <2> QED
    BY <1>1, <1>5, <2>1 DEF Outcome, TypeOK
<1>6. ASSUME NEW e, Idle(n, e), InFaces(e) = {}, ConsumerHashHit(n, i.key, e, f, j)
      PROVE  Outcome(n, i.key) /\ cs' \in CsType
  BY <1>1, <1>2, <1>6, ConsumerHashHitOutcome
<1>7. ASSUME NEW e, Idle(n, e), InFaces(e) = {}, CsLookup(n, i.key, e, f, j)
      PROVE  Outcome(n, i.key) /\ cs' \in CsType
  BY <1>1, <1>2, <1>7, CsLookupOutcome
<1>8. ASSUME NEW e, Idle(n, e), ContentStoreMiss(n, i.key, e, f, j)
      PROVE  Outcome(n, i.key) /\ cs' \in CsType
  BY <1>1, <1>2, <1>8, ContentStoreMissOutcome
<1> QED
  BY <1>4, <1>5, <1>6, <1>7, <1>8, HashPipelineCases DEF j

\* The ways the ordinary pipeline ends.
LEMMA OrdinaryPipelineCases ==
  ASSUME Inv, NEW n \in NodeId, NEW f \in FaceId, NEW i \in Interest,
         OrdinaryPipeline(n, f, i)
  PROVE  \/ DirectNack(n, f, i, "Duplicate") /\ UNCHANGED <<pit, cs, status>>
         \/ \E e \in Entry : Idle(n, e) /\ InFaces(e) = {} /\ CsLookup(n, i.key, e, f, i)
         \/ \E e \in Entry : Idle(n, e) /\ ContentStoreMiss(n, i.key, e, f, i)
<1> DEFINE k == i.key
           e == EntryFor(n, k)
           idle == WithTimersCancelled(e)
<1>1. k \in Key
  BY DEF Interest
<1>2. e \in Entry /\ OnLiveFaces(n, e)
  BY <1>1, EntryForType
<1>3. Idle(n, idle) /\ InFaces(idle) = InFaces(e)
  BY <1>2, IdleWithTimersCancelled
<1>4. \/ DirectNack(n, f, i, "Duplicate") /\ UNCHANGED <<pit, cs, status>>
      \/ InFaces(e) = {} /\ CsLookup(n, k, idle, f, i)
      \/ ContentStoreMiss(n, k, idle, f, i)
  BY DEF OrdinaryPipeline
<1>5. idle \in Entry
  BY <1>3 DEF Idle
<1> HIDE DEF idle
<1> QED
  BY <1>3, <1>4, <1>5

\* The ordinary pipeline changes at most the entry of its Interest, to a good one.
LEMMA OrdinaryPipelineStep ==
  ASSUME Inv, NEW n \in NodeId, NEW f \in FaceId, Live(n, f), NEW i \in Interest,
         OrdinaryPipeline(n, f, i)
  PROVE  (Quiet \/ Outcome(n, i.key)) /\ cs' \in CsType
<1>1. TypeOK /\ cs \in CsType
  BY DEF Inv, TypeOK, CsType
<1>2. i.key \in Key
  BY DEF Interest
<1>3. CASE DirectNack(n, f, i, "Duplicate") /\ UNCHANGED <<pit, cs, status>>
  BY <1>1, <1>3, DirectNackType DEF Quiet, Reason
<1>4. ASSUME NEW e, Idle(n, e), InFaces(e) = {}, CsLookup(n, i.key, e, f, i)
      PROVE  Outcome(n, i.key) /\ cs' \in CsType
  BY <1>1, <1>2, <1>4, CsLookupOutcome
<1>5. ASSUME NEW e, Idle(n, e), ContentStoreMiss(n, i.key, e, f, i)
      PROVE  Outcome(n, i.key) /\ cs' \in CsType
  BY <1>1, <1>2, <1>5, ContentStoreMissOutcome
<1> QED
  BY <1>3, <1>4, <1>5, OrdinaryPipelineCases

------------------------------------------------------------------------------
(* Every step keeps the invariant. *)

\* A handler with a good outcome preserves the invariant.
LEMMA OutcomeInv ==
  ASSUME Inv, NEW n \in NodeId, NEW k \in Key, Quiet \/ Outcome(n, k), cs' \in CsType,
         UNCHANGED <<dnl, face, last>>
  PROVE  Inv'
<1>1. pit \in [NodeId -> [Key -> Entry \cup {NoEntry}]] /\ EntriesGood
  BY DEF Inv, TypeOK
<1>2. \A m \in NodeId : Usable(m)' = Usable(m)
  BY DEF Usable, Live
<1>3. CASE Quiet
  <2>1. TypeOK'
    BY <1>3 DEF Inv, TypeOK, Quiet, SentType, CsType
  <2>2. EntriesGood'
    BY <1>1, <1>2, <1>3 DEF Quiet, EntriesGood, Present, Good, OnLiveFaces
  <2> QED
    BY <2>1, <2>2 DEF Inv
<1>4. CASE Outcome(n, k)
  <2>1. PICK e \in Entry : Good(n, e) /\ pit' = [pit EXCEPT ![n][k] = e]
    BY <1>4 DEF Outcome, Put
  <2>2. pit' \in [NodeId -> [Key -> Entry \cup {NoEntry}]]
    BY <1>1, <2>1
  <2>3. TypeOK'
    BY <1>4, <2>2 DEF Outcome, Inv, TypeOK, SentType, CsType
  <2>4. ASSUME NEW m \in NodeId, NEW h \in Key, pit'[m][h] # NoEntry
        PROVE  Good(m, pit'[m][h])
    <3>1. pit'[m][h] = IF m = n /\ h = k THEN e ELSE pit[m][h]
      BY <1>1, <2>1
    <3> QED
      BY <1>1, <2>1, <2>4, <3>1 DEF EntriesGood, Present
  <2>5. EntriesGood'
    BY <1>2, <2>4 DEF EntriesGood, Present, Good, OnLiveFaces
  <2> QED
    BY <2>3, <2>5 DEF Inv
<1> QED
  BY <1>3, <1>4

\* The incoming Interest pipeline has a good outcome.
LEMMA ReceiveInterestOutcome ==
  ASSUME Inv, NEW n \in NodeId, NEW f \in FaceId, NEW i \in InterestIn,
         ReceiveInterest(n, f, i)
  PROVE  (Quiet \/ Outcome(n, i.key)) /\ cs' \in CsType
<1>1. i \in Interest /\ i.key \in Key
  BY ForwarderAssumption DEF Interest
<1>2. Live(n, f)
  BY DEF ReceiveInterest
<1>3. \/ sent' = {} /\ UNCHANGED <<pit, cs, status>>
      \/ UsesHashPipeline(i) /\ HashPipeline(n, f, i)
      \/ DirectNack(n, f, i, "NoReason") /\ UNCHANGED <<pit, cs, status>>
      \/ OrdinaryPipeline(n, f, i)
  BY DEF ReceiveInterest
<1>4. cs \in CsType
  BY DEF Inv, TypeOK, CsType
<1>5. CASE DirectNack(n, f, i, "NoReason") /\ UNCHANGED <<pit, cs, status>>
  BY <1>1, <1>4, <1>5, DirectNackType DEF Quiet, Reason
<1>6. CASE sent' = {} /\ UNCHANGED <<pit, cs, status>>
  BY <1>4, <1>6 DEF Quiet
<1> QED
  BY <1>1, <1>2, <1>3, <1>5, <1>6, HashPipelineStep, OrdinaryPipelineStep

\* The incoming Interest pipeline preserves the invariant.
LEMMA ReceiveInterestInv ==
  ASSUME Inv, NEW n \in NodeId, NEW f \in FaceId, NEW i \in InterestIn,
         ReceiveInterest(n, f, i)
  PROVE  Inv'
<1>1. i.key \in Key
  BY ForwarderAssumption DEF Interest
<1>2. UNCHANGED <<dnl, face, last>>
  BY DEF ReceiveInterest
<1> QED
  BY <1>1, <1>2, ReceiveInterestOutcome, OutcomeInv

\* The incoming Nack pipeline has a good outcome.
LEMMA ReceiveNackOutcome ==
  ASSUME Inv, NEW n \in NodeId, NEW f \in FaceId, NEW nk \in NackIn, ReceiveNack(n, f, nk)
  PROVE  Quiet \/ Outcome(n, nk.key)
<1> DEFINE k == nk.key
<1>1. nk \in Nack /\ k \in Key /\ nk.reason \in Reason
  BY ForwarderAssumption DEF Nack
<1>2. TypeOK
  BY DEF Inv
<1>3. CASE sent' = {} /\ UNCHANGED <<pit, status>>
  BY <1>3 DEF Quiet
<1>4. CASE AcceptsNack(n, f, nk) /\ HashFallback(n, f, nk)
  <2> DEFINE e == [pit[n][k] EXCEPT !.hashStart = FALSE]
             w == WithoutOutRecord(e, f)
             i == [type |-> "Interest", key |-> k, nonce |-> nk.nonce, flag |-> 0,
                   ttl |-> 0, id |-> 0, life |-> nk.life, nextHop |-> NoFace]
  <2>1. Good(n, pit[n][k]) /\ pit[n][k] \in Entry
    BY <1>1, <1>4 DEF AcceptsNack, Inv, EntriesGood, Present, Good
  <2>2. Good(n, e)
    <3>1. e \in Entry /\ e.out = pit[n][k].out /\ SameDownstreams(pit[n][k], e)
      BY <2>1 DEF Entry, SameDownstreams
    <3>2. OnLiveFaces(n, pit[n][k])
      BY <2>1 DEF Good
    <3> HIDE DEF e
    <3> QED
      BY <2>1, <3>1, <3>2, FlaggedType
  <2>3. Good(n, w)
    BY <2>2, GoodWithoutOutRecord
  <2>4. i \in Interest
    BY <1>1, PacketsAssumption DEF Nack, Interest, HashFlag
  <2>5. Done(n, k, w) \/ \E h \in FaceId : AfterReceiveInterest(n, k, w, h, i)
    BY <1>4 DEF HashFallback
  <2>6. Outcome(n, k)
    <3> HIDE DEF w, i
    <3> QED
      BY <1>1, <1>2, <2>3, <2>4, <2>5, DoneOutcome, AfterReceiveInterestOutcome
  <2> QED
    BY <2>6
<1>5. CASE AcceptsNack(n, f, nk) /\ PropagateNack(n, f, nk)
  <2> DEFINE e == pit[n][k]
  <2>1. Good(n, e) /\ f \in OutFaces(e)
    BY <1>1, <1>5 DEF AcceptsNack, Inv, EntriesGood, Present
  <2>2. Good(n, WithoutOutRecord(e, f)) /\ Good(n, WithIncomingNack(e, f, nk.reason))
    BY <1>1, <2>1, GoodWithoutOutRecord, GoodWithIncomingNack
  <2>3. \/ NackTrigger(n, k, WithoutOutRecord(e, f))
        \/ NackTrigger(n, k, WithIncomingNack(e, f, nk.reason))
    BY <1>5 DEF PropagateNack
  <2>4. Outcome(n, k)
    BY <1>1, <1>2, <2>2, <2>3, NackTriggerOutcome
  <2> QED
    BY <2>4
<1> QED
  BY <1>3, <1>4, <1>5 DEF ReceiveNack

\* The incoming Nack pipeline preserves the invariant.
LEMMA ReceiveNackInv ==
  ASSUME Inv, NEW n \in NodeId, NEW f \in FaceId, NEW nk \in NackIn, ReceiveNack(n, f, nk)
  PROVE  Inv'
<1>1. nk.key \in Key
  BY ForwarderAssumption DEF Nack
<1>2. cs' \in CsType /\ UNCHANGED <<dnl, face, last>>
  BY DEF Inv, TypeOK, CsType, ReceiveNack
<1> QED
  BY <1>1, <1>2, ReceiveNackOutcome, OutcomeInv

\* Cs::insert keeps the ContentStore well typed.
LEMMA CsInsertType ==
  ASSUME TypeOK, NEW n \in NodeId, NEW d \in Data, NEW tag \in OutFace \cup {NoTag},
         CsInsert(n, d, tag)
  PROVE  cs' \in CsType
<1> DEFINE same == {c \in cs[n] : c.data = d}
           new  == [data |-> d, tag |-> tag, stale |-> FALSE]
           full == cs[n] \cup {new}
<1>1. cs \in CsType /\ cs[n] \subseteq CsEntry
  BY DEF TypeOK, CsType
<1>2. new \in CsEntry
  BY DEF CsEntry
<1>3. {[c EXCEPT !.stale = FALSE] : c \in same} \subseteq CsEntry
  BY <1>1 DEF CsEntry
<1>4. \/ cs' = cs
      \/ cs' = [cs EXCEPT ![n] = (cs[n] \ same) \cup {[c EXCEPT !.stale = FALSE] : c \in same}]
      \/ \E s \in SUBSET full : cs' = [cs EXCEPT ![n] = s]
  <2>1. CASE CsLimit = 0 /\ UNCHANGED cs
    BY <2>1
  <2>2. CASE cs' = [cs EXCEPT ![n] = (@ \ same) \cup {[c EXCEPT !.stale = FALSE] : c \in same}]
    BY <1>1, <2>2 DEF CsType
  <2>3. CASE cs' = [cs EXCEPT ![n] = full]
    BY <2>3
  <2>4. CASE \E victim \in full : cs' = [cs EXCEPT ![n] = full \ {victim}]
    BY <2>4
  <2> QED
    BY <2>1, <2>2, <2>3, <2>4 DEF CsInsert
<1> HIDE DEF same, new
<1> QED
  BY <1>1, <1>2, <1>3, <1>4 DEF CsType

\* insertDeadNonceList adds names with nonces.
LEMMA DeadNoncesType ==
  ASSUME NEW k \in Key, NEW e \in Entry, NEW G, NEW result
  PROVE  DeadNonces(k, e, G, result) \subseteq Name \X Nonce
<1>1. k.name \in Name
  BY DEF Key
<1>2. \A g \in OutFaces(e) : e.out[g].nonce \in Nonce
  BY OutRecordType DEF OutRecord
<1> QED
  BY <1>1, <1>2 DEF DeadNonces

\* Data that matches PIT entries preserves the invariant.
LEMMA DataSolicitedInv ==
  ASSUME Inv, NEW n \in NodeId, NEW f \in FaceId, NEW d \in Data,
         DataSolicited(n, f, d, Matching(n, d)), UNCHANGED <<face, last, status>>
  PROVE  Inv'
<1> DEFINE K == Matching(n, d)
           after(k) == Satisfied(pit[n][k], f, FreshnessOf(d))
<1>1. /\ pit \in [NodeId -> [Key -> Entry \cup {NoEntry}]] /\ TypeOK
      /\ \A k \in K : k \in Key /\ Good(n, pit[n][k]) /\ pit[n][k] \in Entry
  BY DEF Inv, TypeOK, EntriesGood, Present, Matching, Good
<1>2. FreshnessOf(d) \in Periods
  BY FreshnessType
<1>3. \A k \in K : Good(n, after(k)) /\ after(k) \in Entry
  <2>1. \A k \in K : Good(n, after(k))
    BY <1>1, <1>2, GoodSatisfied
  <2> QED
    BY <2>1 DEF Good
<1> HIDE DEF after, K
<1>4. pit' = [pit EXCEPT ![n] = [k \in Key |-> IF k \in K THEN after(k) ELSE pit[n][k]]]
  BY DEF DataSolicited, after, K
<1>5. pit' \in [NodeId -> [Key -> Entry \cup {NoEntry}]]
  <2>1. [k \in Key |-> IF k \in K THEN after(k) ELSE pit[n][k]] \in [Key -> Entry \cup {NoEntry}]
    BY <1>1, <1>3
  <2> QED
    BY <1>1, <1>4, <2>1
<1>6. dnl' \in [NodeId -> SUBSET (Name \X Nonce)]
  <2>1. \A k \in K : DeadNonces(k, pit[n][k], {f}, FreshnessOf(d)) \subseteq Name \X Nonce
    BY <1>1, DeadNoncesType
  <2> DEFINE new == UNION {DeadNonces(k, pit[n][k], {f}, FreshnessOf(d)) : k \in K}
  <2>2. new \in SUBSET (Name \X Nonce)
    BY <2>1
  <2>3. dnl' = [dnl EXCEPT ![n] = @ \cup new]
    BY DEF DataSolicited, K
  <2>4. dnl \in [NodeId -> SUBSET (Name \X Nonce)]
    BY <1>1 DEF TypeOK
  <2> HIDE DEF new
  <2> QED
    BY <2>2, <2>3, <2>4
<1>7. cs' \in CsType
  <2> DEFINE inner == [type |-> "Data", name |-> d.inner, inner |-> NoName, parsed |-> FALSE]
  <2>1. \/ cs' = cs
        \/ d.inner # NoName /\ CsInsert(n, inner, NoTag)
        \/ CsInsert(n, d, f)
    BY DEF DataSolicited, CacheOnArrival
  <2>2. d.inner # NoName => inner \in Data
    BY DEF Data
  <2>3. f \in OutFace \cup {NoTag} /\ NoTag \in OutFace \cup {NoTag}
    BY DEF OutFace
  <2>4. cs \in CsType
    BY <1>1 DEF TypeOK, CsType
  <2> HIDE DEF inner
  <2> QED
    BY <1>1, <2>1, <2>2, <2>3, <2>4, CsInsertType
<1>8. sent' \subseteq SentType
  BY DataToType DEF DataSolicited
<1>9. TypeOK'
  BY <1>1, <1>5, <1>6, <1>7, <1>8 DEF TypeOK, CsType, SentType
<1>10. \A m \in NodeId : Usable(m)' = Usable(m)
  BY DEF Usable, Live
<1>11. ASSUME NEW m \in NodeId, NEW h \in Key, pit'[m][h] # NoEntry
       PROVE  Good(m, pit'[m][h])
  <2>1. pit'[m][h] = IF m = n /\ h \in K THEN after(h) ELSE pit[m][h]
    BY <1>1, <1>4
  <2> QED
    BY <1>3, <1>11, <2>1 DEF Inv, EntriesGood, Present
<1>12. EntriesGood'
  BY <1>10, <1>11 DEF EntriesGood, Present, Good, OnLiveFaces
<1> QED
  BY <1>9, <1>12 DEF Inv

\* The incoming Data pipeline preserves the invariant.
LEMMA ReceiveDataInv ==
  ASSUME Inv, NEW n \in NodeId, NEW f \in FaceId, NEW d \in DataIn, ReceiveData(n, f, d)
  PROVE  Inv'
<1>1. d \in Data /\ TypeOK
  BY ForwarderAssumption DEF Inv
<1>2. UNCHANGED <<face, last, status>>
  BY DEF ReceiveData
<1>3. CASE sent' = {} /\ UNCHANGED <<pit, dnl>> /\ cs' \in CsType
  <2>1. TypeOK'
    BY <1>1, <1>2, <1>3 DEF TypeOK, CsType
  <2>2. EntriesGood'
    BY <1>2, <1>3 DEF Inv, EntriesGood, Present, Good, OnLiveFaces, Usable, Live
  <2> QED
    BY <2>1, <2>2 DEF Inv
<1>4. CASE sent' = {} /\ UNCHANGED <<pit, cs, dnl>>
  <2>1. cs' \in CsType
    BY <1>1, <1>4 DEF TypeOK, CsType
  <2> QED
    BY <1>3, <1>4, <2>1
<1>5. CASE DataUnsolicited(n, f, d)
  <2>1. f \in OutFace \cup {NoTag}
    BY DEF OutFace
  <2>2. CsInsert(n, d, f) \/ cs' = cs
    BY <1>5 DEF DataUnsolicited
  <2>3. cs' \in CsType
    BY <1>1, <2>1, <2>2, CsInsertType DEF TypeOK, CsType
  <2> QED
    BY <1>3, <1>5, <2>3 DEF DataUnsolicited
<1>6. CASE DataSolicited(n, f, d, Matching(n, d))
  BY <1>1, <1>2, <1>6, DataSolicitedInv
<1> QED
  BY <1>4, <1>5, <1>6 DEF ReceiveData

\* Erasing an entry preserves the invariant.
LEMMA FinalizeInv ==
  ASSUME Inv, NEW n \in NodeId, NEW k \in Key, Present(n, k), NEW result,
         Finalize(n, k, result)
  PROVE  Inv'
<1>1. /\ pit \in [NodeId -> [Key -> Entry \cup {NoEntry}]] /\ TypeOK
      /\ pit[n][k] \in Entry
  BY DEF Inv, TypeOK, Present
<1>2. pit' = [pit EXCEPT ![n][k] = NoEntry] /\ UNCHANGED <<cs, face, last, status>>
  BY DEF Finalize, Put
<1>3. dnl' \in [NodeId -> SUBSET (Name \X Nonce)]
  <2>1. DeadNonces(k, pit[n][k], OutFace, result) \subseteq Name \X Nonce
    BY <1>1, DeadNoncesType
  <2> QED
    BY <1>1, <2>1 DEF Finalize, TypeOK
<1>4. TypeOK'
  BY <1>1, <1>2, <1>3 DEF TypeOK, Finalize
<1>5. EntriesGood'
  BY <1>1, <1>2 DEF Inv, EntriesGood, Present, Good, OnLiveFaces, Usable, Live
<1> QED
  BY <1>4, <1>5 DEF Inv

\* The passing of time preserves the invariant.
LEMMA TickInv ==
  ASSUME Inv, Tick
  PROVE  Inv'
<1>1. pit \in [NodeId -> [Key -> Entry \cup {NoEntry}]] /\ TypeOK
  BY DEF Inv, TypeOK
<1>2. ASSUME NEW n \in NodeId, NEW k \in Key, pit[n][k] # NoEntry
      PROVE  Good(n, Elapse(pit[n][k])) /\ Elapse(pit[n][k]) \in Entry
  <2>1. Good(n, pit[n][k]) /\ pit[n][k].unsatisfy # 0 /\ pit[n][k].straggler # 0
    BY <1>2 DEF Tick, Inv, EntriesGood, Present
  <2>2. Good(n, Elapse(pit[n][k]))
    BY <2>1, GoodElapse
  <2> QED
    BY <2>2 DEF Good
<1>3. /\ pit' = [n \in NodeId |-> [k \in Key |->
           IF pit[n][k] = NoEntry THEN NoEntry ELSE Elapse(pit[n][k])]]
      /\ sent' = {} /\ UNCHANGED <<cs, dnl, face, last, status>>
  BY DEF Tick
<1>4. pit' \in [NodeId -> [Key -> Entry \cup {NoEntry}]]
  BY <1>2, <1>3
<1>5. TypeOK'
  BY <1>1, <1>3, <1>4 DEF TypeOK
<1>6. ASSUME NEW n \in NodeId, NEW k \in Key, pit'[n][k] # NoEntry
      PROVE  Good(n, pit'[n][k])
  BY <1>2, <1>3, <1>6
<1>7. EntriesGood'
  BY <1>3, <1>6 DEF EntriesGood, Present, Good, OnLiveFaces, Usable, Live
<1> QED
  BY <1>5, <1>7 DEF Inv

\* Data that becomes stale preserves the invariant.
LEMMA DataBecomesStaleInv ==
  ASSUME Inv, NEW n \in NodeId, NEW c \in cs[n], DataBecomesStale(n, c)
  PROVE  Inv'
<1>1. c \in CsEntry /\ TypeOK
  BY DEF Inv, TypeOK
<1>2. [c EXCEPT !.stale = TRUE] \in CsEntry
  BY <1>1 DEF CsEntry
<1>3. TypeOK'
  BY <1>1, <1>2 DEF DataBecomesStale, TypeOK
<1>4. EntriesGood'
  BY DEF DataBecomesStale, Inv, EntriesGood, Present, Good, OnLiveFaces, Usable, Live
<1> QED
  BY <1>3, <1>4 DEF Inv

\* A nonce that is forgotten preserves the invariant.
LEMMA DeadNonceForgottenInv ==
  ASSUME Inv, NEW n \in NodeId, NEW x \in dnl[n], DeadNonceForgotten(n, x)
  PROVE  Inv'
<1>1. TypeOK'
  BY DEF DeadNonceForgotten, Inv, TypeOK
<1>2. EntriesGood'
  BY DEF DeadNonceForgotten, Inv, EntriesGood, Present, Good, OnLiveFaces, Usable, Live
<1> QED
  BY <1>1, <1>2 DEF Inv

\* A new face preserves the invariant.
LEMMA AddFaceInv ==
  ASSUME Inv, NEW n \in NodeId, NEW kind \in NewKinds, AddFace(n, kind)
  PROVE  Inv'
<1>1. kind \in Kind /\ kind # "none" /\ MaxFaceId \in Nat
  BY ForwarderAssumption, PacketsAssumption DEF Kind
<1>2. TypeOK /\ UNCHANGED <<pit, cs, dnl, status>> /\ sent' = {}
  BY DEF Inv, AddFace
<1>3. /\ face' = [face EXCEPT ![n][last[n] + 1] = kind]
      /\ last' = [last EXCEPT ![n] = last[n] + 1] /\ last[n] < MaxFaceId
  BY <1>2 DEF AddFace, TypeOK
<1>4. last[n] \in Int /\ last[n] >= FACEID_RESERVED_MAX /\ last[n] + 1 \in FaceId
  BY <1>1, <1>2, <1>3 DEF TypeOK, FaceId, FACEID_RESERVED_MAX
<1>5. TypeOK'
  BY <1>1, <1>2, <1>3, <1>4 DEF TypeOK, FACEID_RESERVED_MAX
<1>6. \A m \in NodeId : Usable(m) \subseteq Usable(m)'
  BY <1>1, <1>2, <1>3 DEF TypeOK, Usable, Live
<1>7. EntriesGood'
  BY <1>2, <1>6 DEF Inv, EntriesGood, Present, Good, OnLiveFaces
<1> QED
  BY <1>5, <1>7 DEF Inv

\* The records of the removed face go with it.
LEMMA RemoveFaceInv ==
  ASSUME Inv, NEW n \in NodeId, NEW f \in FaceId, RemoveFace(n, f)
  PROVE  Inv'
<1> DEFINE after(e) == WithoutOutRecord(WithoutInRecords(e, {f}), f)
<1>1. TypeOK /\ pit \in [NodeId -> [Key -> Entry \cup {NoEntry}]]
  BY DEF Inv, TypeOK
<1>2. /\ face' = [face EXCEPT ![n][f] = "none"]
      /\ pit' = [pit EXCEPT ![n] = [k \in Key |->
           IF pit[n][k] = NoEntry THEN NoEntry ELSE after(pit[n][k])]]
      /\ sent' = {} /\ UNCHANGED <<cs, dnl, last, status>>
  BY DEF RemoveFace
<1>3. /\ Usable(n)' = Usable(n) \ {f}
      /\ \A m \in NodeId \ {n} : Usable(m)' = Usable(m)
  <2>1. f # FACEID_CONTENT_STORE
    BY DEF FaceId, FACEID_CONTENT_STORE
  <2> QED
    BY <1>1, <1>2, <2>1 DEF TypeOK, Usable, Live
<1>4. ASSUME NEW e, Good(n, e)
      PROVE  /\ Good(n, after(e)) /\ after(e) \in Entry
             /\ f \notin InFaces(after(e)) /\ f \notin OutFaces(after(e))
  <2> DEFINE e1 == WithoutInRecords(e, {f})
  <2>1. Good(n, e1) /\ Good(n, after(e))
    BY <1>4, GoodWithoutInRecords, GoodWithoutOutRecord
  <2>2. e \in Entry /\ e1 \in Entry /\ after(e) \in Entry
    BY <1>4, <2>1 DEF Good
  <2>3. InFaces(e1) = InFaces(e) \ {f}
    BY <2>2, WithoutInRecordsType
  <2>4. after(e).in = e1.in
    BY <2>2, WithoutOutRecordType DEF SameDownstreams
  <2>5. f \notin InFaces(after(e))
    BY <2>3, <2>4 DEF InFaces
  <2>6. f \notin OutFaces(after(e))
    <3> HIDE DEF e1
    <3> QED
      BY <2>2 DEF WithoutOutRecord, OutFaces, Entry, e1
  <2> QED
    BY <2>1, <2>2, <2>5, <2>6
<1> HIDE DEF after
<1>5. \A k \in Key : pit[n][k] # NoEntry => Good(n, pit[n][k])
  BY DEF Inv, EntriesGood, Present
<1>6. pit' \in [NodeId -> [Key -> Entry \cup {NoEntry}]]
  <2>1. [k \in Key |-> IF pit[n][k] = NoEntry THEN NoEntry ELSE after(pit[n][k])]
          \in [Key -> Entry \cup {NoEntry}]
    BY <1>4, <1>5
  <2> QED
    BY <1>1, <1>2, <2>1
<1>7. TypeOK'
  BY <1>1, <1>2, <1>6 DEF TypeOK
<1>8. ASSUME NEW m \in NodeId, NEW k \in Key, pit'[m][k] # NoEntry
      PROVE  /\ pit'[m][k] \in Entry /\ EntryInv(pit'[m][k])
             /\ InFaces(pit'[m][k]) \subseteq Usable(m)'
             /\ OutFaces(pit'[m][k]) \subseteq Usable(m)'
  <2>1. CASE m = n
    <3>1. pit'[m][k] = after(pit[n][k]) /\ pit[n][k] # NoEntry
      BY <1>1, <1>2, <1>8, <2>1
    <3> QED
      BY <1>3, <1>4, <1>5, <2>1, <3>1 DEF Good, OnLiveFaces
  <2>2. CASE m # n
    <3>1. pit'[m][k] = pit[m][k]
      BY <1>1, <1>2, <2>2
    <3> QED
      BY <1>3, <1>8, <2>2, <3>1 DEF Inv, EntriesGood, Present, Good, OnLiveFaces
  <2> QED
    BY <2>1, <2>2
<1>9. EntriesGood'
  BY <1>8 DEF EntriesGood, Present, Good, OnLiveFaces
<1> QED
  BY <1>7, <1>9 DEF Inv

\* A step that changes nothing preserves the invariant.
LEMMA StutterInv ==
  ASSUME Inv, UNCHANGED vars
  PROVE  Inv'
<1>1. TypeOK'
  BY DEF vars, Inv, TypeOK
<1>2. EntriesGood'
  BY DEF vars, Inv, EntriesGood, Present, Good, OnLiveFaces, Usable, Live
<1> QED
  BY <1>1, <1>2 DEF Inv

\* The invariant holds of empty tables.
LEMMA InitInv == Init => Inv
<1> SUFFICES ASSUME Init PROVE Inv
  OBVIOUS
<1>1. TypeOK
  BY ForwarderAssumption DEF Init, TypeOK, Status, SentType
<1>2. EntriesGood
  BY DEF Init, EntriesGood, Present
<1> QED
  BY <1>1, <1>2 DEF Inv

\* Every step preserves the invariant.
LEMMA NextInv ==
  ASSUME Inv, [Next]_vars
  PROVE  Inv'
<1>1. ASSUME NEW n \in NodeId, NEW f \in FaceId, NEW i \in InterestIn,
             ReceiveInterest(n, f, i)
      PROVE  Inv'
  BY <1>1, ReceiveInterestInv
<1>2. ASSUME NEW n \in NodeId, NEW f \in FaceId, NEW d \in DataIn, ReceiveData(n, f, d)
      PROVE  Inv'
  BY <1>2, ReceiveDataInv
<1>3. ASSUME NEW n \in NodeId, NEW f \in FaceId, NEW nk \in NackIn, ReceiveNack(n, f, nk)
      PROVE  Inv'
  BY <1>3, ReceiveNackInv
<1>4. ASSUME NEW n \in NodeId, NEW k \in Key, UnsatisfyTimer(n, k)
      PROVE  Inv'
  BY <1>4, FinalizeInv DEF UnsatisfyTimer, Present
<1>5. ASSUME NEW n \in NodeId, NEW k \in Key, StragglerTimer(n, k)
      PROVE  Inv'
  BY <1>5, FinalizeInv DEF StragglerTimer, Present
<1>6. CASE Tick
  BY <1>6, TickInv
<1>7. ASSUME NEW n \in NodeId, NEW c \in cs[n], DataBecomesStale(n, c)
      PROVE  Inv'
  BY <1>7, DataBecomesStaleInv
<1>8. ASSUME NEW n \in NodeId, NEW x \in dnl[n], DeadNonceForgotten(n, x)
      PROVE  Inv'
  BY <1>8, DeadNonceForgottenInv
<1>9. ASSUME NEW n \in NodeId, NEW kind \in NewKinds, AddFace(n, kind)
      PROVE  Inv'
  BY <1>9, AddFaceInv
<1>10. ASSUME NEW n \in NodeId, NEW f \in Closing, RemoveFace(n, f)
       PROVE  Inv'
  BY <1>10, RemoveFaceInv, ForwarderAssumption
<1>11. CASE UNCHANGED vars
  BY <1>11, StutterInv
<1> QED
  BY <1>1, <1>2, <1>3, <1>4, <1>5, <1>6, <1>7, <1>8, <1>9, <1>10, <1>11 DEF Next

\* Between events the tables have their types, and every PIT entry is good: it
\* has one timer armed, which outlasts its downstreams, no downstream once it is
\* satisfied, and records of live faces only.
THEOREM Invariance == Spec => []Inv
  BY InitInv, NextInv, PTL DEF Spec

------------------------------------------------------------------------------
(* The theorems. *)

\* Whatever packets arrive and whatever faces come and go, the tables keep
\* their types.
THEOREM TypeCorrectness == Spec => []TypeOK
<1>1. Inv => TypeOK
  BY DEF Inv
<1> QED
  BY <1>1, Invariance, PTL

\* Between events every PIT entry has exactly one of its two timers armed.
THEOREM OneTimerArmed == Spec => []OneTimer
<1>1. Inv => OneTimer
  BY DEF Inv, EntriesGood, Good, EntryInv, OneTimer
<1> QED
  BY <1>1, Invariance, PTL

\* The unsatisfy timer outlasts every in-record of its entry.
THEOREM TimerOutlastsDownstreams == Spec => []NoEarlyExpiry
<1>1. Inv => NoEarlyExpiry
  BY DEF Inv, EntriesGood, Good, EntryInv, NoEarlyExpiry
<1> QED
  BY <1>1, Invariance, PTL

\* No downstream is left behind in an entry that Data has satisfied.
THEOREM SatisfiedEntriesAreDone == Spec => []SatisfiedHasNoDownstream
<1>1. Inv => SatisfiedHasNoDownstream
  BY DEF Inv, EntriesGood, Good, EntryInv, SatisfiedHasNoDownstream
<1> QED
  BY <1>1, Invariance, PTL

\* The PIT never refers to a face that has been removed.
THEOREM NoDanglingRecords == Spec => []RecordsOnLiveFaces
<1>1. Inv => RecordsOnLiveFaces
  <2> SUFFICES ASSUME Inv, NEW n \in NodeId, NEW k \in Key, Present(n, k)
               PROVE  /\ \A f \in InFaces(pit[n][k]) : Live(n, f)
                      /\ \A g \in OutFaces(pit[n][k]) : g = FACEID_CONTENT_STORE \/ Live(n, g)
    BY DEF RecordsOnLiveFaces
  <2>1. OnLiveFaces(n, pit[n][k])
    BY DEF Inv, EntriesGood, Good
  <2>2. \A f \in InFaces(pit[n][k]) : f # FACEID_CONTENT_STORE
    BY DEF InFaces, FaceId, FACEID_CONTENT_STORE
  <2> QED
    BY <2>1, <2>2 DEF OnLiveFaces, Usable
<1> QED
  BY <1>1, Invariance, PTL

------------------------------------------------------------------------------
(* An entry is only erased when nothing waits on it. *)

\* A handler with a good outcome erases no PIT entry.
LEMMA OutcomeKeepsEntries ==
  ASSUME TypeOK, NEW n \in NodeId, NEW k \in Key, Quiet \/ Outcome(n, k)
  PROVE  \A m \in NodeId, h \in Key : Present(m, h) => pit'[m][h] # NoEntry
<1>1. pit \in [NodeId -> [Key -> Entry \cup {NoEntry}]] /\ NoEntry \notin Entry
  BY NodeAssumption DEF TypeOK
<1>2. CASE Quiet
  BY <1>2 DEF Quiet, Present
<1>3. CASE Outcome(n, k)
  <2>1. PICK e \in Entry : pit' = [pit EXCEPT ![n][k] = e]
    BY <1>3 DEF Outcome, Put
  <2>2. \A m \in NodeId, h \in Key :
          pit'[m][h] = IF m = n /\ h = k THEN e ELSE pit[m][h]
    BY <1>1, <2>1
  <2> QED
    BY <1>1, <2>2 DEF Present
<1> QED
  BY <1>2, <1>3

\* Only the two timers of an entry erase it.
LEMMA ErasedByTimer ==
  ASSUME Inv, Next, NEW m \in NodeId, NEW h \in Key, Present(m, h), pit'[m][h] = NoEntry
  PROVE  UnsatisfyTimer(m, h) \/ StragglerTimer(m, h)
<1>1. pit \in [NodeId -> [Key -> Entry \cup {NoEntry}]] /\ TypeOK /\ NoEntry \notin Entry
  BY NodeAssumption DEF Inv, TypeOK
<1>2. ASSUME NEW n \in NodeId, NEW f \in FaceId, NEW i \in InterestIn,
             ReceiveInterest(n, f, i)
      PROVE  FALSE
  <2>1. i.key \in Key
    BY ForwarderAssumption DEF Interest
  <2> QED
    BY <1>1, <1>2, <2>1, ReceiveInterestOutcome, OutcomeKeepsEntries
<1>3. ASSUME NEW n \in NodeId, NEW f \in FaceId, NEW d \in DataIn, ReceiveData(n, f, d)
      PROVE  FALSE
  <2>1. CASE UNCHANGED pit
    BY <2>1 DEF Present
  <2>2. CASE DataSolicited(n, f, d, Matching(n, d))
    <3>1. \A k \in Matching(n, d) : Satisfied(pit[n][k], f, FreshnessOf(d)) \in Entry
      <4>1. FreshnessOf(d) \in Periods
        BY ForwarderAssumption, FreshnessType
      <4>2. \A k \in Matching(n, d) : Good(n, pit[n][k])
        BY DEF Matching, Inv, EntriesGood, Present
      <4> QED
        BY <4>1, <4>2, GoodSatisfied DEF Good
    <3>2. pit'[m][h] = IF m = n /\ h \in Matching(n, d)
                       THEN Satisfied(pit[n][h], f, FreshnessOf(d)) ELSE pit[m][h]
      BY <1>1, <2>2 DEF DataSolicited
    <3> QED
      BY <1>1, <3>1, <3>2 DEF Present
  <2> QED
    BY <1>3, <2>1, <2>2 DEF ReceiveData, DataUnsolicited
<1>4. ASSUME NEW n \in NodeId, NEW f \in FaceId, NEW nk \in NackIn, ReceiveNack(n, f, nk)
      PROVE  FALSE
  <2>1. nk.key \in Key
    BY ForwarderAssumption DEF Nack
  <2> QED
    BY <1>1, <1>4, <2>1, ReceiveNackOutcome, OutcomeKeepsEntries
<1>5. ASSUME NEW n \in NodeId, NEW k \in Key, UnsatisfyTimer(n, k) \/ StragglerTimer(n, k)
      PROVE  n = m /\ k = h
  <2>1. pit' = [pit EXCEPT ![n][k] = NoEntry]
    BY <1>5 DEF UnsatisfyTimer, StragglerTimer, Finalize, Put
  <2> QED
    BY <1>1, <2>1 DEF Present
<1>6. ASSUME Tick
      PROVE  FALSE
  <2>1. pit'[m][h] = Elapse(pit[m][h]) /\ Good(m, Elapse(pit[m][h]))
    <3>1. Good(m, pit[m][h]) /\ pit[m][h].unsatisfy # 0 /\ pit[m][h].straggler # 0
      BY <1>6 DEF Tick, Inv, EntriesGood, Present
    <3> QED
      BY <1>6, <3>1, GoodElapse DEF Tick, Present
  <2> QED
    BY <1>1, <2>1 DEF Good
<1>7. ASSUME NEW n \in NodeId, NEW f \in FaceId, RemoveFace(n, f)
      PROVE  FALSE
  <2> DEFINE w == WithoutOutRecord(WithoutInRecords(pit[n][h], {f}), f)
  <2>1. pit'[m][h] = IF m = n THEN w ELSE pit[m][h]
    BY <1>1, <1>7 DEF RemoveFace, Present
  <2>2. m = n => w \in Entry
    <3>1. m = n => Good(n, w)
      BY GoodWithoutInRecords, GoodWithoutOutRecord DEF Inv, EntriesGood, Present
    <3> QED
      BY <3>1 DEF Good
  <2> QED
    BY <1>1, <2>1, <2>2 DEF Present
<1>8. ~ UNCHANGED pit
  BY DEF Present
<1>9. \/ \E n \in NodeId, f \in FaceId, i \in InterestIn : ReceiveInterest(n, f, i)
      \/ \E n \in NodeId, f \in FaceId, d \in DataIn : ReceiveData(n, f, d)
      \/ \E n \in NodeId, f \in FaceId, nk \in NackIn : ReceiveNack(n, f, nk)
      \/ \E n \in NodeId, k \in Key : UnsatisfyTimer(n, k) \/ StragglerTimer(n, k)
      \/ Tick
      \/ \E n \in NodeId, f \in FaceId : RemoveFace(n, f)
      \/ UNCHANGED pit
  BY ForwarderAssumption DEF Next, DataBecomesStale, DeadNonceForgotten, AddFace
<1> QED
  BY <1>2, <1>3, <1>4, <1>5, <1>6, <1>7, <1>8, <1>9

\* An entry is erased under a waiting downstream only after a rejected Interest.
THEOREM NoPendingEntryIsErased == Spec => ErasedOnlyWhenDone
<1> DEFINE Done2(n, k) ==
             \/ \A f \in InFaces(pit[n][k]) : pit[n][k].in[f].expires <= 0
             \/ pit[n][k].straggler = 0 /\ pit[n][k].result = "unsatisfied"
           A == \A n \in NodeId, k \in Key :
                  Present(n, k) /\ pit'[n][k] = NoEntry => Done2(n, k)
<1>1. ASSUME Inv, [Next]_vars
      PROVE  [A]_vars
  <2> SUFFICES ASSUME Next, NEW n \in NodeId, NEW k \in Key, Present(n, k),
                      pit'[n][k] = NoEntry
               PROVE  Done2(n, k)
    BY <1>1
  <2>1. EntryInv(pit[n][k])
    BY <1>1 DEF Inv, EntriesGood, Good
  <2>2. CASE UnsatisfyTimer(n, k)
    BY <2>1, <2>2 DEF UnsatisfyTimer, EntryInv
  <2>3. CASE StragglerTimer(n, k)
    BY <2>1, <2>3 DEF StragglerTimer, EntryInv
  <2> QED
    BY <1>1, <2>2, <2>3, ErasedByTimer
<1>2. Inv /\ [Next]_vars => [A]_vars
  BY <1>1
<1>3. ErasedOnlyWhenDone <=> [][A]_vars
  BY DEF ErasedOnlyWhenDone
<1> HIDE DEF A
<1> QED
  BY <1>2, <1>3, Invariance, PTL DEF Spec
==============================================================================
