------------------------------ MODULE PitEntry -------------------------------
(***************************************************************************)
(* A PIT entry: its in-records, its out-records, its two hash flags and    *)
(* its two timers, with the operations of pit::Entry and the predicates of *)
(* fw/algorithm.cpp over it.                                               *)
(*                                                                         *)
(* Time is counted in ticks.  A record holds the ticks left until it       *)
(* expires: "expiry > now" is expires > 0, "expiry >= now" is expires >= 0, *)
(* and an expired record stays at -1, since nothing looks further back.    *)
(* A timer holds the ticks until it fires, or NotArmed.                    *)
(***************************************************************************)
EXTENDS Packets

CONSTANTS
  NoRecord,       \* no in- or out-record for this face
  StragglerTime   \* the straggler timer's delay, 100 ms, in ticks

NotArmed  == -1
NotNacked == "NotNacked"

\* flag and life are those of the Interest, which a Nack will carry back;
\* behind is the set of faces whose in-records stand behind this one in the
\* std::list, to whose front insertOrUpdateInRecord adds.
InRecord == [nonce : Nonce, flag : HashFlag, life : 1 .. MaxLifetime,
             expires : -1 .. MaxLifetime, behind : SUBSET FaceId]

\* age is the time since the out-record was last renewed.
OutRecord == [nonce : Nonce, expires : -1 .. MaxLifetime, age : 0 .. MaxLifetime + 1,
              nack : Reason \cup {NotNacked}]

\* result is what the straggler timer will pass to onInterestFinalize: whether
\* the Interest was satisfied, and by Data of which FreshnessPeriod.
Result == {"unsatisfied"} \cup Periods

Entry == [in : [FaceId -> InRecord \cup {NoRecord}],
          out : [OutFace -> OutRecord \cup {NoRecord}],
          hashStart : BOOLEAN, consumerHash : BOOLEAN,
          unsatisfy : -1 .. MaxLifetime, straggler : -1 .. StragglerTime,
          result : Result]

ASSUME PitEntryAssumption ==
  /\ NoRecord \notin InRecord \cup OutRecord
  /\ StragglerTime \in Nat \ {0}

NewEntry ==
  [in |-> [f \in FaceId |-> NoRecord], out |-> [g \in OutFace |-> NoRecord],
   hashStart |-> FALSE, consumerHash |-> FALSE,
   unsatisfy |-> NotArmed, straggler |-> NotArmed, result |-> "unsatisfied"]

InFaces(e)  == {f \in FaceId : e.in[f] # NoRecord}
OutFaces(e) == {g \in OutFace : e.out[g] # NoRecord}

------------------------------------------------------------------------------
(* In- and out-records. *)

WithInRecord(e, f, i) ==
  [e EXCEPT !.in[f] =
     [nonce |-> i.nonce, flag |-> i.flag, life |-> i.life, expires |-> i.life,
      behind |-> IF e.in[f] = NoRecord THEN InFaces(e) ELSE e.in[f].behind]]

WithoutInRecords(e, F) ==
  [e EXCEPT !.in = [f \in FaceId |->
     IF f \in F \/ e.in[f] = NoRecord THEN NoRecord
     ELSE [e.in[f] EXCEPT !.behind = @ \ F]]]

\* The record in_begin() points to.
IsFirstInRecord(e, f) ==
  /\ f \in InFaces(e)
  /\ InFaces(e) \ {f} \subseteq e.in[f].behind

\* update() renews nonce and expiry and leaves a recorded Nack in place.
WithOutRecords(e, G, i) ==
  [e EXCEPT !.out = [g \in OutFace |->
     IF g \notin G THEN e.out[g]
     ELSE [nonce |-> i.nonce, expires |-> i.life, age |-> 0,
           nack |-> IF e.out[g] = NoRecord THEN NotNacked ELSE e.out[g].nack]]]

WithoutOutRecord(e, g) == [e EXCEPT !.out[g] = NoRecord]

WithIncomingNack(e, g, reason) == [e EXCEPT !.out[g].nack = reason]

------------------------------------------------------------------------------
(* The predicates of fw/algorithm.cpp. *)

HasDuplicateNonce(e, nonce) ==
  \/ \E f \in InFaces(e) : e.in[f].nonce = nonce
  \/ \E g \in OutFaces(e) : e.out[g].nonce = nonce

HasPendingOutRecords(e) ==
  \E g \in OutFaces(e) : e.out[g].expires >= 0 /\ e.out[g].nack = NotNacked

CanForwardToLegacy(e, g) ==
  /\ g \in OutFaces(e) => e.out[g].expires < 0
  /\ \E f \in InFaces(e) \ {g} : e.in[f].expires >= 0

------------------------------------------------------------------------------
(* Timers. *)

MutantCancelsUnsatisfyOnly(e) == [e EXCEPT !.unsatisfy = NotArmed]

WithTimersCancelled(e) ==
  [e EXCEPT !.unsatisfy = NotArmed, !.straggler = NotArmed]

MutantFirstExpiring(e, f) ==
  /\ f \in InFaces(e)
  /\ \A h \in InFaces(e) : e.in[h].expires >= e.in[f].expires

\* f has the in-record that expires last.
IsLastExpiring(e, f) ==
  /\ f \in InFaces(e)
  /\ \A h \in InFaces(e) : e.in[h].expires <= e.in[f].expires

\* setUnsatisfyTimer, f being the face of the in-record that expires last.
WithUnsatisfyTimer(e, f) == [e EXCEPT !.unsatisfy = e.in[f].expires]

WithStragglerTimer(e, result) ==
  [e EXCEPT !.straggler = StragglerTime, !.result = result]

MutantElapseTimersOnly(e) ==
  [e EXCEPT !.in = [f \in FaceId |-> IF e.in[f] = NoRecord THEN NoRecord
                                     ELSE [e.in[f] EXCEPT !.expires = @ - 1]],
            !.unsatisfy = IF @ >= 0 THEN @ - 1 ELSE @,
            !.straggler = IF @ >= 0 THEN @ - 1 ELSE @]

\* The entry one tick later; its timers must not be due.
Elapse(e) ==
  LET Left(t) == IF t >= 0 THEN t - 1 ELSE t
  IN [e EXCEPT
        !.in  = [f \in FaceId |-> IF e.in[f] = NoRecord THEN NoRecord
                                  ELSE [e.in[f] EXCEPT !.expires = Left(@)]],
        !.out = [g \in OutFace |-> IF e.out[g] = NoRecord THEN NoRecord
                   ELSE [e.out[g] EXCEPT !.expires = Left(@),
                           !.age = IF @ > MaxLifetime THEN @ ELSE @ + 1]],
        !.unsatisfy = Left(@), !.straggler = Left(@)]
==============================================================================
