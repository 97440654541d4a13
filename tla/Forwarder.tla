------------------------------ MODULE Forwarder ------------------------------
(***************************************************************************)
(* The forwarding pipelines of NFD with the hash-guided forwarding of this *)
(* fork, one action per event the daemon handles: a packet received on a   *)
(* face, a timer of a PIT entry, a face added or removed.                  *)
(*                                                                         *)
(* The operators named after pipelines are tails of a handler, as in Node. *)
(***************************************************************************)
EXTENDS Strategies

CONSTANTS
  CsLimit,           \* capacity of the ContentStore
  AdmitUnsolicited,  \* kinds of faces whose unsolicited Data is cached
  InitFace,          \* InitFace[n][f]: the kind of face f at the start, or "none"
  NewKinds,          \* the kinds of the faces added later
  Closing,           \* the faces that may be removed
  InterestIn,        \* the Interests the environment may deliver,
  DataIn,            \* the Data, and
  NackIn             \* the Nacks

ASSUME ForwarderAssumption ==
  /\ CsLimit \in Nat
  /\ AdmitUnsolicited \subseteq Kind
  /\ InitFace \in [NodeId -> [FaceId -> Kind \cup {"none"}]]
  /\ \A n \in NodeId : \E m \in FACEID_RESERVED_MAX .. MaxFaceId :
       \A f \in FaceId : InitFace[n][f] # "none" <=> f <= m
  /\ NewKinds \subseteq Kind /\ Closing \subseteq FaceId
  /\ InterestIn \subseteq Interest
  /\ DataIn \subseteq Data
  /\ NackIn \subseteq Nack

vars == <<pit, cs, dnl, face, last, status, sent>>

------------------------------------------------------------------------------
(* ContentStore operations the pipelines use. *)

\* Cs::insert: an entry for the same Data keeps its Data object, with the tag
\* that object carries, and becomes fresh again; past the limit the policy
\* evicts an entry.  The Data object of a local face may carry a CachePolicyTag
\* that says NO_CACHE, which does not cross a link.
CsInsert(n, d, tag) ==
  LET same == {c \in cs[n] : c.data = d}
      new  == [data |-> d, tag |-> tag, stale |-> FALSE]
      full == cs[n] \cup {new}
  IN \/ CsLimit = 0 /\ UNCHANGED cs
     \/ tag # NoTag /\ IsLocal(n, tag) /\ UNCHANGED cs
     \/ /\ CsLimit > 0 /\ same # {}
        /\ cs' = [cs EXCEPT ![n] = (@ \ same) \cup {[c EXCEPT !.stale = FALSE] : c \in same}]
     \/ /\ CsLimit > 0 /\ same = {}
        /\ IF Cardinality(full) <= CsLimit
           THEN cs' = [cs EXCEPT ![n] = full]
           ELSE \E victim \in full : cs' = [cs EXCEPT ![n] = full \ {victim}]

\* Cs::find.
CsMatches(n, k) ==
  {c \in cs[n] : c.data.name \in Under[k.name] /\ (k.mustBeFresh => ~c.stale)}

\* The name check in front of every Cs::insert.
Cacheable(d) == d.name \notin HasLocalhost

------------------------------------------------------------------------------
(* Dead Nonce List. *)

NeedsDnl(k, result) ==
  \/ result = "unsatisfied"
  \/ k.mustBeFresh /\ result = "short"

\* The nonces insertDeadNonceList adds for the upstreams G.
DeadNonces(k, e, G, result) ==
  IF NeedsDnl(k, result) THEN {<<k.name, e.out[g].nonce>> : g \in G \cap OutFaces(e)} ELSE {}

------------------------------------------------------------------------------
(* Incoming Interest pipeline. *)

\* Reply to an Interest that fails, with a Nack outside the Nack pipeline.
DirectNack(n, f, i, reason) ==
  sent' = IF MultiAccessKind(face[n][f]) THEN {} ELSE Sends(n, {f}, NackFor(i, reason))

\* onOutgoingData.
DataTo(n, F, d) == Sends(n, {f \in F : Live(n, f) /\ ~ViolatesLocalhost(n, f, d.name)}, d)

ContentStoreMiss(n, k, e, f, i) ==
  LET e1 == WithInRecord(e, f, i)
  IN \E h \in FaceId :
       /\ IsLastExpiring(e1, h)
       /\ LET e2 == WithUnsatisfyTimer(e1, h)
          IN \/ /\ i.nextHop # NoFace
                /\ IF Live(n, i.nextHop) THEN OutgoingInterest(n, k, e2, {i.nextHop}, i)
                                         ELSE Done(n, k, e2)
             \/ i.nextHop = NoFace /\ AfterReceiveInterest(n, k, e2, f, i)
       /\ UNCHANGED cs

\* The Data object in the cache is tagged with the FaceId of the ContentStore.
ContentStoreHit(n, k, e, f, c) ==
  /\ cs' = [cs EXCEPT ![n] = (@ \ {c}) \cup {[c EXCEPT !.tag = FACEID_CONTENT_STORE]}]
  /\ Put(n, k, WithStragglerTimer(e, FreshnessOf(c.data)))
  /\ sent' = DataTo(n, {f}, c.data)
  /\ UNCHANGED status

MutantReplyArmsNoTimer(n, k, e, f, i) ==
  \E c \in Nearest(n, i.id) :
    LET reply == [type |-> "Data", name |-> k.name, inner |-> c.data.name, parsed |-> FALSE]
    IN /\ Put(n, k, e)
       /\ sent' = DataTo(n, {f}, reply)
       /\ UNCHANGED <<cs, status>>

\* The reply wraps the cached Data whose hash is nearest to the ConsumerID.
ConsumerHashHit(n, k, e, f, i) ==
  \E c \in Nearest(n, i.id) :
    LET reply == [type |-> "Data", name |-> k.name, inner |-> c.data.name, parsed |-> FALSE]
    IN /\ Put(n, k, WithStragglerTimer(e, FreshnessOf(reply)))
       /\ sent' = DataTo(n, {f}, reply)
       /\ UNCHANGED <<cs, status>>

CsLookup(n, k, e, f, i) ==
  \/ \E c \in CsMatches(n, k) : ContentStoreHit(n, k, e, f, c)
  \/ CsMatches(n, k) = {} /\ ContentStoreMiss(n, k, e, f, i)

EntryFor(n, k) == IF pit[n][k] = NoEntry THEN NewEntry ELSE pit[n][k]

UsesHashPipeline(i) == i.flag > 0 /\ i.ttl \in 1 .. TTL_MAX

\* The Interest as the hash pipeline rewrites it.
NextHash(i) == [i EXCEPT !.ttl = @ - 1, !.flag = IF @ = 2 THEN 1 ELSE @]

HashPipeline(n, f, i) ==
  LET k == i.key
      j == NextHash(i)
      e == [EntryFor(n, k) EXCEPT !.hashStart = @ \/ i.flag = 2,
                                  !.consumerHash = @ \/ i.flag = 11]
      idle == WithTimersCancelled(e)
  IN \/ /\ <<k.name, i.nonce>> \in dnl[n]
        /\ DirectNack(n, f, i, "NoReason")
        /\ UNCHANGED <<pit, cs, status>>
     \/ /\ <<k.name, i.nonce>> \notin dnl[n]
        /\ HasDuplicateNonce(e, i.nonce)
        /\ Put(n, k, e) /\ DirectNack(n, f, j, "NoReason")
        /\ UNCHANGED <<cs, status>>
     \/ /\ <<k.name, i.nonce>> \notin dnl[n]
        /\ ~HasDuplicateNonce(e, i.nonce)
        /\ \/ InFaces(e) = {} /\ i.flag = 11 /\ cs[n] # {} /\ ConsumerHashHit(n, k, idle, f, j)
           \/ InFaces(e) = {} /\ i.flag # 11 /\ CsLookup(n, k, idle, f, j)
           \/ /\ InFaces(e) # {} \/ (i.flag = 11 /\ cs[n] = {})
              /\ ContentStoreMiss(n, k, idle, f, j)

OrdinaryPipeline(n, f, i) ==
  LET k == i.key
      e == EntryFor(n, k)
      idle == WithTimersCancelled(e)
  IN \/ /\ <<k.name, i.nonce>> \in dnl[n] \/ HasDuplicateNonce(e, i.nonce)
        /\ DirectNack(n, f, i, "Duplicate")
        /\ UNCHANGED <<pit, cs, status>>
     \/ /\ <<k.name, i.nonce>> \notin dnl[n]
        /\ ~HasDuplicateNonce(e, i.nonce)
        /\ IF InFaces(e) = {} THEN CsLookup(n, k, idle, f, i)
                              ELSE ContentStoreMiss(n, k, idle, f, i)

\* What a face can deliver: an application starts an Interest with HashFlag
\* 0, 2 or 11 and alone may set a NextHopFaceId; a neighbor has turned a 2 it
\* could forward by hash into a 1.
CanArrive(n, f, i) ==
  /\ LocalKind(face[n][f]) => i.flag # 1
  /\ ~LocalKind(face[n][f]) => i.nextHop = NoFace /\ ~(i.flag = 2 /\ UsesHashPipeline(i))

ReceiveInterest(n, f, i) ==
  /\ status = "running" /\ Live(n, f) /\ CanArrive(n, f, i)
  /\ \/ /\ ViolatesLocalhost(n, f, i.key.name)
        /\ sent' = {} /\ UNCHANGED <<pit, cs, status>>
     \/ /\ ~ViolatesLocalhost(n, f, i.key.name)
        /\ \/ UsesHashPipeline(i) /\ HashPipeline(n, f, i)
           \/ /\ i.flag > 0 /\ i.ttl = 0
              /\ DirectNack(n, f, i, "NoReason") /\ UNCHANGED <<pit, cs, status>>
           \/ /\ i.flag = 0 \/ i.ttl > TTL_MAX
              /\ OrdinaryPipeline(n, f, i)
  /\ UNCHANGED <<dnl, face, last>>

------------------------------------------------------------------------------
(* Incoming Data pipeline. *)

Matching(n, d) == {k \in Key : pit[n][k] # NoEntry /\ d.name \in Under[k.name]}

MutantAllDownstreams(n, K) == UNION {InFaces(pit[n][k]) : k \in K}

PendingDownstreams(n, K) ==
  UNION {{f \in InFaces(pit[n][k]) : pit[n][k].in[f].expires > 0} : k \in K}

MutantKeepsInRecords(e, f, result) ==
  WithStragglerTimer(WithTimersCancelled(WithoutOutRecord(e, f)), result)

MutantLeavesNoTimer(e, f, result) ==
  WithTimersCancelled(WithoutOutRecord(WithoutInRecords(e, FaceId), f))

\* The entry once Data from upstream f has satisfied it.
Satisfied(e, f, result) ==
  WithStragglerTimer(
    WithTimersCancelled(WithoutOutRecord(WithoutInRecords(e, FaceId), f)), result)

MutantCachesCopyWithoutTags(n, f, d, K) ==
  IF Cacheable(d) THEN CsInsert(n, d, NoTag) ELSE UNCHANGED cs

\* What the pipeline caches: the whole Data, or, once a consumer-hash Interest
\* is among the matches, the Data wrapped in its Content, which typeCheck finds
\* only in a block that still holds its sub-blocks.  The wrapped Data is a new
\* object and carries no IncomingFaceIdTag.
CacheOnArrival(n, f, d, K) ==
  IF \E k \in K : pit[n][k].consumerHash
  THEN IF d.inner # NoName /\ d.parsed /\ Cacheable(d)
       THEN CsInsert(n, [type |-> "Data", name |-> d.inner, inner |-> NoName,
                         parsed |-> FALSE], NoTag)
       ELSE UNCHANGED cs
  ELSE IF Cacheable(d) THEN CsInsert(n, d, f) ELSE UNCHANGED cs

DataUnsolicited(n, f, d) ==
  /\ IF face[n][f] \in AdmitUnsolicited /\ Cacheable(d) THEN CsInsert(n, d, f)
                                                        ELSE UNCHANGED cs
  /\ sent' = {} /\ UNCHANGED <<pit, dnl>>

DataSolicited(n, f, d, K) ==
  /\ pit' = [pit EXCEPT ![n] = [k \in Key |->
        IF k \in K THEN Satisfied(pit[n][k], f, FreshnessOf(d)) ELSE pit[n][k]]]
  /\ dnl' = [dnl EXCEPT ![n] = @ \cup
        UNION {DeadNonces(k, pit[n][k], {f}, FreshnessOf(d)) : k \in K}]
  /\ CacheOnArrival(n, f, d, K)
  /\ sent' = DataTo(n, PendingDownstreams(n, K) \ {f}, d)

\* Data that came over a link was decoded from the wire.
ReceiveData(n, f, d) ==
  /\ status = "running" /\ Live(n, f)
  /\ ~LocalKind(face[n][f]) => ~d.parsed
  /\ \/ /\ ViolatesLocalhost(n, f, d.name)
        /\ sent' = {} /\ UNCHANGED <<pit, cs, dnl>>
     \/ /\ ~ViolatesLocalhost(n, f, d.name)
        /\ \/ Matching(n, d) = {} /\ DataUnsolicited(n, f, d)
           \/ Matching(n, d) # {} /\ DataSolicited(n, f, d, Matching(n, d))
  /\ UNCHANGED <<face, last, status>>

------------------------------------------------------------------------------
(* Incoming Nack pipeline. *)

\* The Nack answers the last Interest sent to f.
AcceptsNack(n, f, nk) ==
  /\ ~MultiAccessKind(face[n][f])
  /\ pit[n][nk.key] # NoEntry
  /\ f \in OutFaces(pit[n][nk.key])
  /\ pit[n][nk.key].out[f].nonce = nk.nonce

\* The node that started the hash-guided forwarding falls back to the FIB, for
\* the downstream whose in-record is first, with the Interest the Nack carries
\* (its HashTTL and ConsumerID matter no more once its HashFlag is 0).
HashFallback(n, f, nk) ==
  LET k == nk.key
      e == WithoutOutRecord([pit[n][k] EXCEPT !.hashStart = FALSE], f)
      i == [type |-> "Interest", key |-> k, nonce |-> nk.nonce, flag |-> 0,
            ttl |-> 0, id |-> 0, life |-> nk.life, nextHop |-> NoFace]
  IN \/ InFaces(e) = {} /\ Done(n, k, e)
     \/ \E h \in FaceId : IsFirstInRecord(e, h) /\ AfterReceiveInterest(n, k, e, h, i)

\* Elsewhere the Nack is recorded, unless it is for a hash-guided Interest:
\* then the out-record goes away before the strategy sees it.
PropagateNack(n, f, nk) ==
  LET k == nk.key
      e == pit[n][k]
  IN IF nk.flag > 0 THEN NackTrigger(n, k, WithoutOutRecord(e, f))
                    ELSE NackTrigger(n, k, WithIncomingNack(e, f, nk.reason))

ReceiveNack(n, f, nk) ==
  /\ status = "running" /\ Live(n, f)
  /\ \/ ~AcceptsNack(n, f, nk) /\ sent' = {} /\ UNCHANGED <<pit, status>>
     \/ /\ AcceptsNack(n, f, nk)
        /\ IF pit[n][nk.key].hashStart THEN HashFallback(n, f, nk)
                                       ELSE PropagateNack(n, f, nk)
  /\ UNCHANGED <<cs, dnl, face, last>>

------------------------------------------------------------------------------
(* Timers. *)

\* onInterestFinalize of entry e.
Finalize(n, k, result) ==
  /\ Put(n, k, NoEntry)
  /\ dnl' = [dnl EXCEPT ![n] = @ \cup DeadNonces(k, pit[n][k], OutFace, result)]
  /\ sent' = {} /\ UNCHANGED <<cs, face, last, status>>

UnsatisfyTimer(n, k) ==
  /\ status = "running" /\ pit[n][k] # NoEntry /\ pit[n][k].unsatisfy = 0
  /\ Finalize(n, k, "unsatisfied")

StragglerTimer(n, k) ==
  /\ status = "running" /\ pit[n][k] # NoEntry /\ pit[n][k].straggler = 0
  /\ Finalize(n, k, pit[n][k].result)

\* Simulated time passes between events, never past one that is due.
Tick ==
  /\ status = "running"
  /\ \A n \in NodeId, k \in Key : pit[n][k] # NoEntry =>
       pit[n][k].unsatisfy # 0 /\ pit[n][k].straggler # 0
  /\ pit' = [n \in NodeId |-> [k \in Key |->
       IF pit[n][k] = NoEntry THEN NoEntry ELSE Elapse(pit[n][k])]]
  /\ sent' = {} /\ UNCHANGED <<cs, dnl, face, last, status>>

\* The FreshnessPeriod of a cached Data passes.
DataBecomesStale(n, c) ==
  /\ status = "running" /\ ~c.stale /\ FreshnessOf(c.data) # "none"
  /\ cs' = [cs EXCEPT ![n] = (@ \ {c}) \cup {[c EXCEPT !.stale = TRUE]}]
  /\ sent' = {} /\ UNCHANGED <<pit, dnl, face, last, status>>

\* The Dead Nonce List forgets its oldest entry, at a mark or past its capacity.
DeadNonceForgotten(n, x) ==
  /\ status = "running"
  /\ dnl' = [dnl EXCEPT ![n] = @ \ {x}]
  /\ sent' = {} /\ UNCHANGED <<pit, cs, face, last, status>>

------------------------------------------------------------------------------
(* Face table. *)

AddFace(n, kind) ==
  /\ status = "running" /\ last[n] < MaxFaceId
  /\ last' = [last EXCEPT ![n] = @ + 1]
  /\ face' = [face EXCEPT ![n][last[n] + 1] = kind]
  /\ sent' = {} /\ UNCHANGED <<pit, cs, dnl, status>>

MutantKeepsOutRecords(n, f) ==
  /\ status = "running" /\ Live(n, f)
  /\ face' = [face EXCEPT ![n][f] = "none"]
  /\ pit' = [pit EXCEPT ![n] = [k \in Key |->
       IF pit[n][k] = NoEntry THEN NoEntry ELSE WithoutInRecords(pit[n][k], {f})]]
  /\ sent' = {} /\ UNCHANGED <<cs, dnl, last, status>>

\* cleanupOnFaceRemoval drops the records of the face; timers and the tags of
\* cached Data stay.
RemoveFace(n, f) ==
  /\ status = "running" /\ Live(n, f)
  /\ face' = [face EXCEPT ![n][f] = "none"]
  /\ pit' = [pit EXCEPT ![n] = [k \in Key |->
       IF pit[n][k] = NoEntry THEN NoEntry
       ELSE WithoutOutRecord(WithoutInRecords(pit[n][k], {f}), f)]]
  /\ sent' = {} /\ UNCHANGED <<cs, dnl, last, status>>

------------------------------------------------------------------------------
Init ==
  /\ pit = [n \in NodeId |-> [k \in Key |-> NoEntry]]
  /\ cs = [n \in NodeId |-> {}]
  /\ dnl = [n \in NodeId |-> {}]
  /\ face = InitFace
  /\ last \in [NodeId -> FACEID_RESERVED_MAX .. MaxFaceId]
  /\ \A n \in NodeId, f \in FaceId : face[n][f] # "none" <=> f <= last[n]
  /\ status = "running"
  /\ sent = {}

Next ==
  \E n \in NodeId :
    \/ \E f \in FaceId : \E i \in InterestIn : ReceiveInterest(n, f, i)
    \/ \E f \in FaceId : \E d \in DataIn : ReceiveData(n, f, d)
    \/ \E f \in FaceId : \E nk \in NackIn : ReceiveNack(n, f, nk)
    \/ \E k \in Key : UnsatisfyTimer(n, k)
    \/ \E k \in Key : StragglerTimer(n, k)
    \/ Tick
    \/ \E c \in cs[n] : DataBecomesStale(n, c)
    \/ \E x \in dnl[n] : DeadNonceForgotten(n, x)
    \/ \E kind \in NewKinds : AddFace(n, kind)
    \/ \E f \in Closing : RemoveFace(n, f)

Spec == Init /\ [][Next]_vars

\* ns-3 runs every event at its time, and simulated time goes on.
Fairness ==
  /\ WF_vars(Tick)
  /\ \A n \in NodeId, k \in Key :
       WF_vars(UnsatisfyTimer(n, k)) /\ WF_vars(StragglerTimer(n, k))

FairSpec == Spec /\ Fairness
==============================================================================
