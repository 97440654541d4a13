------------------------------ MODULE FlowProofs ------------------------------
(***************************************************************************)
(* Proofs about what the forwarding pipelines put on faces: scope, flow    *)
(* balance, and the two ways the process may stop in a hash-guided         *)
(* strategy, for all values of the constants.                              *)
(*                                                                         *)
(* The invariant Inv of ForwarderProofs supplies the types; what a step    *)
(* sends is followed from the tails of the handlers up to the handlers.    *)
(***************************************************************************)
EXTENDS ForwarderProofs

(* What LocalhostInterestsStay and LocalhopInterestsStop ask of one packet. *)

Confined(s) ==
  s.pkt.type = "Interest" /\ OverLink(s) =>
    \/ DrawnAtRandom(s)
    \/ /\ s.pkt.key.name \in Localhost => s.pkt.nextHop # NoFace
       /\ s.pkt.key.name \in Localhop =>
            \E f \in FaceId : IsLocal(s.at, f) /\ SentFor(s, f)

\* What DataOnlyOnDemand asks of one packet.
Demanded(s) ==
  s.pkt.type = "Data" =>
    \/ \E k \in KeysOf(s.pkt.name) :
         /\ Present(s.at, k) /\ s.face \in InFaces(pit[s.at][k])
         /\ pit[s.at][k].in[s.face].expires > 0
    \/ \E c \in cs[s.at] : c.data = s.pkt \/ c.data.name = s.pkt.inner

\* The strategies and the Nack pipeline put no Data on a face.
Forwarding == \A s \in sent' : s.pkt.type # "Data" /\ Confined(s)

Balanced == \A s \in sent' : Demanded(s) /\ Confined(s)

------------------------------------------------------------------------------
(* Interests and Nacks: the tails of the handlers. *)

\* Why Interest i of downstream f may go to face g.
MayLeave(n, f, i, g) ==
  \/ IsHashGuided(i) /\ cs[n] = {}
  \/ ~WouldViolateScope(n, f, i.key.name, g)
  \/ i.nextHop # NoFace /\ IsLocal(n, f)

\* Interest i is that of downstream f of entry e, or one that a fallback sends
\* for it.
AskedFor(n, e, f, i) ==
  \/ e.in[f].nonce = i.nonce
  \/ Present(n, i.key) /\ pit[n][i.key].hashStart /\ ~e.hashStart

\* What is sent for a downstream is still so once the records are updated.
LEMMA SameAskedFor ==
  ASSUME NEW n, NEW e, NEW w, NEW f, NEW i, AskedFor(n, e, f, i),
         w.in = e.in, w.hashStart = e.hashStart
  PROVE  AskedFor(n, w, f, i) /\ InFaces(w) = InFaces(e)
  BY DEF AskedFor, InFaces

\* New out-records leave the downstreams and the flag as they are.
LEMMA SameWithOutRecords ==
  ASSUME NEW e \in Entry, NEW G, NEW i
  PROVE  LET w == WithOutRecords(e, G, i) IN w.in = e.in /\ w.hashStart = e.hashStart
  BY DEF WithOutRecords, Entry

\* Sending to faces the strategy may use keeps Interests in their scope.
LEMMA SendsForwarding ==
  ASSUME TypeOK, NEW n \in NodeId, NEW i \in Interest, NEW w, NEW f \in InFaces(w),
         AskedFor(n, w, f, i), Put(n, i.key, w), NEW G, \A g \in G : MayLeave(n, f, i, g),
         sent' = Sends(n, G, i)
  PROVE  Forwarding
<1> SUFFICES ASSUME NEW g \in G, NEW s, s = [at |-> n, face |-> g, pkt |-> i]
             PROVE  s.pkt.type # "Data" /\ Confined(s)
  BY DEF Forwarding, Sends
<1>1. i.type = "Interest" /\ i.key \in Key
  BY DEF Interest
<1>2. s.at = n /\ s.face = g /\ s.pkt = i
  OBVIOUS
<1>3. pit'[n][i.key] = w
  BY <1>1 DEF Put, TypeOK
<1>4. MayLeave(n, f, i, g)
  OBVIOUS
<1>5. f \in FaceId /\ SentFor(s, f)
  BY <1>2, <1>3 DEF SentFor, FallsBack, AskedFor, InFaces
<1>6. Confined(s)
  BY <1>2, <1>4, <1>5 DEF Confined, OverLink, DrawnAtRandom, MayLeave, WouldViolateScope
<1> QED
  BY <1>1, <1>2, <1>6

\* onOutgoingInterest leaves the downstreams of the entry as they are.
LEMMA OutgoingInterestForwarding ==
  ASSUME TypeOK, NEW n \in NodeId, NEW i \in Interest, NEW e \in Entry,
         NEW f \in InFaces(e), AskedFor(n, e, f, i), NEW G,
         \A g \in G : MayLeave(n, f, i, g), OutgoingInterest(n, i.key, e, G, i)
  PROVE  Forwarding
<1> DEFINE w == WithOutRecords(e, G, i)
<1>1. w.in = e.in /\ w.hashStart = e.hashStart
  BY SameWithOutRecords
<1>2. f \in InFaces(w) /\ AskedFor(n, w, f, i)
  BY <1>1, SameAskedFor
<1>3. Put(n, i.key, w) /\ sent' = Sends(n, G, i)
  BY DEF OutgoingInterest
<1> HIDE DEF w
<1> QED
  BY <1>2, <1>3, SendsForwarding

\* Nacks are neither Interests nor Data.
LEMMA NacksForwarding ==
  ASSUME NEW n, NEW k, NEW e, NEW G, NEW reason,
         sent' = {[at |-> n, face |-> g, pkt |-> NackOf(k, e, g, reason)] : g \in G}
  PROVE  Forwarding
<1>1. \A s \in sent' : s.pkt.type = "Nack"
  BY DEF NackOf
<1> QED
  BY <1>1 DEF Forwarding, Confined

\* A handler that sends nothing sends nothing out of scope.
LEMMA NothingForwarding == sent' = {} => Forwarding
  BY DEF Forwarding

\* A reply outside the Nack pipeline is a Nack.
LEMMA DirectNackForwarding ==
  ASSUME NEW n, NEW f, NEW i, NEW reason, DirectNack(n, f, i, reason)
  PROVE  Forwarding
<1>1. \A s \in sent' : s.pkt.type = "Nack"
  BY DEF DirectNack, Sends, NackFor
<1> QED
  BY <1>1 DEF Forwarding, Confined

\* best-route's afterReceiveNack sends Nacks only.
LEMMA AfterReceiveNackForwarding ==
  ASSUME NEW n, NEW k, NEW e, AfterReceiveNack(n, k, e)
  PROVE  Forwarding
<1>1. ASSUME NEW F, NEW reason, OutgoingNack(n, k, e, F, reason)
      PROVE  Forwarding
  BY <1>1, NacksForwarding DEF OutgoingNack
<1> QED
  BY <1>1, NothingForwarding DEF AfterReceiveNack, Done

------------------------------------------------------------------------------
(* Forwarding by the FIB. *)

\* A nexthop of the FIB is taken only if the scope of the Interest allows it.
LEMMA ForwardToFirstForwarding ==
  ASSUME TypeOK, NEW n \in NodeId, NEW i \in Interest, NEW e \in Entry,
         NEW f \in InFaces(e), AskedFor(n, e, f, i), NEW J,
         \A j \in J : ~WouldViolateScope(n, f, i.key.name, Fib[n][i.key.name][j]),
         ForwardToFirst(n, i.key, e, J, i)
  PROVE  Forwarding
<1>1. PICK j \in J : OutgoingInterest(n, i.key, e, {Fib[n][i.key.name][j]}, i)
  BY DEF ForwardToFirst
<1>2. \A g \in {Fib[n][i.key.name][j]} : MayLeave(n, f, i, g)
  BY DEF MayLeave
<1> QED
  BY <1>1, <1>2, OutgoingInterestForwarding

\* best-route checks the scope of every nexthop, new Interest or retransmission.
LEMMA BestRouteForwarding ==
  ASSUME TypeOK, NEW n \in NodeId, NEW i \in Interest, NEW e \in Entry,
         NEW f \in InFaces(e), AskedFor(n, e, f, i), BestRoute(n, i.key, e, f, i)
  PROVE  Forwarding
<1> DEFINE k == i.key
<1>1. \A j \in Eligible(n, f, k.name) : ~WouldViolateScope(n, f, k.name, Fib[n][k.name][j])
  BY DEF Eligible
<1>2. CASE NoNextHop(n, k, e, f)
  BY <1>2, NacksForwarding DEF NoNextHop
<1>3. CASE Done(n, k, e)
  BY <1>3, NothingForwarding DEF Done
<1>4. CASE \E J \in SUBSET Eligible(n, f, k.name) : ForwardToFirst(n, k, e, J, i)
  BY <1>1, <1>4, ForwardToFirstForwarding
<1>5. Unused(n, e, f, k.name) \subseteq Eligible(n, f, k.name)
  BY DEF Unused
<1>6. RetransmitRetry(n, k, e, f, i) =>
        Done(n, k, e) \/ \E J \in SUBSET Eligible(n, f, k.name) : ForwardToFirst(n, k, e, J, i)
  BY DEF RetransmitRetry
<1> QED
  BY <1>2, <1>3, <1>4, <1>5, <1>6 DEF BestRoute, ForwardNew, RetransmitUnused

\* multicast sends to the nexthops the scope allows, then rejects if none is left.
LEMMA MulticastForwarding ==
  ASSUME TypeOK, NEW n \in NodeId, NEW i \in Interest, NEW e \in Entry,
         NEW f \in InFaces(e), AskedFor(n, e, f, i), Multicast(n, i.key, e, f, i)
  PROVE  Forwarding
<1> DEFINE k  == i.key
           G  == {Fib[n][k.name][j] : j \in Sendable(n, e, f, k.name)}
           e2 == WithOutRecords(e, G, i)
<1>1. e2 \in Entry /\ e2.in = e.in /\ e2.hashStart = e.hashStart
  BY WithOutRecordsType, SameWithOutRecords
<1>2. Rejected(e2).in = e2.in /\ Rejected(e2).hashStart = e2.hashStart
  <2> HIDE DEF e2
  <2> QED
    BY <1>1 DEF Rejected, WithStragglerTimer, WithTimersCancelled, Entry
<1>3. f \in InFaces(Rejected(e2)) /\ AskedFor(n, Rejected(e2), f, i)
  <2> HIDE DEF e2
  <2> QED
    BY <1>1, <1>2, SameAskedFor
<1>4. \A g \in G : MayLeave(n, f, i, g)
  BY DEF Sendable, MayLeave
<1>5. Put(n, k, Rejected(e2)) /\ sent' = Sends(n, G, i)
  BY DEF Multicast
<1> HIDE DEF e2, G
<1> QED
  BY <1>3, <1>4, <1>5, SendsForwarding

\* The first best-route strategy checks the scope as well.
LEMMA BestRouteV1Forwarding ==
  ASSUME TypeOK, NEW n \in NodeId, NEW i \in Interest, NEW e \in Entry,
         NEW f \in InFaces(e), AskedFor(n, e, f, i), BestRouteV1(n, i.key, e, f, i)
  PROVE  Forwarding
<1> DEFINE k == i.key
<1>1. \A j \in Sendable(n, e, f, k.name) :
        ~WouldViolateScope(n, f, k.name, Fib[n][k.name][j])
  BY DEF Sendable
<1>2. CASE ForwardToFirst(n, k, e, Sendable(n, e, f, k.name), i)
  BY <1>1, <1>2, ForwardToFirstForwarding
<1> QED
  BY <1>2, NothingForwarding DEF BestRouteV1, Done

\* No strategy forwards by the FIB out of scope.
LEMMA ForwardByFibForwarding ==
  ASSUME TypeOK, NEW n \in NodeId, NEW i \in Interest, NEW e \in Entry,
         NEW f \in InFaces(e), AskedFor(n, e, f, i), ForwardByFib(n, i.key, e, f, i)
  PROVE  Forwarding
  BY BestRouteForwarding, MulticastForwarding, BestRouteV1Forwarding DEF ForwardByFib

\* Whatever the strategy does with an Interest, it stays in its scope unless the
\* Interest is hash-guided and its face is drawn.
LEMMA AfterReceiveInterestForwarding ==
  ASSUME TypeOK, NEW n \in NodeId, NEW i \in Interest, NEW e \in Entry,
         NEW f \in InFaces(e), AskedFor(n, e, f, i), AfterReceiveInterest(n, i.key, e, f, i)
  PROVE  Forwarding
<1> DEFINE k == i.key
<1>1. CASE ForwardByFib(n, k, e, f, i)
  BY <1>1, ForwardByFibForwarding
<1>2. CASE ForwardToNearest(n, k, e, f, i)
  BY <1>2, OutgoingInterestForwarding DEF ForwardToNearest, MayForwardToNearest, MayLeave
<1>3. CASE AfterReceiveNack(n, k, e)
  BY <1>3, AfterReceiveNackForwarding
<1>4. CASE NearestFaceIsUndefined(n, k, e) \/ DrawForever(n, k, e, f)
  BY <1>4, NothingForwarding DEF NearestFaceIsUndefined, DrawForever
<1>5. \/ ForwardByFib(n, k, e, f, i)
      \/ ForwardToNearest(n, k, e, f, i)
      \/ IsHashGuided(i) /\ cs[n] = {} /\ ForwardToRandom(n, k, e, f, i)
      \/ AfterReceiveNack(n, k, e)
      \/ NearestFaceIsUndefined(n, k, e) \/ DrawForever(n, k, e, f)
  BY DEF AfterReceiveInterest
<1>6. CASE IsHashGuided(i) /\ cs[n] = {} /\ ForwardToRandom(n, k, e, f, i)
  BY <1>6, OutgoingInterestForwarding DEF ForwardToRandom, MayLeave
<1> QED
  BY <1>1, <1>2, <1>3, <1>4, <1>5, <1>6

------------------------------------------------------------------------------
(* Data. *)

\* Every packet onOutgoingData puts on a face is the Data it was given.
LEMMA DataToIs ==
  ASSUME NEW n, NEW F, NEW d
  PROVE  \A s \in DataTo(n, F, d) : s.at = n /\ s.face \in F /\ s.pkt = d
  BY DEF DataTo, Sends

\* Where no Data is sent, nothing is sent without demand.
LEMMA ForwardingBalanced == Forwarding => Balanced
  BY DEF Forwarding, Balanced, Demanded

\* A hit answers with Data of the ContentStore.
LEMMA ContentStoreHitBalanced ==
  ASSUME TypeOK, NEW n \in NodeId, NEW k, NEW e, NEW f, NEW c \in cs[n],
         ContentStoreHit(n, k, e, f, c)
  PROVE  Balanced
<1>1. c.data.type = "Data"
  BY DEF TypeOK, CsEntry, Data
<1>2. \A s \in sent' : s.at = n /\ s.pkt = c.data
  BY DataToIs DEF ContentStoreHit
<1> QED
  BY <1>1, <1>2 DEF Balanced, Demanded, Confined

\* The reply to a consumer-hash Interest wraps Data of the ContentStore.
LEMMA ConsumerHashHitBalanced ==
  ASSUME NEW n \in NodeId, NEW k, NEW e, NEW f, NEW i, ConsumerHashHit(n, k, e, f, i)
  PROVE  Balanced
<1> DEFINE reply(c) == [type |-> "Data", name |-> k.name, inner |-> c.data.name,
                        parsed |-> FALSE]
<1>1. PICK c \in Nearest(n, i.id) : sent' = DataTo(n, {f}, reply(c))
  BY DEF ConsumerHashHit
<1>2. c \in cs[n]
  BY DEF Nearest
<1>3. \A s \in sent' : s.at = n /\ s.pkt = reply(c)
  BY <1>1, DataToIs
<1> QED
  BY <1>2, <1>3 DEF Balanced, Demanded, Confined

\* Arriving Data goes to the downstreams whose in-records have not expired.
LEMMA DataSolicitedBalanced ==
  ASSUME NEW n \in NodeId, NEW f, NEW d \in Data, DataSolicited(n, f, d, Matching(n, d))
  PROVE  Balanced
<1> DEFINE K == Matching(n, d)
<1>1. d.type = "Data"
  BY DEF Data
<1>2. \A s \in sent' : s.at = n /\ s.face \in PendingDownstreams(n, K) /\ s.pkt = d
  BY DataToIs DEF DataSolicited
<1>3. \A g \in PendingDownstreams(n, K) : \E k \in K :
        g \in InFaces(pit[n][k]) /\ pit[n][k].in[g].expires > 0
  BY DEF PendingDownstreams
<1>4. \A k \in K : k \in KeysOf(d.name) /\ Present(n, k)
  BY DEF Matching, KeysOf, Present
<1> QED
  BY <1>1, <1>2, <1>3, <1>4 DEF Balanced, Demanded, Confined

------------------------------------------------------------------------------
(* The handlers. *)

\* Only an application chooses the nexthop of its Interest.
ChoosesFromLocal(n, f, i) == i.nextHop # NoFace => IsLocal(n, f)

\* A miss forwards in scope, to the nexthop the Interest names included.
LEMMA ContentStoreMissForwarding ==
  ASSUME TypeOK, NEW n \in NodeId, NEW i \in Interest, NEW e, Idle(n, e),
         NEW f \in FaceId, Live(n, f), ChoosesFromLocal(n, f, i),
         ContentStoreMiss(n, i.key, e, f, i)
  PROVE  Forwarding
<1> DEFINE After(h) == WithUnsatisfyTimer(WithInRecord(e, f, i), h)
<1>1. PICK h \in FaceId :
        /\ IsLastExpiring(WithInRecord(e, f, i), h)
        /\ \/ i.nextHop # NoFace /\ OutgoingInterest(n, i.key, After(h), {i.nextHop}, i)
           \/ Done(n, i.key, After(h))
           \/ AfterReceiveInterest(n, i.key, After(h), f, i)
  BY DEF ContentStoreMiss
<1>2. After(h) \in Entry /\ f \in InFaces(After(h))
  BY <1>1, GoodWithUnsatisfyTimer DEF Good
<1>6. After(h).in[f].nonce = i.nonce
  BY DEF WithUnsatisfyTimer, WithInRecord, Idle, Entry
<1>7. AskedFor(n, After(h), f, i)
  BY <1>6 DEF AskedFor
<1> HIDE DEF After
<1>3. CASE i.nextHop # NoFace /\ OutgoingInterest(n, i.key, After(h), {i.nextHop}, i)
  <2>1. \A g \in {i.nextHop} : MayLeave(n, f, i, g)
    BY <1>3 DEF ChoosesFromLocal, MayLeave
  <2> QED
    BY <1>2, <1>7, <1>3, <2>1, OutgoingInterestForwarding
<1>4. CASE Done(n, i.key, After(h))
  BY <1>4, NothingForwarding DEF Done
<1>5. CASE AfterReceiveInterest(n, i.key, After(h), f, i)
  BY <1>2, <1>7, <1>5, AfterReceiveInterestForwarding
<1> QED
  BY <1>1, <1>3, <1>4, <1>5

\* A ContentStore lookup answers with cached Data or forwards in scope.
LEMMA CsLookupBalanced ==
  ASSUME TypeOK, NEW n \in NodeId, NEW i \in Interest, NEW e, Idle(n, e),
         NEW f \in FaceId, Live(n, f), ChoosesFromLocal(n, f, i),
         CsLookup(n, i.key, e, f, i)
  PROVE  Balanced
<1>1. CASE \E c \in CsMatches(n, i.key) : ContentStoreHit(n, i.key, e, f, c)
  BY <1>1, ContentStoreHitBalanced DEF CsMatches
<1>2. CASE ContentStoreMiss(n, i.key, e, f, i)
  BY <1>2, ContentStoreMissForwarding, ForwardingBalanced
<1> QED
  BY <1>1, <1>2 DEF CsLookup

\* The incoming Interest pipeline.
LEMMA ReceiveInterestBalanced ==
  ASSUME Inv, NEW n \in NodeId, NEW f \in FaceId, NEW i \in InterestIn,
         ReceiveInterest(n, f, i)
  PROVE  Balanced
<1>1. TypeOK /\ i \in Interest /\ Live(n, f)
  BY ForwarderAssumption DEF Inv, ReceiveInterest
<1>2. ChoosesFromLocal(n, f, i)
  BY DEF ReceiveInterest, CanArrive, ChoosesFromLocal, IsLocal
<1>3. ASSUME NEW j, NEW reason, DirectNack(n, f, j, reason)
      PROVE  Balanced
  BY <1>3, DirectNackForwarding, ForwardingBalanced
<1>4. CASE sent' = {}
  BY <1>4, NothingForwarding, ForwardingBalanced
<1>5. CASE UsesHashPipeline(i) /\ HashPipeline(n, f, i)
  <2> DEFINE j == NextHash(i)
  <2>1. j \in Interest /\ j.key = i.key /\ j.nextHop = i.nextHop
    BY <1>1, <1>5, NextHashType DEF NextHash, Interest
  <2>2. ChoosesFromLocal(n, f, j)
    BY <1>2, <2>1 DEF ChoosesFromLocal
  <2> HIDE DEF j
  <2>3. ASSUME NEW e, Idle(n, e), ContentStoreMiss(n, i.key, e, f, j)
        PROVE  Balanced
    BY <1>1, <2>1, <2>2, <2>3, ContentStoreMissForwarding, ForwardingBalanced
  <2>4. ASSUME NEW e, Idle(n, e), CsLookup(n, i.key, e, f, j)
        PROVE  Balanced
    BY <1>1, <2>1, <2>2, <2>4, CsLookupBalanced
  <2>5. ASSUME NEW e, ConsumerHashHit(n, i.key, e, f, j)
        PROVE  Balanced
    BY <2>5, ConsumerHashHitBalanced
  <2> QED
    BY <1>1, <1>3, <1>5, <2>3, <2>4, <2>5, HashPipelineCases DEF j
<1>6. CASE OrdinaryPipeline(n, f, i)
  <2>1. ASSUME NEW e, Idle(n, e), ContentStoreMiss(n, i.key, e, f, i)
        PROVE  Balanced
    BY <1>1, <1>2, <2>1, ContentStoreMissForwarding, ForwardingBalanced
  <2>2. ASSUME NEW e, Idle(n, e), CsLookup(n, i.key, e, f, i)
        PROVE  Balanced
    BY <1>1, <1>2, <2>2, CsLookupBalanced
  <2> QED
    BY <1>1, <1>3, <1>6, <2>1, <2>2, OrdinaryPipelineCases
<1> QED
  BY <1>3, <1>4, <1>5, <1>6 DEF ReceiveInterest

\* The incoming Nack pipeline: the Interest sent instead has the scope of the
\* downstream whose in-record is first.
LEMMA ReceiveNackForwarding ==
  ASSUME Inv, NEW n \in NodeId, NEW f \in FaceId, NEW nk \in NackIn, ReceiveNack(n, f, nk)
  PROVE  Forwarding
<1> DEFINE k == nk.key
<1>1. nk \in Nack /\ k \in Key /\ TypeOK
  BY ForwarderAssumption DEF Nack, Inv
<1>2. CASE sent' = {}
  BY <1>2, NothingForwarding
<1>3. CASE AcceptsNack(n, f, nk) /\ pit[n][k].hashStart /\ HashFallback(n, f, nk)
  <2> DEFINE e == [pit[n][k] EXCEPT !.hashStart = FALSE]
             w == WithoutOutRecord(e, f)
             i == [type |-> "Interest", key |-> k, nonce |-> nk.nonce, flag |-> 0,
                   ttl |-> 0, id |-> 0, life |-> nk.life, nextHop |-> NoFace]
  <2>1. pit[n][k] \in Entry
    BY <1>1, <1>3 DEF AcceptsNack, TypeOK
  <2>2. e \in Entry
    BY <2>1 DEF Entry
  <2>3. w \in Entry /\ ~w.hashStart
    BY <2>1, <2>2, WithoutOutRecordType DEF WithoutOutRecord, Entry
  <2>4. i \in Interest /\ i.key = k
    BY <1>1, PacketsAssumption DEF Nack, Interest, HashFlag
  <2>5. \/ sent' = {}
        \/ \E h \in InFaces(w) : AfterReceiveInterest(n, k, w, h, i)
    BY <1>3 DEF HashFallback, Done, IsFirstInRecord
  <2>6. Present(n, k) /\ pit[n][k].hashStart
    BY <1>3 DEF AcceptsNack, Present
  <2> HIDE DEF w, i
  <2>7. \A h \in InFaces(w) : AskedFor(n, w, h, i)
    BY <2>3, <2>4, <2>6 DEF AskedFor
  <2> QED
    BY <1>1, <1>2, <2>3, <2>4, <2>5, <2>7, AfterReceiveInterestForwarding
<1>4. CASE PropagateNack(n, f, nk)
  <2>1. ASSUME NEW e, NackTrigger(n, k, e)
        PROVE  Forwarding
    BY <2>1, AfterReceiveNackForwarding, NothingForwarding DEF NackTrigger, Done
  <2> QED
    BY <1>4, <2>1 DEF PropagateNack
<1> QED
  BY <1>2, <1>3, <1>4 DEF ReceiveNack

\* Whatever a step puts on faces is in demand and in scope.
LEMMA NextBalanced ==
  ASSUME Inv, Next
  PROVE  Balanced
<1>1. CASE sent' = {}
  BY <1>1, NothingForwarding, ForwardingBalanced
<1>2. ASSUME NEW n \in NodeId, NEW f \in FaceId, NEW i \in InterestIn,
             ReceiveInterest(n, f, i)
      PROVE  Balanced
  BY <1>2, ReceiveInterestBalanced
<1>3. ASSUME NEW n \in NodeId, NEW f \in FaceId, NEW d \in DataIn, ReceiveData(n, f, d)
      PROVE  Balanced
  BY <1>1, <1>3, DataSolicitedBalanced, ForwarderAssumption DEF ReceiveData, DataUnsolicited
<1>4. ASSUME NEW n \in NodeId, NEW f \in FaceId, NEW nk \in NackIn, ReceiveNack(n, f, nk)
      PROVE  Balanced
  BY <1>4, ReceiveNackForwarding, ForwardingBalanced
<1> QED
  BY <1>1, <1>2, <1>3, <1>4
     DEF Next, UnsatisfyTimer, StragglerTimer, Finalize, Tick, DataBecomesStale,
         DeadNonceForgotten, AddFace, RemoveFace

------------------------------------------------------------------------------
(* The theorems on what is sent. *)

\* No node sends Data that nothing asked for: it goes to a face with an unexpired
\* in-record, or it is the ContentStore's answer to the Interest just received.
THEOREM DataFollowsInterests == Spec => DataOnlyOnDemand
<1> DEFINE A == \A s \in sent' : Demanded(s)
<1>1. ASSUME Inv, [Next]_vars
      PROVE  [A]_vars
  BY <1>1, NextBalanced DEF Balanced
<1>2. Inv /\ [Next]_vars => [A]_vars
  BY <1>1
<1>3. DataOnlyOnDemand <=> [][A]_vars
  BY DEF DataOnlyOnDemand, Demanded
<1> HIDE DEF A
<1> QED
  BY <1>2, <1>3, Invariance, PTL DEF Spec

\* A /localhost Interest crosses a link only where an application chose the
\* nexthop or the face was drawn at random: no strategy, no retransmission and no
\* fall-back after a Nack sends it out.
THEOREM LocalhostIsConfined == Spec => LocalhostInterestsStay
<1> DEFINE A == \A s \in sent' :
       s.pkt.type = "Interest" /\ OverLink(s) /\ s.pkt.key.name \in Localhost =>
       DrawnAtRandom(s) \/ s.pkt.nextHop # NoFace
<1>1. ASSUME Inv, [Next]_vars
      PROVE  [A]_vars
  BY <1>1, NextBalanced DEF Balanced, Confined
<1>2. Inv /\ [Next]_vars => [A]_vars
  BY <1>1
<1>3. LocalhostInterestsStay <=> [][A]_vars
  BY DEF LocalhostInterestsStay
<1> HIDE DEF A
<1> QED
  BY <1>2, <1>3, Invariance, PTL DEF Spec

\* A /localhop Interest crosses a link only if it is the one an application of this
\* node asked for last, or is sent after a hash failure while an application
\* waits, or when its face was drawn at random: an Interest that came over a link
\* goes no further, whoever else waits for its entry.
THEOREM LocalhopIsConfined == Spec => LocalhopInterestsStop
<1> DEFINE A == \A s \in sent' :
       s.pkt.type = "Interest" /\ OverLink(s) /\ s.pkt.key.name \in Localhop =>
       DrawnAtRandom(s) \/ \E f \in FaceId : IsLocal(s.at, f) /\ SentFor(s, f)
<1>1. ASSUME Inv, [Next]_vars
      PROVE  [A]_vars
  BY <1>1, NextBalanced DEF Balanced, Confined
<1>2. Inv /\ [Next]_vars => [A]_vars
  BY <1>1
<1>3. LocalhopInterestsStop <=> [][A]_vars
  BY DEF LocalhopInterestsStop
<1> HIDE DEF A
<1> QED
  BY <1>2, <1>3, Invariance, PTL DEF Spec

------------------------------------------------------------------------------
(* How the process stops: a hash-guided strategy may follow the tag of cached *)
(* Data to a face that does not exist, or draw faces without end.             *)

TagsDefinedAt(n) == \A c \in cs[n] : LookupCsIsDefined(n, c)

FaceToDraw(n) == \A f \in FaceId : RandomFaces(n, f) # {}

\* What a handler of node n does to the process.
Stops(n) ==
  /\ status' = "crashed" => status = "crashed" \/ ~TagsDefinedAt(n)
  /\ status' = "spinning" => status = "spinning" \/ ~FaceToDraw(n)

\* A handler that leaves the process alone.
LEMMA UnchangedStops ==
  ASSUME NEW n, status' = status
  PROVE  Stops(n)
  BY DEF Stops

\* Forwarding by the FIB never stops the process.
LEMMA ForwardByFibStatus ==
  ASSUME NEW n, NEW k, NEW e, NEW f, NEW i, ForwardByFib(n, k, e, f, i)
  PROVE  status' = status
<1>1. ASSUME NEW J, ForwardToFirst(n, k, e, J, i)
      PROVE  status' = status
  BY <1>1 DEF ForwardToFirst, OutgoingInterest
<1> QED
  BY <1>1 DEF ForwardByFib, BestRoute, ForwardNew, NoNextHop, RetransmitUnused,
              RetransmitRetry, Multicast, BestRouteV1, Done

\* best-route's afterReceiveNack never stops the process.
LEMMA AfterReceiveNackStatus ==
  ASSUME NEW n, NEW k, NEW e, AfterReceiveNack(n, k, e)
  PROVE  status' = status
  BY DEF AfterReceiveNack, OutgoingNack, Done

\* The strategies stop the process in these two ways only.
LEMMA AfterReceiveInterestStops ==
  ASSUME NEW n, NEW k, NEW e, NEW f \in FaceId, NEW i, AfterReceiveInterest(n, k, e, f, i)
  PROVE  Stops(n)
<1>1. CASE ForwardByFib(n, k, e, f, i)
  BY <1>1, ForwardByFibStatus, UnchangedStops
<1>2. CASE ForwardToNearest(n, k, e, f, i) \/ ForwardToRandom(n, k, e, f, i)
  BY <1>2, UnchangedStops DEF ForwardToNearest, ForwardToRandom, OutgoingInterest
<1>3. CASE AfterReceiveNack(n, k, e)
  BY <1>3, AfterReceiveNackStatus, UnchangedStops
<1>4. CASE NearestFaceIsUndefined(n, k, e)
  <2>1. ~TagsDefinedAt(n)
    BY <1>4 DEF NearestFaceIsUndefined, Nearest, TagsDefinedAt
  <2> QED
    BY <1>4, <2>1 DEF NearestFaceIsUndefined, Stops
<1>5. CASE DrawForever(n, k, e, f)
  <2>1. ~FaceToDraw(n)
    BY <1>5 DEF DrawForever, FaceToDraw
  <2> QED
    BY <1>5, <2>1 DEF DrawForever, Stops
<1> QED
  BY <1>1, <1>2, <1>3, <1>4, <1>5 DEF AfterReceiveInterest

\* A miss stops the process only in the strategy.
LEMMA ContentStoreMissStops ==
  ASSUME NEW n, NEW k, NEW e, NEW f \in FaceId, NEW i, ContentStoreMiss(n, k, e, f, i)
  PROVE  Stops(n)
<1>1. ASSUME NEW w, Done(n, k, w) \/ \E G : OutgoingInterest(n, k, w, G, i)
      PROVE  Stops(n)
  BY <1>1, UnchangedStops DEF Done, OutgoingInterest
<1>2. \E w : \/ Done(n, k, w) \/ \E G : OutgoingInterest(n, k, w, G, i)
             \/ AfterReceiveInterest(n, k, w, f, i)
  BY DEF ContentStoreMiss
<1> QED
  BY <1>1, <1>2, AfterReceiveInterestStops

\* A ContentStore lookup stops the process only in the strategy.
LEMMA CsLookupStops ==
  ASSUME NEW n, NEW k, NEW e, NEW f \in FaceId, NEW i, CsLookup(n, k, e, f, i)
  PROVE  Stops(n)
  BY ContentStoreMissStops, UnchangedStops DEF CsLookup, ContentStoreHit

\* The incoming Interest pipeline stops the process in these two ways only.
LEMMA ReceiveInterestStops ==
  ASSUME Inv, NEW n \in NodeId, NEW f \in FaceId, NEW i \in InterestIn,
         ReceiveInterest(n, f, i)
  PROVE  Stops(n)
<1>1. i \in Interest
  BY ForwarderAssumption
<1>2. CASE status' = status
  BY <1>2, UnchangedStops
<1>3. ASSUME NEW e, NEW j, \/ ConsumerHashHit(n, i.key, e, f, j)
                           \/ CsLookup(n, i.key, e, f, j)
                           \/ ContentStoreMiss(n, i.key, e, f, j)
      PROVE  Stops(n)
  BY <1>3, CsLookupStops, ContentStoreMissStops, UnchangedStops DEF ConsumerHashHit
<1>4. CASE UsesHashPipeline(i) /\ HashPipeline(n, f, i)
  BY <1>1, <1>2, <1>3, <1>4, HashPipelineCases
<1>5. CASE OrdinaryPipeline(n, f, i)
  BY <1>1, <1>2, <1>3, <1>5, OrdinaryPipelineCases
<1> QED
  BY <1>2, <1>4, <1>5 DEF ReceiveInterest

\* So does the incoming Nack pipeline.
LEMMA ReceiveNackStops ==
  ASSUME NEW n \in NodeId, NEW f \in FaceId, NEW nk \in NackIn, ReceiveNack(n, f, nk)
  PROVE  Stops(n)
<1>1. CASE status' = status
  BY <1>1, UnchangedStops
<1>2. CASE HashFallback(n, f, nk)
  <2>1. \E e : \/ Done(n, nk.key, e)
               \/ \E h \in FaceId : \E i : AfterReceiveInterest(n, nk.key, e, h, i)
    BY <1>2 DEF HashFallback
  <2> QED
    BY <1>1, <2>1, AfterReceiveInterestStops DEF Done
<1>3. CASE PropagateNack(n, f, nk)
  <2>1. \E e : NackTrigger(n, nk.key, e)
    BY <1>3 DEF PropagateNack
  <2> QED
    BY <1>1, <2>1, AfterReceiveNackStatus DEF NackTrigger, Done
<1> QED
  BY <1>1, <1>2, <1>3 DEF ReceiveNack

\* Every step that stops the process is one of a node in which cached Data has a
\* tag without face, or from which some downstream leaves no face to be drawn.
LEMMA NextStops ==
  ASSUME Inv, [Next]_vars
  PROVE  status' = status \/ \E n \in NodeId : Stops(n)
<1>1. ASSUME NEW n \in NodeId, NEW f \in FaceId, NEW i \in InterestIn,
             ReceiveInterest(n, f, i)
      PROVE  Stops(n)
  BY <1>1, ReceiveInterestStops
<1>2. ASSUME NEW n \in NodeId, NEW f \in FaceId, NEW nk \in NackIn, ReceiveNack(n, f, nk)
      PROVE  Stops(n)
  BY <1>2, ReceiveNackStops
<1> QED
  BY <1>1, <1>2
     DEF Next, ReceiveData, UnsatisfyTimer, StragglerTimer, Finalize, Tick,
         DataBecomesStale, DeadNonceForgotten, AddFace, RemoveFace, vars

------------------------------------------------------------------------------
(* Tags of cached Data.  They stay defined as long as no producer caches Data *)
(* wrapped in other Data and no face goes that cached Data came from.         *)

NothingWrapped == \A d \in DataIn : d.parsed => d.inner = NoName

TaggedFacesStay ==
  \A n \in NodeId : \A c \in cs[n] : c.tag \in FaceId => face'[n][c.tag] = face[n][c.tag]

TagsDefined == \A n \in NodeId : TagsDefinedAt(n)

\* Cs::insert of Data from a live face gives the Data a tag that is defined; an
\* entry that is only refreshed keeps the tag it has.
LEMMA CsInsertTags ==
  ASSUME TypeOK, TagsDefined, NEW n \in NodeId, NEW d, NEW f, Live(n, f), CsInsert(n, d, f)
  PROVE  \A m \in NodeId : \A c \in cs'[m] : LookupCsIsDefined(m, c)
<1> DEFINE same == {c \in cs[n] : c.data = d}
           new  == [data |-> d, tag |-> f, stale |-> FALSE]
           full == cs[n] \cup {new}
           Fresh(c) == [c EXCEPT !.stale = FALSE]
<1>1. /\ cs \in [NodeId -> SUBSET CsEntry]
      /\ \A m \in NodeId : \A c \in cs[m] : LookupCsIsDefined(m, c)
  BY DEF TypeOK, TagsDefined, TagsDefinedAt
<1>2. LookupCsIsDefined(n, new)
  BY DEF LookupCsIsDefined
<1>3. \A c \in cs[n] : LookupCsIsDefined(n, Fresh(c))
  <2>1. \A c \in CsEntry : Fresh(c).tag = c.tag
    BY DEF CsEntry
  <2> QED
    BY <1>1, <2>1 DEF LookupCsIsDefined
<1>4. \/ cs' = cs
      \/ cs' = [cs EXCEPT ![n] = (cs[n] \ same) \cup {Fresh(c) : c \in same}]
      \/ \E s \in SUBSET full : cs' = [cs EXCEPT ![n] = s]
  <2>1. CASE CsLimit = 0 /\ UNCHANGED cs
    BY <2>1
  <2>2. CASE cs' = [cs EXCEPT ![n] = (@ \ same) \cup {Fresh(c) : c \in same}]
    BY <1>1, <2>2
  <2>3. CASE cs' = [cs EXCEPT ![n] = full]
    BY <2>3
  <2>4. CASE \E victim \in full : cs' = [cs EXCEPT ![n] = full \ {victim}]
    BY <2>4
  <2> QED
    BY <2>1, <2>2, <2>3, <2>4 DEF CsInsert
<1> HIDE DEF new, Fresh
<1>5. CASE cs' = cs
  BY <1>1, <1>5
<1>6. CASE cs' = [cs EXCEPT ![n] = (cs[n] \ same) \cup {Fresh(c) : c \in same}]
  BY <1>1, <1>3, <1>6
<1>7. CASE \E s \in SUBSET full : cs' = [cs EXCEPT ![n] = s]
  BY <1>1, <1>2, <1>7
<1> QED
  BY <1>4, <1>5, <1>6, <1>7

\* A hit re-tags the Data, and staleness leaves the tag alone.
LEMMA RewriteTags ==
  ASSUME TypeOK, TagsDefined, NEW n \in NodeId, NEW c \in cs[n], NEW b,
         LookupCsIsDefined(n, b), cs' = [cs EXCEPT ![n] = (@ \ {c}) \cup {b}]
  PROVE  \A m \in NodeId : \A a \in cs'[m] : LookupCsIsDefined(m, a)
<1>1. cs \in [NodeId -> SUBSET CsEntry]
  BY DEF TypeOK
<1>2. \A m \in NodeId : cs'[m] = IF m = n THEN (cs[n] \ {c}) \cup {b} ELSE cs[m]
  BY <1>1
<1> QED
  BY <1>2 DEF TagsDefined, TagsDefinedAt

\* What the ContentStore holds after a handler came from faces that exist.
LEMMA CsLookupTags ==
  ASSUME TypeOK, TagsDefined, NEW n \in NodeId, NEW k, NEW e, NEW f, NEW i,
         CsLookup(n, k, e, f, i)
  PROVE  \A m \in NodeId : \A c \in cs'[m] : LookupCsIsDefined(m, c)
<1>1. CASE cs' = cs
  BY <1>1 DEF TagsDefined, TagsDefinedAt
<1>2. ASSUME NEW c \in cs[n], ContentStoreHit(n, k, e, f, c)
      PROVE  \A m \in NodeId : \A a \in cs'[m] : LookupCsIsDefined(m, a)
  <2> DEFINE b == [c EXCEPT !.tag = FACEID_CONTENT_STORE]
  <2>1. LookupCsIsDefined(n, b)
    BY DEF LookupCsIsDefined, TypeOK, CsEntry
  <2>2. cs' = [cs EXCEPT ![n] = (@ \ {c}) \cup {b}]
    BY <1>2 DEF ContentStoreHit
  <2> HIDE DEF b
  <2> QED
    BY <2>1, <2>2, RewriteTags
<1> QED
  BY <1>1, <1>2 DEF CsLookup, CsMatches, ContentStoreMiss

\* No step caches Data with a tag that is undefined.
LEMMA NextTags ==
  ASSUME NothingWrapped, Inv, TagsDefined, Next
  PROVE  \A m \in NodeId : \A c \in cs'[m] : LookupCsIsDefined(m, c)
<1> DEFINE Goal == \A m \in NodeId : \A c \in cs'[m] : LookupCsIsDefined(m, c)
<1>1. TypeOK
  BY DEF Inv
<1>2. CASE cs' = cs
  BY <1>2 DEF TagsDefined, TagsDefinedAt
<1>3. ASSUME NEW n \in NodeId, NEW f \in FaceId, NEW i \in InterestIn,
             ReceiveInterest(n, f, i)
      PROVE  Goal
  <2>1. i \in Interest
    BY ForwarderAssumption
  <2>2. ASSUME NEW e, NEW j, CsLookup(n, i.key, e, f, j)
        PROVE  Goal
    BY <1>1, <2>2, CsLookupTags
  <2>3. CASE UsesHashPipeline(i) /\ HashPipeline(n, f, i)
    BY <1>2, <2>1, <2>2, <2>3, HashPipelineCases DEF ConsumerHashHit, ContentStoreMiss
  <2>4. CASE OrdinaryPipeline(n, f, i)
    BY <1>2, <2>1, <2>2, <2>4, OrdinaryPipelineCases DEF ContentStoreMiss
  <2> QED
    BY <1>2, <1>3, <2>3, <2>4 DEF ReceiveInterest
<1>4. ASSUME NEW n \in NodeId, NEW f \in FaceId, NEW d \in DataIn, ReceiveData(n, f, d)
      PROVE  Goal
  <2>1. cs' = cs \/ CsInsert(n, d, f)
    BY <1>4 DEF ReceiveData, DataUnsolicited, DataSolicited, CacheOnArrival, NothingWrapped
  <2>2. Live(n, f)
    BY <1>4 DEF ReceiveData
  <2> QED
    BY <1>1, <1>2, <2>1, <2>2, CsInsertTags
<1>5. ASSUME NEW n \in NodeId, NEW c \in cs[n], DataBecomesStale(n, c)
      PROVE  Goal
  <2> DEFINE b == [c EXCEPT !.stale = TRUE]
  <2>1. b.tag = c.tag
    BY <1>1 DEF TypeOK, CsEntry
  <2>2. LookupCsIsDefined(n, b)
    BY <2>1 DEF LookupCsIsDefined, TagsDefined, TagsDefinedAt
  <2>3. cs' = [cs EXCEPT ![n] = (@ \ {c}) \cup {b}]
    BY <1>5 DEF DataBecomesStale
  <2> HIDE DEF b
  <2> QED
    BY <1>1, <2>2, <2>3, RewriteTags
<1> QED
  BY <1>2, <1>3, <1>4, <1>5
     DEF Next, ReceiveNack, UnsatisfyTimer, StragglerTimer, Finalize, Tick,
         DeadNonceForgotten, AddFace, RemoveFace

\* Only adding and removing a face changes the faces of a node.
LEMMA FacesChange ==
  ASSUME Next
  PROVE  \/ UNCHANGED <<face, last>>
         \/ \E n \in NodeId : \E kind \in NewKinds : AddFace(n, kind)
         \/ \E n \in NodeId : \E f \in Closing : RemoveFace(n, f)
  BY DEF Next, ReceiveInterest, ReceiveData, ReceiveNack, UnsatisfyTimer, StragglerTimer,
         Finalize, Tick, DataBecomesStale, DeadNonceForgotten

\* The tags stay defined while the tagged faces stay.
LEMMA TagsStayDefined ==
  ASSUME NothingWrapped, Inv, TagsDefined, [Next]_vars, [TaggedFacesStay]_vars
  PROVE  TagsDefined'
<1>1. CASE UNCHANGED vars
  BY <1>1 DEF vars, TagsDefined, TagsDefinedAt, LookupCsIsDefined, Live
<1>2. CASE Next /\ UNCHANGED face
  BY <1>2, NextTags DEF TagsDefined, TagsDefinedAt, LookupCsIsDefined, Live
<1>3. CASE UNCHANGED cs /\ TaggedFacesStay
  BY <1>3 DEF TaggedFacesStay, TagsDefined, TagsDefinedAt, LookupCsIsDefined, Live
<1>4. Next => UNCHANGED face \/ UNCHANGED cs
  BY FacesChange DEF AddFace, RemoveFace
<1> QED
  BY <1>1, <1>2, <1>3, <1>4

\* In a network whose producers wrap no Data in Data, the hash-guided strategies
\* never dereference a face that does not exist, as long as a face that cached
\* Data came from stays: whatever is evicted, re-tagged or asked for meanwhile.
THEOREM HashForwardingIsDefined ==
  ASSUME NothingWrapped
  PROVE  Spec /\ [][TaggedFacesStay]_vars => []NeverCrashes
<1> DEFINE Safe == TagsDefined /\ NeverCrashes
<1>1. Init => Safe
  BY DEF Init, TagsDefined, TagsDefinedAt, NeverCrashes
<1>2. ASSUME Inv, Safe, [Next]_vars, [TaggedFacesStay]_vars
      PROVE  Safe'
  <2>1. TagsDefined'
    BY <1>2, TagsStayDefined
  <2>2. status' # "crashed"
    BY <1>2, NextStops DEF NeverCrashes, Stops, TagsDefined
  <2> QED
    BY <2>1, <2>2 DEF NeverCrashes
<1>3. Inv /\ Safe /\ [Next]_vars /\ [TaggedFacesStay]_vars => Safe'
  BY <1>2
<1>4. Safe => NeverCrashes
  OBVIOUS
<1> HIDE DEF Safe
<1> QED
  BY <1>1, <1>3, <1>4, Invariance, PTL DEF Spec

------------------------------------------------------------------------------
(* Faces to draw from. *)

\* Each node has two faces from the start that other nodes or applications use,
\* and that are never removed.
TwoFacesStay ==
  \A n \in NodeId : \E f, g \in FaceId \ Closing :
    f # g /\ {InitFace[n][f], InitFace[n][g]} \cap {"none", "internal"} = {}

\* A face that is not in Closing keeps its kind, and m_lastFaceId is the largest
\* FaceId ever given.
FacesStand ==
  \A n \in NodeId, f \in FaceId :
    /\ f \notin Closing /\ InitFace[n][f] # "none" => face[n][f] = InitFace[n][f]
    /\ face[n][f] # "none" => f <= last[n]

\* Adding a face takes a number no face had, so no face is replaced.
LEMMA FacesStandStep ==
  ASSUME Inv, FacesStand, [Next]_vars
  PROVE  FacesStand'
<1>1. /\ face \in [NodeId -> [FaceId -> Kind \cup {"none"}]]
      /\ last \in [NodeId -> FACEID_RESERVED_MAX .. MaxFaceId]
  BY DEF Inv, TypeOK
<1>2. CASE UNCHANGED <<face, last>>
  BY <1>2 DEF FacesStand
<1>3. ASSUME NEW n \in NodeId, NEW kind \in NewKinds, AddFace(n, kind)
      PROVE  FacesStand'
  <2>1. /\ face' = [face EXCEPT ![n][last[n] + 1] = kind]
        /\ last' = [last EXCEPT ![n] = last[n] + 1]
    BY <1>1, <1>3 DEF AddFace
  <2>2. last[n] \in Int
    BY <1>1 DEF FACEID_RESERVED_MAX
  <2>3. ASSUME NEW m \in NodeId, NEW f \in FaceId
        PROVE  /\ f \notin Closing /\ InitFace[m][f] # "none" => face'[m][f] = InitFace[m][f]
               /\ face'[m][f] # "none" => f <= last'[m]
    <3>1. /\ f \notin Closing /\ InitFace[m][f] # "none" => face[m][f] = InitFace[m][f]
          /\ face[m][f] # "none" => f <= last[m]
      BY DEF FacesStand
    <3>2. f \in Int
      BY DEF FaceId
    <3>3. CASE m = n /\ f = last[n] + 1
      BY <1>1, <2>1, <2>2, <3>1, <3>2, <3>3
    <3>4. CASE m = n /\ f # last[n] + 1
      BY <1>1, <2>1, <2>2, <3>1, <3>2, <3>4
    <3>5. CASE m # n
      BY <1>1, <2>1, <3>1, <3>5
    <3> QED
      BY <3>3, <3>4, <3>5
  <2> QED
    BY <2>3 DEF FacesStand
<1>4. ASSUME NEW n \in NodeId, NEW f \in Closing, RemoveFace(n, f)
      PROVE  FacesStand'
  BY <1>1, <1>4 DEF RemoveFace, FacesStand
<1> QED
  BY <1>2, <1>3, <1>4, FacesChange DEF vars

\* Two standing faces leave one to be drawn, whichever face the Interest came from.
LEMMA StandingFacesDrawn ==
  ASSUME TwoFacesStay, FacesStand, Inv, NEW n \in NodeId
  PROVE  FaceToDraw(n)
<1>1. PICK f, g \in FaceId \ Closing :
        f # g /\ {InitFace[n][f], InitFace[n][g]} \cap {"none", "internal"} = {}
  BY DEF TwoFacesStay
<1>2. last[n] \in Int
  BY DEF Inv, TypeOK, FACEID_RESERVED_MAX
<1>3. ASSUME NEW h \in {f, g}
      PROVE  h \in 256 .. last[n] /\ Live(n, h) /\ face[n][h] # "internal"
  <2>1. face[n][h] = InitFace[n][h] /\ InitFace[n][h] # "none" /\ InitFace[n][h] # "internal"
    BY <1>1 DEF FacesStand
  <2>2. h <= last[n]
    BY <2>1 DEF FacesStand
  <2> QED
    BY <1>2, <2>1, <2>2 DEF Live, FaceId
<1> QED
  BY <1>1, <1>3 DEF FaceToDraw, RandomFaces

\* In a network where every node keeps two faces that are not internal, the loop
\* that draws a face for a hash-guided Interest always ends.
THEOREM RandomDrawEnds ==
  ASSUME TwoFacesStay
  PROVE  Spec => []NeverSpins
<1> DEFINE Safe == FacesStand /\ NeverSpins
<1>1. Init => Safe
  BY DEF Init, FacesStand, NeverSpins
<1>2. ASSUME Inv, Safe, [Next]_vars
      PROVE  Safe'
  <2>1. FacesStand'
    BY <1>2, FacesStandStep
  <2>2. \A n \in NodeId : FaceToDraw(n)
    BY <1>2, StandingFacesDrawn
  <2>3. status' # "spinning"
    BY <1>2, <2>2, NextStops DEF NeverSpins, Stops
  <2> QED
    BY <2>1, <2>3 DEF NeverSpins
<1>3. Inv /\ Safe /\ [Next]_vars => Safe'
  BY <1>2
<1>4. Safe => NeverSpins
  OBVIOUS
<1> HIDE DEF Safe
<1> QED
  BY <1>1, <1>3, <1>4, Invariance, PTL DEF Spec
==============================================================================
