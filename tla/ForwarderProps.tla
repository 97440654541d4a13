---------------------------- MODULE ForwarderProps ----------------------------
(***************************************************************************)
(* What the forwarding pipelines promise.                                  *)
(***************************************************************************)
EXTENDS Forwarder

Present(n, k) == pit[n][k] # NoEntry

\* The keys whose Interests the Data named m satisfies.
KeysOf(m) == {k \in Key : m \in Under[k.name]}

------------------------------------------------------------------------------
(* Timers of a PIT entry. *)

\* Every PIT entry has exactly one of its two timers armed between events: it
\* can neither be forgotten nor be erased twice (pit-entry.hpp:253-266).
OneTimer ==
  \A n \in NodeId, k \in Key : Present(n, k) =>
    (pit[n][k].unsatisfy >= 0) # (pit[n][k].straggler >= 0)

\* The unsatisfy timer never fires while a downstream still waits: it is set to
\* the last expiry among the in-records and records are only removed without it.
NoEarlyExpiry ==
  \A n \in NodeId, k \in Key : Present(n, k) /\ pit[n][k].unsatisfy >= 0 =>
    \A f \in InFaces(pit[n][k]) : pit[n][k].in[f].expires <= pit[n][k].unsatisfy

\* An entry that was satisfied has no downstream left: the ones that come after
\* the Data start the entry anew.
SatisfiedHasNoDownstream ==
  \A n \in NodeId, k \in Key :
    Present(n, k) /\ pit[n][k].straggler >= 0 /\ pit[n][k].result # "unsatisfied"
      => InFaces(pit[n][k]) = {}

\* An entry is erased under a waiting downstream only if the strategy rejected
\* the Interest: no other path of the pipelines loses a pending downstream.
ErasedOnlyWhenDone ==
  [][\A n \in NodeId, k \in Key : Present(n, k) /\ pit'[n][k] = NoEntry =>
       \/ \A f \in InFaces(pit[n][k]) : pit[n][k].in[f].expires <= 0
       \/ pit[n][k].straggler = 0 /\ pit[n][k].result = "unsatisfied"]_vars

------------------------------------------------------------------------------
(* Flow balance. *)

\* Data leaves on a face only on demand: an unexpired in-record of that face
\* asked for it, or the ContentStore answers with it, or with a reply around it.
DataOnlyOnDemand ==
  [][\A s \in sent' : s.pkt.type = "Data" =>
       \/ \E k \in KeysOf(s.pkt.name) :
            /\ Present(s.at, k) /\ s.face \in InFaces(pit[s.at][k])
            /\ pit[s.at][k].in[s.face].expires > 0
       \/ \E c \in cs[s.at] : c.data = s.pkt \/ c.data.name = s.pkt.inner]_vars

------------------------------------------------------------------------------
(* Faces. *)

\* The PIT never refers to a face that is gone, whatever Interests, Nacks and
\* Data cross the removal.
RecordsOnLiveFaces ==
  \A n \in NodeId, k \in Key : Present(n, k) =>
    /\ \A f \in InFaces(pit[n][k]) : Live(n, f)
    /\ \A g \in OutFaces(pit[n][k]) : g = FACEID_CONTENT_STORE \/ Live(n, g)

\* As long as every face that delivered Data is there, the hash-guided
\* strategies never follow the tag of cached Data to a face that does not exist.
NeverCrashes == status # "crashed"

\* A hash-guided Interest always finds a face to be drawn.
NeverSpins == status # "spinning"

------------------------------------------------------------------------------
(* Scope (algorithm.hpp:39-60). *)

OverLink(s) == ~IsLocal(s.at, s.face)

\* A hash-guided Interest of a node that has nothing cached goes to a random face.
DrawnAtRandom(s) == IsHashGuided(s.pkt) /\ cs[s.at] = {}

\* "Interest can come from and go to local faces only": no /localhost Interest
\* leaves the node.  Two features pass by the strategies' check: the nexthop that
\* an application chooses (forwarder.cpp:393-403), and the random draw of the
\* multicast strategy (multicast-strategy.cpp:69-84).
LocalhostInterestsStay ==
  [][\A s \in sent' :
       s.pkt.type = "Interest" /\ OverLink(s) /\ s.pkt.key.name \in Localhost =>
       DrawnAtRandom(s) \/ s.pkt.nextHop # NoFace]_vars

\* The step answers a Nack with the Interest the hash-guided one started as.
FallsBack(s) ==
  /\ Present(s.at, s.pkt.key) /\ pit[s.at][s.pkt.key].hashStart
  /\ ~pit'[s.at][s.pkt.key].hashStart

\* Packet s carries the Interest that downstream f asked for last.
SentFor(s, f) ==
  LET e == pit'[s.at][s.pkt.key]
  IN f \in InFaces(e) /\ (e.in[f].nonce = s.pkt.nonce \/ FallsBack(s))

\* "If an Interest is received from a non-local face, it cannot be forwarded to
\* a non-local face": a /localhop Interest on a link is that of a local downstream,
\* whoever else joined the entry and in whatever order, the chosen nexthop
\* included.  After a hash failure the Interest is the one the Nack carries, and
\* some local downstream waits for it; the random draw alone does not look.
LocalhopInterestsStop ==
  [][\A s \in sent' :
       s.pkt.type = "Interest" /\ OverLink(s) /\ s.pkt.key.name \in Localhop =>
       DrawnAtRandom(s) \/ \E f \in FaceId : IsLocal(s.at, f) /\ SentFor(s, f)]_vars

------------------------------------------------------------------------------
(* Progress. *)

InterestOrDataArrives ==
  \E n \in NodeId, f \in FaceId :
    \/ \E i \in InterestIn : ReceiveInterest(n, f, i)
    \/ \E d \in DataIn : ReceiveData(n, f, d)

\* When no more Interests and Data come, the PIT is empty in the end and stays so,
\* however the Nacks and the timers of its entries fell out.  Each Data that
\* matches a satisfied entry arms its straggler timer anew (forwarder.cpp:557-580),
\* so the Data must cease as well.
PitDrains ==
  <>[][~InterestOrDataArrives]_vars =>
    <>[](status # "running" \/ \A n \in NodeId, k \in Key : ~Present(n, k))

------------------------------------------------------------------------------
(* What the documentation says and the code does not do. *)

\* "A non-null return value means the last outgoing Interest has been NACKed"
\* (pit-out-record.hpp:44-45): an Interest that is sent again is not nacked yet.
SentInterestIsPending ==
  [][\A s \in sent' : s.pkt.type = "Interest" =>
       pit'[s.at][s.pkt.key].out[s.face].nack = NotNacked]_vars
==============================================================================
