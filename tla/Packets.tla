------------------------------- MODULE Packets -------------------------------
(***************************************************************************)
(* The network-layer packets that the forwarding daemon handles, and the   *)
(* faces it handles them on.                                               *)
(*                                                                         *)
(* A packet keeps only what forwarding looks at.  The Name and the         *)
(* Selectors of an Interest identify a PIT entry, so they travel together  *)
(* as a Key; MustBeFresh is the one selector the pipelines read.           *)
(* HashFlag, HashTTL and ConsumerID are the three fields this fork adds:   *)
(*   0  an ordinary Interest;          1  a hash-guided Interest in flight;*)
(*   2  a hash-guided Interest at its first forwarder;                     *)
(*   11 a consumer-hash Interest, answered with the nearest cached Data.   *)
(***************************************************************************)
EXTENDS Integers

CONSTANTS
  Name,            \* Names of Interests and Data
  NoName,          \* "this Data carries no other Data in its Content"
  Nonce,           \* Interest nonces
  Localhost,       \* the Names under /localhost
  HasLocalhost,    \* the Names whose URI contains "/localhost" anywhere
  Localhop,        \* the Names under /localhop
  Under,           \* Under[n] is the set of Names that have n as a prefix
  Freshness,       \* Freshness[n]: FreshnessPeriod of the Data named n
  Hash,            \* Hash[n] = std::hash of the URI of n
  TTL_MAX,         \* the largest HashTTL the hash pipeline accepts (10)
  MaxFaceId,       \* bound on the FaceIds ever assigned
  MaxLifetime,     \* bound on InterestLifetime, in ticks of 100 ms
  MaxConsumerID    \* bound on the ConsumerID of an Interest

Periods == {"none", "short", "long"}

ASSUME PacketsAssumption ==
  /\ NoName \notin Name
  /\ Localhost \subseteq HasLocalhost /\ HasLocalhost \subseteq Name
  /\ Localhop \subseteq Name
  /\ Under \in [Name -> SUBSET Name]
  /\ \A n \in Name : n \in Under[n]
  /\ Freshness \in [Name -> Periods]
  /\ Hash \in [Name -> Nat]
  /\ TTL_MAX \in Nat \ {0}
  /\ MaxFaceId \in Nat /\ MaxFaceId >= 256
  /\ MaxLifetime \in Nat \ {0}
  /\ MaxConsumerID \in Nat

------------------------------------------------------------------------------
(* Faces.  The face table numbers faces from 256; 254 is the null face that *)
(* stands for the ContentStore.  A face is described by its kind.           *)

FACEID_RESERVED_MAX  == 255
FACEID_CONTENT_STORE == 254
FaceId  == 256 .. MaxFaceId
OutFace == FaceId \cup {FACEID_CONTENT_STORE}
NoFace  == 0

Kind == {"net", "lan", "app", "internal"}

LocalKind(kind)       == kind \in {"app", "internal"}
MultiAccessKind(kind) == kind = "lan"

------------------------------------------------------------------------------
(* Packets. *)

Key == [name : Name, mustBeFresh : BOOLEAN]

HashFlag == {0, 1, 2, 11}

\* NoReason is lp::NackReason::NONE.
Reason == {"NoReason", "Duplicate", "NoRoute", "Congestion"}

Interest == [type : {"Interest"}, key : Key, nonce : Nonce, flag : HashFlag,
             ttl : 0 .. TTL_MAX + 1, id : 0 .. MaxConsumerID,
             life : 1 .. MaxLifetime, nextHop : FaceId \cup {NoFace}]

\* inner is the Data wrapped in the Content of a consumer-hash reply; parsed
\* tells whether the Content block still holds its sub-blocks, which decoding
\* a packet from the wire does not rebuild.
Data == [type : {"Data"}, name : Name, inner : Name \cup {NoName}, parsed : BOOLEAN]

\* A Nack carries the Interest it answers.
Nack == [type : {"Nack"}, key : Key, nonce : Nonce, flag : HashFlag,
         life : 1 .. MaxLifetime, reason : Reason]

Packet == Interest \cup Data \cup Nack

NackFor(i, reason) ==
  [type |-> "Nack", key |-> i.key, nonce |-> i.nonce, flag |-> i.flag,
   life |-> i.life, reason |-> reason]

\* A reply to a consumer-hash Interest carries m_freshness, which is zero.
FreshnessOf(d) == IF d.inner # NoName THEN "short" ELSE Freshness[d.name]

\* Distance between two hash values; the search does not wrap around.
Deviation(a, b) == IF a > b THEN a - b ELSE b - a
==============================================================================
