----------------------------- MODULE MCForwarder -----------------------------
(***************************************************************************)
(* Instances of the forwarder for TLC: one node, a few faces, lifetimes of *)
(* one or two ticks.  Names are model values: best-route forwards video    *)
(* and pic, multicast forwards news and local, the first best-route        *)
(* strategy forwards hop.                                                  *)
(***************************************************************************)
EXTENDS ForwarderProps, TLC

CONSTANTS x, y, video, pic, news, local, hop, n1

MCUnder     == [m \in Name |-> {m}]
MCFreshness == [m \in Name |-> CASE m \in {video, news} -> "short" [] m = pic -> "long" [] OTHER -> "none"]
MCHash      == [m \in Name |-> CASE m = video -> 3 [] m = pic -> 7 [] OTHER -> 0]
MCStrategy  == [m \in Name |-> CASE m \in {news, local} -> "multicast"
                                 [] m = hop -> "best-route-v1"
                                 [] OTHER -> "best-route"]

NonceSymmetry == Permutations(Nonce)

------------------------------------------------------------------------------
(* Packets. *)

\* Ordinary Interests for each name in names, MustBeFresh when fresh has it.
Interests(names, fresh, lives, hops) ==
  {[type |-> "Interest", key |-> [name |-> m, mustBeFresh |-> m \in fresh], nonce |-> nonce,
    flag |-> 0, ttl |-> 0, id |-> 0, life |-> life, nextHop |-> h] :
      m \in names, nonce \in Nonce, life \in lives, h \in hops}

Nacks(interests, reasons) == {NackFor(i, r) : i \in interests, r \in reasons}

DataOf(names) ==
  {[type |-> "Data", name |-> m, inner |-> NoName, parsed |-> FALSE] : m \in names}

\* A short Interest and a long one, told apart by their nonces.
FibInterests == {i \in Interests(Name, {video}, 1 .. MaxLifetime, {NoFace}) :
                   i.life = 1 <=> i.nonce = x}
FibNacks     == Nacks(FibInterests, {"NoRoute"})
AllData      == DataOf(Name)
NoPackets    == {}

\* Faces 256 and up, in the order of their kinds.
Faces(kinds) ==
  [n \in NodeId |-> [f \in FaceId |->
     IF f - FACEID_RESERVED_MAX \in DOMAIN kinds THEN kinds[f - FACEID_RESERVED_MAX]
                                                 ELSE "none"]]

TwoLinksApp == Faces(<<"net", "net", "app">>)
LinkLanApp  == Faces(<<"net", "lan", "app">>)
LinkRibApp  == Faces(<<"net", "internal", "app">>)

\* Nexthops of every name.
BothLinks == [n \in NodeId |-> [m \in Name |-> <<256, 257>>]]
OneLink   == [n \in NodeId |-> [m \in Name |-> <<256>>]]

AnInterest(m, fresh, nonce, flag, life) ==
  [type |-> "Interest", key |-> [name |-> m, mustBeFresh |-> fresh], nonce |-> nonce,
   flag |-> flag, ttl |-> IF flag = 0 THEN 0 ELSE 1, id |-> 0, life |-> life, nextHop |-> NoFace]

\* One Interest follows the hash, one may leave at random, one asks for the
\* nearest Data and one follows the FIB.
HashInterests == {AnInterest(video, TRUE, x, flag, 1) : flag \in {1, 2, 11}}
                   \cup {AnInterest(video, TRUE, y, 0, 1)}
HashNacks     == Nacks({i \in HashInterests : i.flag \in {1, 11}}, {"NoReason"})

\* Plain Data, and a reply that wraps Data of the other name.
HashData == DataOf({video}) \cup
  {[type |-> "Data", name |-> video, inner |-> pic, parsed |-> FALSE]}

\* Interests of two scopes, one of which an application sends to a face it
\* chooses, and one it leaves to the strategy.
FacesInterests == Interests({local}, {}, {1}, {NoFace})
                    \cup Interests({hop}, {}, {1}, {NoFace, 256})
FacesNacks     == {NackFor(i, "Congestion") : i \in {j \in FacesInterests : j.nextHop = NoFace}}
==============================================================================
