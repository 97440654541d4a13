----------------------------- MODULE Strategies ------------------------------
(***************************************************************************)
(* The forwarding strategies of fw/ that this fork changes: best-route     *)
(* (version 4 of the strategy, class BestRouteStrategy2), multicast, and   *)
(* the first best-route strategy.                                          *)
(*                                                                         *)
(* An Interest whose HashFlag is set is forwarded towards the face that    *)
(* the cached Data with the nearest hash came from, or, when nothing is    *)
(* cached, to a random face; otherwise the FIB decides.                    *)
(***************************************************************************)
EXTENDS Node

CONSTANT StrategyOf     \* StrategyOf[name]: the effective strategy

ASSUME StrategiesAssumption ==
  StrategyOf \in [Name -> {"best-route", "multicast", "best-route-v1"}]

------------------------------------------------------------------------------
(* Hash-guided forwarding. *)

IsHashGuided(i) ==
  /\ i.flag > 0
  /\ \/ StrategyOf[i.key.name] = "best-route" /\ i.key.name \notin HasLocalhost
     \/ StrategyOf[i.key.name] = "multicast"

\* The cached entries whose Data name has the hash nearest to h.
Nearest(n, h) ==
  {c \in cs[n] : \A d \in cs[n] :
     Deviation(h, Hash[c.data.name]) <= Deviation(h, Hash[d.data.name])}

\* lookupCs dereferences the face it finds, whether or not there is a tag and
\* whether or not the face still exists.
LookupCsIsDefined(n, c) == c.tag = FACEID_CONTENT_STORE \/ Live(n, c.tag)

MayForwardToNearest(n, e, f, i, g) ==
  /\ ~WouldViolateScope(n, f, i.key.name, g)
  /\ CanForwardToLegacy(e, g)
  /\ StrategyOf[i.key.name] = "multicast" => g \in FaceId

MutantDrawsBelowLast(n, f) ==
  {g \in 256 .. last[n] - 1 : g # f /\ Live(n, g) /\ face[n][g] # "internal"}

\* The faces the random draw accepts.
RandomFaces(n, f) ==
  {g \in 256 .. last[n] : g # f /\ Live(n, g) /\ face[n][g] # "internal"}

ForwardToNearest(n, k, e, f, i) ==
  \E c \in Nearest(n, Hash[k.name]) :
    /\ LookupCsIsDefined(n, c)
    /\ MayForwardToNearest(n, e, f, i, c.tag)
    /\ OutgoingInterest(n, k, e, {c.tag}, i)

NearestFaceIsUndefined(n, k, e) ==
  /\ \E c \in Nearest(n, Hash[k.name]) : ~LookupCsIsDefined(n, c)
  /\ Put(n, k, e) /\ sent' = {} /\ status' = "crashed"

ForwardToRandom(n, k, e, f, i) ==
  \E g \in RandomFaces(n, f) : OutgoingInterest(n, k, e, {g}, i)

DrawForever(n, k, e, f) ==
  /\ RandomFaces(n, f) = {}
  /\ Put(n, k, e) /\ sent' = {} /\ status' = "spinning"

------------------------------------------------------------------------------
(* Nacks from upstreams, best-route. *)

NotNackedFaces(e) == {g \in OutFaces(e) : e.out[g].nack = NotNacked}

NackReasons(e) == {e.out[g].nack : g \in OutFaces(e)} \ {NotNacked}

Severity == [NoReason |-> 200, NoRoute |-> 150, Duplicate |-> 100, Congestion |-> 50]

\* The reason afterReceiveNack accumulates with compareLessSevere.
LeastSevere(reasons) ==
  CHOOSE r \in reasons \cup {"NoReason"} :
    \A s \in reasons : Severity[r] <= Severity[s]

AfterReceiveNack(n, k, e) ==
  LET waiting == NotNackedFaces(e)
      reason  == LeastSevere(NackReasons(e))
  IN \/ /\ waiting = {}
        /\ OutgoingNack(n, k, e, FaceId, reason)
     \/ \E g \in waiting :
        /\ waiting = {g} /\ g \in InFaces(e)
        /\ OutgoingNack(n, k, e, {g}, reason)
     \/ /\ waiting # {} /\ \A g \in InFaces(e) : waiting # {g}
        /\ Done(n, k, e)

\* The other two strategies keep the empty trigger of the base class.
NackTrigger(n, k, e) ==
  \/ StrategyOf[k.name] = "best-route" /\ AfterReceiveNack(n, k, e)
  \/ StrategyOf[k.name] # "best-route" /\ Done(n, k, e)

------------------------------------------------------------------------------
(* Forwarding by the FIB. *)

\* A face that is removed leaves every nexthop list.
NextHops(n, name) == {j \in DOMAIN Fib[n][name] : Live(n, Fib[n][name][j])}

Eligible(n, f, name) ==
  {j \in NextHops(n, name) :
     Fib[n][name][j] # f /\ ~WouldViolateScope(n, f, name, Fib[n][name][j])}

Unused(n, e, f, name) ==
  {j \in Eligible(n, f, name) :
     Fib[n][name][j] \in OutFaces(e) => e.out[Fib[n][name][j]].expires <= 0}

MutantScopeOfEntry(n, e, f, name) ==
  {j \in NextHops(n, name) : LET g == Fib[n][name][j] IN
     /\ \E h \in InFaces(e) : ~WouldViolateScope(n, h, name, g)
     /\ CanForwardToLegacy(e, g)}

Sendable(n, e, f, name) ==
  {j \in NextHops(n, name) : LET g == Fib[n][name][j] IN
     ~WouldViolateScope(n, f, name, g) /\ CanForwardToLegacy(e, g)}

\* Forward to the nexthop of lowest cost among the positions J of the FIB entry.
ForwardToFirst(n, k, e, J, i) ==
  \E j \in J : /\ \A h \in J : j <= h
               /\ OutgoingInterest(n, k, e, {Fib[n][k.name][j]}, i)

\* The retransmission suppression decides NEW when nothing is pending; its
\* other two answers, SUPPRESS and FORWARD, are treated alike.
IsNew(e) == ~HasPendingOutRecords(e)

ForwardNew(n, k, e, f, i) ==
  /\ IsNew(e)
  /\ ForwardToFirst(n, k, e, Eligible(n, f, k.name), i)

NoNextHop(n, k, e, f) ==
  /\ IsNew(e) /\ Eligible(n, f, k.name) = {}
  /\ LET G == Nackable(n, e, {f})
     IN /\ Put(n, k, Rejected(WithoutInRecords(e, G)))
        /\ sent' = {[at |-> n, face |-> g, pkt |-> NackOf(k, e, g, "NoRoute")] : g \in G}
        /\ UNCHANGED status

RetransmitUnused(n, k, e, f, i) ==
  /\ ~IsNew(e)
  /\ ForwardToFirst(n, k, e, Unused(n, e, f, k.name), i)

\* Every eligible nexthop has an out-record: take the one renewed first.
RetransmitRetry(n, k, e, f, i) ==
  LET J      == Eligible(n, f, k.name)
      Age(j) == e.out[Fib[n][k.name][j]].age
      oldest == {j \in J : \A h \in J : Age(j) >= Age(h)}
  IN /\ ~IsNew(e) /\ Unused(n, e, f, k.name) = {}
     /\ \/ J = {} /\ Done(n, k, e)
        \/ J # {} /\ ForwardToFirst(n, k, e, oldest, i)

BestRoute(n, k, e, f, i) ==
  \/ ForwardNew(n, k, e, f, i)
  \/ NoNextHop(n, k, e, f)
  \/ RetransmitUnused(n, k, e, f, i)
  \/ RetransmitRetry(n, k, e, f, i)

Multicast(n, k, e, f, i) ==
  LET G  == {Fib[n][k.name][j] : j \in Sendable(n, e, f, k.name)}
      e2 == WithOutRecords(e, G, i)
  IN /\ Put(n, k, Rejected(e2))
     /\ sent' = Sends(n, G, i)
     /\ UNCHANGED status

BestRouteV1(n, k, e, f, i) ==
  LET J == Sendable(n, e, f, k.name)
  IN \/ HasPendingOutRecords(e) /\ Done(n, k, e)
     \/ ~HasPendingOutRecords(e) /\ ForwardToFirst(n, k, e, J, i)
     \/ ~HasPendingOutRecords(e) /\ J = {} /\ Done(n, k, Rejected(e))

ForwardByFib(n, k, e, f, i) ==
  \/ StrategyOf[k.name] = "best-route" /\ BestRoute(n, k, e, f, i)
  \/ StrategyOf[k.name] = "multicast" /\ Multicast(n, k, e, f, i)
  \/ StrategyOf[k.name] = "best-route-v1" /\ BestRouteV1(n, k, e, f, i)

------------------------------------------------------------------------------
\* afterReceiveInterest of the effective strategy.
AfterReceiveInterest(n, k, e, f, i) ==
  \/ ~IsHashGuided(i) /\ ForwardByFib(n, k, e, f, i)
  \/ /\ IsHashGuided(i) /\ cs[n] # {}
     /\ \/ ForwardToNearest(n, k, e, f, i)
        \/ NearestFaceIsUndefined(n, k, e)
        \/ /\ \E c \in Nearest(n, Hash[k.name]) :
                LookupCsIsDefined(n, c) /\ ~MayForwardToNearest(n, e, f, i, c.tag)
           /\ ForwardByFib(n, k, e, f, i)
  \/ /\ IsHashGuided(i) /\ cs[n] = {}
     /\ IF StrategyOf[k.name] = "best-route" /\ last[n] = 257
        THEN AfterReceiveNack(n, k, e)
        ELSE \/ ForwardToRandom(n, k, e, f, i)
             \/ DrawForever(n, k, e, f)
==============================================================================
