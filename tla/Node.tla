-------------------------------- MODULE Node ---------------------------------
(***************************************************************************)
(* The tables of the forwarding daemons of a simulation, one daemon per    *)
(* node, and the outgoing pipelines every strategy ends in.                *)
(*                                                                         *)
(* A handler of the code runs to completion in one scheduler event, so it  *)
(* is one action here.  The operators of this module and of Strategies are *)
(* the tails of such an action: each takes the PIT entry e that the        *)
(* handler has worked on so far and fixes pit', sent' and status'.         *)
(***************************************************************************)
EXTENDS PitEntry, Sequences, FiniteSets

CONSTANTS
  NodeId,      \* the nodes of the simulation
  NoEntry,     \* no PIT entry for this Key
  Fib          \* Fib[n][name]: the nexthops' FaceIds, by increasing cost

ASSUME NodeAssumption ==
  /\ NoEntry \notin Entry
  /\ Fib \in [NodeId -> [Name -> Seq(FaceId)]]

VARIABLES
  pit,      \* pit[n][k]: the PIT entry of node n for Key k
  cs,       \* cs[n]: the ContentStore, a set of entries
  dnl,      \* dnl[n]: the Dead Nonce List, a set of <<Name, Nonce>>
  face,     \* face[n][f]: the kind of face f, or "none"
  last,     \* last[n]: FaceTable::m_lastFaceId
  status,   \* "running", or how the single-threaded process stopped
  sent      \* the packets the last step put on faces

NoTag == -1

\* A ContentStore entry: the Data, the IncomingFaceIdTag the Data object
\* carries, and whether its FreshnessPeriod has passed.
CsEntry == [data : Data, tag : OutFace \cup {NoTag}, stale : BOOLEAN]

Status == {"running", "spinning", "crashed"}

TypeOK ==
  /\ pit \in [NodeId -> [Key -> Entry \cup {NoEntry}]]
  /\ cs \in [NodeId -> SUBSET CsEntry]
  /\ dnl \in [NodeId -> SUBSET (Name \X Nonce)]
  /\ face \in [NodeId -> [FaceId -> Kind \cup {"none"}]]
  /\ last \in [NodeId -> FACEID_RESERVED_MAX .. MaxFaceId]
  /\ status \in Status
  /\ sent \subseteq [at : NodeId, face : OutFace, pkt : Packet]

------------------------------------------------------------------------------
Live(n, f) == f \in FaceId /\ face[n][f] # "none"

IsLocal(n, g) == g = FACEID_CONTENT_STORE \/ LocalKind(face[n][g])

MutantChecksLocalhopOnly(n, f, name, g) ==
  /\ ~IsLocal(n, g)
  /\ name \in Localhop /\ ~IsLocal(n, f)

WouldViolateScope(n, f, name, g) ==
  /\ ~IsLocal(n, g)
  /\ name \in Localhost \/ (name \in Localhop /\ ~IsLocal(n, f))

\* A packet of the /localhost scope may not cross a non-local face.
ViolatesLocalhost(n, f, name) == ~IsLocal(n, f) /\ name \in Localhost

Sends(n, F, p) == {[at |-> n, face |-> g, pkt |-> p] : g \in F}

Put(n, k, e) == pit' = [pit EXCEPT ![n][k] = e]

\* The handler ends without putting a packet on a face.
Done(n, k, e) == Put(n, k, e) /\ sent' = {} /\ UNCHANGED status

\* onOutgoingInterest, once for each face in G.
OutgoingInterest(n, k, e, G, i) ==
  /\ Put(n, k, WithOutRecords(e, G, i))
  /\ sent' = Sends(n, G, i)
  /\ UNCHANGED status

\* The faces to which onOutgoingNack would send a Nack.
Nackable(n, e, F) ==
  {f \in F \cap InFaces(e) : Live(n, f) /\ ~MultiAccessKind(face[n][f])}

NackOf(k, e, f, reason) ==
  [type |-> "Nack", key |-> k, nonce |-> e.in[f].nonce, flag |-> e.in[f].flag,
   life |-> e.in[f].life, reason |-> reason]

\* onOutgoingNack, once for each face in F.
OutgoingNack(n, k, e, F, reason) ==
  LET G == Nackable(n, e, F)
  IN /\ Put(n, k, WithoutInRecords(e, G))
     /\ sent' = {[at |-> n, face |-> f, pkt |-> NackOf(k, e, f, reason)] : f \in G}
     /\ UNCHANGED status

\* The entry onInterestReject leaves.
Rejected(e) ==
  IF HasPendingOutRecords(e) THEN e
  ELSE WithStragglerTimer(WithTimersCancelled(e), "unsatisfied")
==============================================================================
