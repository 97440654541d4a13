----------------------------- MODULE LpReassembler -----------------------------
(***************************************************************************)
(* Fragmentation and reassembly on a link (face/generic-link-service.cpp,  *)
(* face/lp-reassembler.cpp): link services number the fragments of their   *)
(* packets; the link loses, repeats and reorders them; one link service    *)
(* puts them together, and drops what stays incomplete for too long.       *)
(*                                                                         *)
(* A packet is <<sender, n>>, the sender's n-th one, in Fragments(p)       *)
(* pieces.  Sequence numbers wrap around at SequenceSpace, which stands    *)
(* for 2^64: the first number a link service gives is the largest one.     *)
(***************************************************************************)
EXTENDS Naturals, FiniteSets

CONSTANTS
  Sender,             \* link services that send on the link
  MaxPackets,         \* how many packets each one sends
  Fragments(_),       \* Fragments(p): how many fragments packet p takes
  MaxFragments,       \* the most of them
  EndpointOf(_),      \* EndpointOf(s): how the receiver's transport calls s
  allowReassembly,    \* GenericLinkService::Options, on the receiving side
  nMaxFragments,      \* LpReassembler::Options
  reassemblyTimeout,
  SequenceSpace,
  NoSequence,
  Stray               \* malformed fragments that may turn up on the link

Packets == Sender \X (1 .. MaxPackets)

ASSUME ReassemblerAssumption ==
  /\ MaxPackets \in Nat /\ reassemblyTimeout \in Nat \ {0} /\ nMaxFragments \in Nat
  /\ allowReassembly \in BOOLEAN
  /\ SequenceSpace \in Nat \ {0, 1}
  /\ MaxFragments \in Nat /\ \A p \in Packets : Fragments(p) \in 1 .. MaxFragments
  /\ \A s, t \in Sender : EndpointOf(s) = EndpointOf(t) => s = t

\* No sender comes around to a number that it has used.
ASSUME NumbersLast == MaxPackets * MaxFragments < SequenceSpace

VARIABLES
  m_lastSeqNo,        \* m_lastSeqNo[s]
  nSent,              \* nSent[s]: how many packets s has sent
  firstSeq,           \* history: [packets sent in pieces -> sequence number of the first piece]
  link,               \* the fragments sent: each one may be received at any time,
                      \* any number of times, or never
  m_partialPackets,   \* [keys -> [fragCount, fragments, dropTimer]]
  waited,             \* history: [keys -> time since the last new fragment came]
  delivered           \* history: the packets given to decodeNetPacket

sending   == <<m_lastSeqNo, nSent, firstSeq>>
receiving == <<m_partialPackets, waited, delivered>>
vars      == <<sending, link, receiving>>

Init ==
  /\ m_lastSeqNo = [s \in Sender |-> SequenceSpace - 2]
  /\ nSent = [s \in Sender |-> 0]
  /\ firstSeq = [p \in {} |-> 0]
  /\ link = {}
  /\ m_partialPackets = [k \in {} |-> 0] /\ waited = [k \in {} |-> 0]
  /\ delivered = {}

MutantNoWrap(a, n) == a + n

\* Arithmetic on lp::Sequence.
Plus(a, n) == IF a + n < SequenceSpace THEN a + n ELSE a + n - SequenceSpace
Minus(a, n) == IF n <= a THEN a - n ELSE a + SequenceSpace - n

Without(f, k) == [x \in DOMAIN f \ {k} |-> f[x]]
With(f, k, v) == [x \in DOMAIN f \cup {k} |-> IF x = k THEN v ELSE f[x]]

------------------------------------------------------------------------------
(* GenericLinkService::sendNetPacket. *)

\* The i-th fragment of a packet whose first one has this sequence number.
Fragment(p, first, i) ==
  [packet |-> p, endpoint |-> EndpointOf(p[1]), fragIndex |-> i,
   fragCount |-> Fragments(p), sequence |-> Plus(first, i)]

\* assignSequences numbers the pieces one after the other; a packet in one piece
\* takes no number.
SendNetPacket(s) ==
  LET p == <<s, nSent[s] + 1>>
      first == Plus(m_lastSeqNo[s], 1)
  IN /\ nSent[s] < MaxPackets
     /\ nSent' = [nSent EXCEPT ![s] = @ + 1]
     /\ link' = link \cup {Fragment(p, first, i) : i \in 0 .. Fragments(p) - 1}
     /\ IF Fragments(p) > 1
        THEN /\ m_lastSeqNo' = [m_lastSeqNo EXCEPT ![s] = Plus(@, Fragments(p))]
             /\ firstSeq' = With(firstSeq, p, first)
        ELSE UNCHANGED <<m_lastSeqNo, firstSeq>>
     /\ UNCHANGED receiving

------------------------------------------------------------------------------
(* LpReassembler::receiveFragment. *)

InRange(f) == f.fragIndex < f.fragCount /\ f.fragCount <= nMaxFragments

MutantKeyWithoutEndpoint(f) == <<0, Minus(f.sequence, f.fragIndex)>>

Key(f) == <<f.endpoint, Minus(f.sequence, f.fragIndex)>>

\* The partial packet that f belongs to, made if it is not there yet.
PartialPacket(f) ==
  IF Key(f) \in DOMAIN m_partialPackets THEN m_partialPackets[Key(f)]
  ELSE [fragCount |-> f.fragCount, fragments |-> {}, dropTimer |-> 0]

Received(pp) == {g.fragIndex : g \in pp.fragments}

MutantLastPieceGuessed(pp) == Cardinality(pp.fragments) + 1 >= pp.fragCount

Complete(pp) == Cardinality(pp.fragments) = pp.fragCount

MutantTimerRunsOn(pp, f) ==
  [pp EXCEPT !.fragments = @ \cup {f},
             !.dropTimer = IF pp.fragments = {} THEN reassemblyTimeout ELSE @]

Add(pp, f) == [pp EXCEPT !.fragments = @ \cup {f}, !.dropTimer = reassemblyTimeout]

\* f goes into its partial packet, which is handed over once it is complete.
Store(f, pp) ==
  LET new == Add(pp, f)
  IN IF Complete(new)
     THEN /\ m_partialPackets' = Without(m_partialPackets, Key(f))
          /\ waited' = Without(waited, Key(f))
          /\ delivered' = delivered \cup {new.fragments}
     ELSE /\ m_partialPackets' = With(m_partialPackets, Key(f), new)
          /\ waited' = With(waited, Key(f), 0)
          /\ UNCHANGED delivered

\* A piece that may be put together: its number says to what.
IsPiece(f) == InRange(f) /\ f.fragCount > 1 /\ f.sequence # NoSequence

\* A stray fragment is out of range or has no number.
ASSUME StrayAssumption ==
  \A f \in Stray : ~InRange(f) \/ (f.fragCount > 1 /\ f.sequence = NoSequence)

FastPath(f) ==
  /\ InRange(f) /\ f.fragCount = 1
  /\ delivered' = delivered \cup {{f}}
  /\ UNCHANGED <<m_partialPackets, waited>>

Fits(f, pp) == f.fragCount = pp.fragCount /\ f.fragIndex \notin Received(pp)

StorePiece(f) ==
  /\ allowReassembly /\ IsPiece(f)
  /\ IF Fits(f, PartialPacket(f)) THEN Store(f, PartialPacket(f)) ELSE UNCHANGED receiving

Drop(f) ==
  /\ \/ ~InRange(f)
     \/ f.fragCount > 1 /\ (~allowReassembly \/ f.sequence = NoSequence)
  /\ UNCHANGED receiving

\* doReceivePacket, for a packet that holds a fragment: an IDLE one changes nothing.
ReceiveFragment(f) ==
  /\ f \in link \cup Stray
  /\ UNCHANGED <<sending, link>>
  /\ FastPath(f) \/ StorePiece(f) \/ Drop(f)

MutantTimeoutRearms(k) ==
  /\ k \in DOMAIN m_partialPackets /\ m_partialPackets[k].dropTimer = 0
  /\ m_partialPackets' = [m_partialPackets EXCEPT ![k].dropTimer = reassemblyTimeout]
  /\ waited' = [waited EXCEPT ![k] = 0]
  /\ UNCHANGED <<sending, link, delivered>>

\* timeoutPartialPacket
TimeoutPartialPacket(k) ==
  /\ k \in DOMAIN m_partialPackets /\ m_partialPackets[k].dropTimer = 0
  /\ m_partialPackets' = Without(m_partialPackets, k)
  /\ waited' = Without(waited, k)
  /\ UNCHANGED <<sending, link, delivered>>

\* Time passes when no timer is due.
Tick ==
  /\ DOMAIN m_partialPackets # {}
  /\ \A k \in DOMAIN m_partialPackets : m_partialPackets[k].dropTimer > 0
  /\ m_partialPackets' = [k \in DOMAIN m_partialPackets |->
                            [m_partialPackets[k] EXCEPT !.dropTimer = @ - 1]]
  /\ waited' = [k \in DOMAIN waited |-> waited[k] + 1]
  /\ UNCHANGED <<sending, link, delivered>>

Keys == {EndpointOf(s) : s \in Sender} \X (0 .. SequenceSpace - 1)

Next ==
  \/ \E s \in Sender : SendNetPacket(s)
  \/ \E f \in link \cup Stray : ReceiveFragment(f)
  \/ \E k \in Keys : TimeoutPartialPacket(k)
  \/ Tick

Spec == Init /\ [][Next]_vars

\* Time passes, and events happen when they are due.
FairSpec ==
  /\ Spec
  /\ WF_vars(Tick) /\ \A k \in Keys : WF_vars(TimeoutPartialPacket(k))

------------------------------------------------------------------------------
(* Properties. *)

TypeOK ==
  /\ m_lastSeqNo \in [Sender -> 0 .. SequenceSpace - 1]
  /\ nSent \in [Sender -> 0 .. MaxPackets]
  /\ DOMAIN firstSeq \subseteq Packets
  /\ DOMAIN m_partialPackets \subseteq Keys /\ DOMAIN waited = DOMAIN m_partialPackets

\* A partial packet holds some but not all fragments of one packet, whatever the
\* link repeats or reorders, and a timer that will drop it.
PartialPacketsAreSound ==
  \A k \in DOMAIN m_partialPackets :
    LET pp == m_partialPackets[k]
    IN /\ pp.fragments # {} /\ Cardinality(pp.fragments) < pp.fragCount
       /\ \E p \in Packets : \A g \in pp.fragments : g.packet = p
       /\ pp.dropTimer \in 0 .. reassemblyTimeout

\* "If a partial packet is incomplete and no new fragment is received within
\* Options::reassemblyTimeout, it would be dropped": then, and no earlier.
DropsOnlyIdle ==
  [][\A k \in DOMAIN m_partialPackets \ DOMAIN m_partialPackets' :
       \/ waited[k] = reassemblyTimeout
       \/ \E f \in link : m_partialPackets[k].fragments \cup {f} \in delivered']_vars

\* No partial packet stays for ever: its last piece or its timer takes it away.
NothingStays == \A k \in Keys : []<>(k \notin DOMAIN m_partialPackets)

\* The packet that a set of fragments makes up, if it makes up one.
NetPacket(fs) ==
  IF \E p \in Packets : {<<g.packet, g.fragIndex>> : g \in fs} = {p} \X (0 .. Fragments(p) - 1)
  THEN (CHOOSE g \in fs : TRUE).packet
  ELSE <<"garbage", 0>>

Datagrams == INSTANCE DatagramLink WITH
  sent <- {p \in Packets : p[2] <= nSent[p[1]]},
  delivered <- {NetPacket(fs) : fs \in delivered}

\* Whatever the link does with the fragments, the receiver sees a link that
\* loses, repeats and reorders whole packets, and never a packet put together
\* from the pieces of two.
ImplementsDatagramLink == Datagrams!Spec
==============================================================================
