--------------------------- MODULE ReassemblerProofs ---------------------------
(***************************************************************************)
(* Proofs about reassembly, for any number of senders, packets and         *)
(* fragments and any loss, repetition and order of the fragments: partial  *)
(* packets hold pieces of one packet, they are dropped when they are idle  *)
(* and no earlier, and the receiver sees a link for whole packets.         *)
(***************************************************************************)
EXTENDS LpReassembler, TLAPS, FiniteSetTheorems

Number == 0 .. SequenceSpace - 1

Piece == [packet : Packets, endpoint : {EndpointOf(s) : s \in Sender},
          fragIndex : Nat, fragCount : Nat, sequence : Number]

Partial == [fragCount : Nat, fragments : SUBSET Piece, dropTimer : Nat]

Types ==
  /\ TypeOK
  /\ firstSeq \in [DOMAIN firstSeq -> Number]
  /\ link \subseteq Piece
  /\ m_partialPackets \in [DOMAIN m_partialPackets -> Partial]
  /\ waited \in [DOMAIN waited -> Nat]

\* The place of a number among those that a sender gives out.
Place(n) == IF n = SequenceSpace - 1 THEN 0 ELSE n + 1
NextPlace(s) == Place(Plus(m_lastSeqNo[s], 1))

WasSent(p) == p \in Packets /\ p[2] <= nSent[p[1]]

\* A packet's first number comes before the next one of its sender, and no
\* other packet of the sender has it.
NumbersDiffer ==
  /\ \A s \in Sender : NextPlace(s) <= nSent[s] * MaxFragments
  /\ \A p \in DOMAIN firstSeq : WasSent(p) /\ Place(firstSeq[p]) < NextPlace(p[1])
  /\ \A p, q \in DOMAIN firstSeq : p[1] = q[1] /\ firstSeq[p] = firstSeq[q] => p = q

\* What a fragment on the link says of its packet.
IsFragment(f) ==
  /\ WasSent(f.packet)
  /\ f.endpoint = EndpointOf(f.packet[1])
  /\ f.fragCount = Fragments(f.packet) /\ f.fragIndex < f.fragCount
  /\ f.fragCount > 1 => /\ f.packet \in DOMAIN firstSeq
                        /\ f.sequence = Plus(firstSeq[f.packet], f.fragIndex)

LinkIsHonest == \A f \in link : IsFragment(f)

\* The pieces of a partial packet have its key and differ in their index.
GoodPieces(k, fs, count) ==
  /\ fs \subseteq link /\ fs # {}
  /\ \A g \in fs : Key(g) = k /\ g.fragCount = count /\ count > 1
  /\ \A g, h \in fs : g.fragIndex = h.fragIndex => g = h

PartialsAreGood ==
  \A k \in DOMAIN m_partialPackets :
    /\ GoodPieces(k, m_partialPackets[k].fragments, m_partialPackets[k].fragCount)
    /\ ~Complete(m_partialPackets[k])

\* The timer counts down what the partial packet may still wait.
TimersCount ==
  \A k \in DOMAIN m_partialPackets :
    waited[k] + m_partialPackets[k].dropTimer = reassemblyTimeout

\* A set of fragments that makes up packet p.
MakesUp(fs, p) ==
  WasSent(p) /\ {<<g.packet, g.fragIndex>> : g \in fs} = {p} \X (0 .. Fragments(p) - 1)

DeliveredIsWhole == \A fs \in delivered : \E p \in Packets : MakesUp(fs, p)

Inv ==
  /\ Types /\ NumbersDiffer /\ LinkIsHonest
  /\ PartialsAreGood /\ TimersCount /\ DeliveredIsWhole

------------------------------------------------------------------------------
(* Numbers and maps. *)

LEMMA PlusType ==
  ASSUME NEW a \in Number, NEW n \in 0 .. SequenceSpace - 1
  PROVE  Plus(a, n) \in Number /\ Minus(Plus(a, n), n) = a
  BY ReassemblerAssumption DEF Number, Plus, Minus

LEMMA MinusType ==
  ASSUME NEW a \in Number, NEW n \in 0 .. SequenceSpace - 1
  PROVE  Minus(a, n) \in Number
  BY ReassemblerAssumption DEF Number, Minus

LEMMA PlaceType ==
  ASSUME NEW a \in Number
  PROVE  /\ Place(a) \in Number
         /\ \A b \in Number : Place(a) = Place(b) => a = b
  BY ReassemblerAssumption DEF Number, Place

\* A sender that gives out n numbers moves on by n places.
LEMMA PlusMovesOn ==
  ASSUME NEW a \in Number, NEW n \in Nat \ {0}, Place(Plus(a, 1)) + n < SequenceSpace
  PROVE  Plus(a, n) \in Number /\ Place(Plus(Plus(a, n), 1)) = Place(Plus(a, 1)) + n
  BY ReassemblerAssumption DEF Number, Place, Plus

\* Fragments of a packet never come around to their first number.
LEMMA FewFragments ==
  ASSUME NEW p \in Packets
  PROVE  /\ Fragments(p) \in 1 .. MaxFragments
         /\ MaxFragments < SequenceSpace
         /\ p[1] \in Sender /\ p[2] \in 1 .. MaxPackets /\ p = <<p[1], p[2]>>
  <1>1. p[1] \in Sender /\ p[2] \in 1 .. MaxPackets /\ p = <<p[1], p[2]>>
    BY DEF Packets
  <1>2. MaxFragments \in Nat /\ MaxPackets \in Nat /\ MaxPackets >= 1
    BY <1>1, ReassemblerAssumption
  <1>3. MaxPackets * MaxFragments >= MaxFragments
    BY <1>2
  <1>4. SequenceSpace \in Nat /\ MaxPackets * MaxFragments \in Nat
    BY <1>2, ReassemblerAssumption
  <1> QED BY <1>1, <1>2, <1>3, <1>4, NumbersLast, ReassemblerAssumption

LEMMA WithoutMap ==
  ASSUME NEW f, NEW k
  PROVE  /\ DOMAIN Without(f, k) = DOMAIN f \ {k}
         /\ \A x \in DOMAIN f \ {k} : Without(f, k)[x] = f[x]
  BY DEF Without

LEMMA WithoutType ==
  ASSUME NEW f, NEW k, NEW T, f \in [DOMAIN f -> T]
  PROVE  Without(f, k) \in [DOMAIN Without(f, k) -> T]
  BY DEF Without

LEMMA WithMap ==
  ASSUME NEW f, NEW k, NEW v
  PROVE  /\ DOMAIN With(f, k, v) = DOMAIN f \cup {k}
         /\ \A x \in DOMAIN f \cup {k} : With(f, k, v)[x] = IF x = k THEN v ELSE f[x]
  BY DEF With

LEMMA WithType ==
  ASSUME NEW f, NEW k, NEW T, NEW v \in T, f \in [DOMAIN f -> T]
  PROVE  With(f, k, v) \in [DOMAIN With(f, k, v) -> T]
  BY DEF With

------------------------------------------------------------------------------
(* Fragments and the packets that they come from. *)

LEMMA FragmentFacts ==
  ASSUME Types, NEW f \in link, IsFragment(f)
  PROVE  /\ f \in Piece /\ f.packet \in Packets
         /\ f.packet[1] \in Sender
         /\ f.fragIndex \in 0 .. Fragments(f.packet) - 1
         /\ f.fragCount = Fragments(f.packet)
         /\ f.fragCount \in 1 .. MaxFragments /\ MaxFragments < SequenceSpace
         /\ SequenceSpace \in Nat /\ f.fragIndex \in 0 .. SequenceSpace - 1
  <1>1. f \in Piece /\ f.packet \in Packets /\ f.fragIndex \in Nat /\ f.fragIndex < f.fragCount
        /\ f.fragCount = Fragments(f.packet)
    BY DEF Types, IsFragment, WasSent, Piece
  <1> QED BY <1>1, FewFragments, ReassemblerAssumption

\* The key of a fragment names its sender and its packet's first number.
LEMMA KeyOfFragment ==
  ASSUME Types, NEW f \in link, IsFragment(f), f.fragCount > 1
  PROVE  /\ Key(f) = <<EndpointOf(f.packet[1]), firstSeq[f.packet]>>
         /\ Key(f) \in Keys
         /\ f.packet \in DOMAIN firstSeq /\ firstSeq[f.packet] \in Number
  <1>1. /\ f.packet \in DOMAIN firstSeq
        /\ f.sequence = Plus(firstSeq[f.packet], f.fragIndex)
        /\ f.endpoint = EndpointOf(f.packet[1])
    BY DEF IsFragment
  <1>2. firstSeq[f.packet] \in Number
    BY <1>1 DEF Types
  <1>3. f.packet[1] \in Sender /\ f.fragIndex \in 0 .. SequenceSpace - 1
    BY FragmentFacts
  <1>4. Minus(f.sequence, f.fragIndex) = firstSeq[f.packet]
    BY <1>1, <1>2, <1>3, PlusType
  <1> QED BY <1>1, <1>2, <1>3, <1>4 DEF Key, Keys, Number

\* Fragments with one key belong to one packet.
LEMMA OnePacketPerKey ==
  ASSUME Inv, NEW f \in link, NEW g \in link, f.fragCount > 1, g.fragCount > 1, Key(f) = Key(g)
  PROVE  /\ f.packet = g.packet
         /\ f.fragIndex = g.fragIndex => f = g
  <1>1. IsFragment(f) /\ IsFragment(g) /\ Types
    BY DEF Inv, LinkIsHonest
  <1>2. /\ EndpointOf(f.packet[1]) = EndpointOf(g.packet[1])
        /\ firstSeq[f.packet] = firstSeq[g.packet]
        /\ f.packet \in DOMAIN firstSeq /\ g.packet \in DOMAIN firstSeq
    BY <1>1, KeyOfFragment
  <1>3. f.packet[1] \in Sender /\ g.packet[1] \in Sender /\ f \in Piece /\ g \in Piece
    BY <1>1, FragmentFacts
  <1>4. f.packet[1] = g.packet[1]
    BY <1>2, <1>3, ReassemblerAssumption
  <1>5. f.packet = g.packet
    BY <1>2, <1>4 DEF Inv, NumbersDiffer
  <1>6. ASSUME f.fragIndex = g.fragIndex PROVE f = g
    <2>1. f.endpoint = g.endpoint /\ f.fragCount = g.fragCount /\ f.sequence = g.sequence
      BY <1>1, <1>5, <1>6 DEF IsFragment
    <2> QED BY <1>3, <1>5, <1>6, <2>1 DEF Piece
  <1> QED BY <1>5, <1>6

\* The pieces of a partial packet come from one packet, and are as many as
\* their indexes.
LEMMA PiecesFacts ==
  ASSUME Inv, NEW k, NEW fs, NEW c, GoodPieces(k, fs, c)
  PROVE  /\ \E p \in Packets :
              /\ WasSent(p) /\ c = Fragments(p)
              /\ \A g \in fs : g.packet = p /\ g.fragIndex \in 0 .. c - 1
         /\ IsFiniteSet(fs) /\ Cardinality(fs) \in Nat /\ c \in Nat /\ Cardinality(fs) <= c
         /\ Cardinality(fs) = c => \A i \in 0 .. c - 1 : \E g \in fs : g.fragIndex = i
  <1>1. PICK f \in fs : TRUE
    BY DEF GoodPieces
  <1>2. \A g \in fs : g \in link /\ IsFragment(g) /\ g.fragCount = c /\ g.fragCount > 1 /\ Key(g) = Key(f)
    BY <1>1 DEF GoodPieces, Inv, LinkIsHonest
  <1>3. \A g \in fs : g.packet = f.packet
    BY <1>1, <1>2, OnePacketPerKey
  <1>4. Types
    BY DEF Inv
  <1>5. \A g \in fs : g.packet \in Packets /\ g.fragCount = Fragments(g.packet)
                      /\ g.fragIndex \in 0 .. c - 1 /\ c \in Nat
    BY <1>2, <1>4, FragmentFacts
  <1>6. WasSent(f.packet)
    BY <1>1, <1>2 DEF IsFragment
  <1>7. \E p \in Packets :
              /\ WasSent(p) /\ c = Fragments(p)
              /\ \A g \in fs : g.packet = p /\ g.fragIndex \in 0 .. c - 1
    BY <1>1, <1>2, <1>3, <1>5, <1>6
  <1> DEFINE index == [g \in fs |-> g.fragIndex]
  <1>8. index \in Injection(fs, 0 .. c - 1)
    BY <1>5 DEF GoodPieces, Injection, IsInjective
  <1>9. IsFiniteSet(0 .. c - 1) /\ Cardinality(0 .. c - 1) = c
    BY <1>1, <1>5, FS_Interval
  <1>10. /\ IsFiniteSet(fs) /\ Cardinality(fs) <= c
         /\ Cardinality(fs) = c <=> index \in Surjection(fs, 0 .. c - 1)
    <2> HIDE DEF index
    <2> QED BY <1>8, <1>9, FS_Injection
  <1>11. Cardinality(fs) \in Nat
    BY <1>10, FS_CardinalityType
  <1>12. Cardinality(fs) = c => \A i \in 0 .. c - 1 : \E g \in fs : g.fragIndex = i
    BY <1>10 DEF Surjection
  <1> QED BY <1>1, <1>5, <1>7, <1>10, <1>11, <1>12

\* A partial packet with all its pieces makes up its packet.
LEMMA CompleteMakesUp ==
  ASSUME Inv, NEW k, NEW fs, NEW c, GoodPieces(k, fs, c), Cardinality(fs) = c
  PROVE  \E p \in Packets : MakesUp(fs, p)
  <1>1. PICK p \in Packets :
              /\ WasSent(p) /\ c = Fragments(p)
              /\ \A g \in fs : g.packet = p /\ g.fragIndex \in 0 .. c - 1
    BY PiecesFacts
  <1>2. \A i \in 0 .. c - 1 : \E g \in fs : g.fragIndex = i
    BY PiecesFacts
  <1>3. {<<g.packet, g.fragIndex>> : g \in fs} = {p} \X (0 .. Fragments(p) - 1)
    BY <1>1, <1>2
  <1> QED BY <1>1, <1>3 DEF MakesUp

\* The packet that a set of fragments makes up is the one that NetPacket finds.
LEMMA NetPacketOf ==
  ASSUME NEW fs, NEW p \in Packets, MakesUp(fs, p)
  PROVE  NetPacket(fs) = p
  <1>1. 0 \in 0 .. Fragments(p) - 1
    BY ReassemblerAssumption
  <1>2. <<p, 0>> \in {<<g.packet, g.fragIndex>> : g \in fs}
    BY <1>1 DEF MakesUp
  <1>3. fs # {}
    BY <1>2
  <1>4. \A g \in fs : g.packet = p
    <2> SUFFICES ASSUME NEW g \in fs PROVE g.packet = p
      OBVIOUS
    <2>1. <<g.packet, g.fragIndex>> \in {p} \X (0 .. Fragments(p) - 1)
      BY DEF MakesUp
    <2> QED BY <2>1
  <1> QED BY <1>3, <1>4 DEF NetPacket, MakesUp

------------------------------------------------------------------------------
(* Steps that keep the invariant. *)

LEMMA InitInv == Init => Inv
  <1> SUFFICES ASSUME Init PROVE Inv
    OBVIOUS
  <1>1. SequenceSpace \in Nat /\ SequenceSpace >= 2 /\ MaxPackets \in Nat /\ MaxFragments \in Nat
    BY ReassemblerAssumption
  <1>2. DOMAIN firstSeq = {} /\ DOMAIN m_partialPackets = {} /\ DOMAIN waited = {}
        /\ link = {} /\ delivered = {}
    BY DEF Init
  <1>3. Types
    BY <1>1, <1>2 DEF Init, Types, TypeOK
  <1>4. NumbersDiffer
    <2>1. \A s \in Sender : NextPlace(s) = 0 /\ nSent[s] * MaxFragments = 0
      BY <1>1 DEF Init, NextPlace, Place, Plus
    <2> QED BY <1>2, <2>1 DEF NumbersDiffer
  <1> QED BY <1>2, <1>3, <1>4 DEF Inv, LinkIsHonest, PartialsAreGood, TimersCount, DeliveredIsWhole

\* What is true of a packet stays true as more are sent.
LEMMA SendKeepsFragments ==
  ASSUME Inv, NEW s \in Sender, SendNetPacket(s)
  PROVE  /\ \A p : WasSent(p) => WasSent(p)'
         /\ \A p \in DOMAIN firstSeq : p \in DOMAIN firstSeq' /\ firstSeq'[p] = firstSeq[p]
  <1>a. PICK new : new = <<s, nSent[s] + 1>>
    OBVIOUS
  <1>1. nSent' = [nSent EXCEPT ![s] = @ + 1] /\ nSent \in [Sender -> 0 .. MaxPackets]
    BY DEF SendNetPacket, Inv, Types, TypeOK
  <1>2. ASSUME NEW p, WasSent(p) PROVE WasSent(p)'
    <2>1. p[1] \in Sender /\ p[2] \in 1 .. MaxPackets
      BY <1>2, FewFragments DEF WasSent
    <2> QED BY <1>1, <1>2, <2>1, ReassemblerAssumption DEF WasSent
  <1>3. ASSUME NEW p \in DOMAIN firstSeq PROVE p # new
    BY <1>a, <1>1, <1>3, ReassemblerAssumption DEF Inv, NumbersDiffer, WasSent
  <1>4. \A p \in DOMAIN firstSeq : p \in DOMAIN firstSeq' /\ firstSeq'[p] = firstSeq[p]
    <2>1. CASE Fragments(new) > 1
      <3>0. PICK first : first = Plus(m_lastSeqNo[s], 1)
        OBVIOUS
      <3>1. firstSeq' = With(firstSeq, new, first)
        BY <1>a, <2>1, <3>0 DEF SendNetPacket
      <3>2. new \notin DOMAIN firstSeq
        BY <1>3
      <3>3. /\ DOMAIN With(firstSeq, new, first) = DOMAIN firstSeq \cup {new}
            /\ \A x \in DOMAIN firstSeq \cup {new} :
                 With(firstSeq, new, first)[x] = IF x = new THEN first ELSE firstSeq[x]
        BY DEF With
      <3> QED BY <3>1, <3>2, <3>3
    <2>2. CASE ~(Fragments(new) > 1)
      BY <1>a, <2>2 DEF SendNetPacket
    <2> QED BY <2>1, <2>2
  <1> QED BY <1>2, <1>4

\* The numbers of the next packet are new ones of its sender.
LEMMA SendNumbers ==
  ASSUME Inv, NEW s \in Sender, SendNetPacket(s)
  PROVE  /\ NumbersDiffer'
         /\ m_lastSeqNo' \in [Sender -> Number]
         /\ DOMAIN firstSeq' \subseteq Packets /\ firstSeq' \in [DOMAIN firstSeq' -> Number]
  <1>a. PICK new : new = <<s, nSent[s] + 1>>
    OBVIOUS
  <1>b. PICK first : first = Plus(m_lastSeqNo[s], 1)
    OBVIOUS
  <1>c. /\ Fragments(new) > 1 =>
             /\ m_lastSeqNo' = [m_lastSeqNo EXCEPT ![s] = Plus(@, Fragments(new))]
             /\ firstSeq' = With(firstSeq, new, first)
        /\ ~(Fragments(new) > 1) => UNCHANGED <<m_lastSeqNo, firstSeq>>
    BY <1>a, <1>b DEF SendNetPacket
  <1>1. /\ nSent' = [nSent EXCEPT ![s] = @ + 1] /\ nSent \in [Sender -> 0 .. MaxPackets]
        /\ nSent[s] < MaxPackets
        /\ m_lastSeqNo \in [Sender -> Number]
        /\ DOMAIN firstSeq \subseteq Packets /\ firstSeq \in [DOMAIN firstSeq -> Number]
    BY DEF SendNetPacket, Inv, Types, TypeOK, Number
  <1>2. new \in Packets /\ nSent[s] + 1 \in Nat /\ MaxPackets \in Nat
    BY <1>a, <1>1, ReassemblerAssumption DEF Packets
  <1>3. Fragments(new) \in 1 .. MaxFragments /\ MaxFragments < SequenceSpace /\ SequenceSpace \in Nat
        /\ MaxFragments \in Nat
    BY <1>2, FewFragments, ReassemblerAssumption
  <1>4. first \in Number
    BY <1>b, <1>1, PlusType, ReassemblerAssumption DEF Number
  <1>5. /\ nSent'[s] * MaxFragments = nSent[s] * MaxFragments + MaxFragments
        /\ nSent'[s] * MaxFragments < SequenceSpace
    <2>1. nSent[s] \in Nat /\ nSent'[s] = nSent[s] + 1
      BY <1>1
    <2>2. (nSent[s] + 1) * MaxFragments <= MaxPackets * MaxFragments
      BY <1>1, <1>2, <1>3, <2>1
    <2>3. (nSent[s] + 1) * MaxFragments = nSent[s] * MaxFragments + MaxFragments
      BY <1>3, <2>1
    <2>4. nSent[s] * MaxFragments \in Nat /\ MaxPackets * MaxFragments \in Nat
      BY <1>2, <1>3, <2>1
    <2> QED BY <1>3, <2>1, <2>2, <2>3, <2>4, NumbersLast
  <1>6. \A t \in Sender : NextPlace(t) <= nSent[t] * MaxFragments
    BY DEF Inv, NumbersDiffer
  <1>7. \A t \in Sender \ {s} : m_lastSeqNo'[t] = m_lastSeqNo[t] /\ nSent'[t] = nSent[t]
    BY <1>1 DEF SendNetPacket
  <1>8. \A t \in Sender \ {s} : NextPlace(t)' = NextPlace(t)
    BY <1>7 DEF NextPlace
  <1>9. /\ \A p \in DOMAIN firstSeq : WasSent(p) /\ Place(firstSeq[p]) < NextPlace(p[1])
        /\ \A p, q \in DOMAIN firstSeq : p[1] = q[1] /\ firstSeq[p] = firstSeq[q] => p = q
    BY DEF Inv, NumbersDiffer
  <1>10. \A p : WasSent(p) => WasSent(p)'
    BY SendKeepsFragments
  <1>11. nSent[s] * MaxFragments \in Nat
    BY <1>1, <1>3
  <1>12. CASE ~(Fragments(new) > 1)
    <2>1. UNCHANGED <<m_lastSeqNo, firstSeq>>
      BY <1>c, <1>12
    <2>2. \A t \in Sender : NextPlace(t)' = NextPlace(t)
      BY <2>1 DEF NextPlace
    <2>3. NextPlace(s) \in Nat
      BY <1>b, <1>4, PlaceType DEF NextPlace, Number
    <2>4. \A t \in Sender : NextPlace(t)' <= nSent'[t] * MaxFragments
      BY <1>3, <1>5, <1>6, <1>7, <1>11, <2>2, <2>3
    <2>5. \A p \in DOMAIN firstSeq : p[1] \in Sender
      BY <1>1, FewFragments
    <2> QED BY <1>1, <1>9, <1>10, <2>1, <2>2, <2>4, <2>5 DEF NumbersDiffer
  <1>13. CASE Fragments(new) > 1
    <2>1. /\ m_lastSeqNo' = [m_lastSeqNo EXCEPT ![s] = Plus(@, Fragments(new))]
          /\ firstSeq' = With(firstSeq, new, first)
      BY <1>c, <1>13
    <2>2. Place(first) \in Nat /\ Place(first) = NextPlace(s)
      BY <1>b, <1>4, PlaceType DEF NextPlace, Number
    <2>3. Place(first) + Fragments(new) < SequenceSpace
      BY <1>3, <1>5, <1>6, <1>11, <2>2
    <2>4. /\ Plus(m_lastSeqNo[s], Fragments(new)) \in Number
          /\ Place(Plus(Plus(m_lastSeqNo[s], Fragments(new)), 1)) = Place(first) + Fragments(new)
      BY <1>b, <1>1, <1>3, <2>3, PlusMovesOn
    <2>5. m_lastSeqNo' \in [Sender -> Number]
      BY <1>1, <2>1, <2>4
    <2>6. NextPlace(s)' = NextPlace(s) + Fragments(new)
      BY <1>1, <2>1, <2>2, <2>4 DEF NextPlace
    <2>7. \A t \in Sender : NextPlace(t)' <= nSent'[t] * MaxFragments
      BY <1>3, <1>5, <1>6, <1>7, <1>8, <1>11, <2>2, <2>6
    <2>8. /\ DOMAIN firstSeq' = DOMAIN firstSeq \cup {new}
          /\ \A p \in DOMAIN firstSeq' : firstSeq'[p] = IF p = new THEN first ELSE firstSeq[p]
          /\ firstSeq' \in [DOMAIN firstSeq' -> Number]
      <3>1. firstSeq \in [DOMAIN firstSeq -> Number] /\ first \in Number /\ firstSeq' = With(firstSeq, new, first)
        BY <1>1, <1>4, <2>1
      <3>2. /\ DOMAIN With(firstSeq, new, first) = DOMAIN firstSeq \cup {new}
            /\ \A x \in DOMAIN firstSeq \cup {new} :
                 With(firstSeq, new, first)[x] = IF x = new THEN first ELSE firstSeq[x]
        BY DEF With
      <3>3. With(firstSeq, new, first) \in [DOMAIN With(firstSeq, new, first) -> Number]
        BY <3>1, WithType
      <3> QED BY <3>1, <3>2, <3>3
    <2>9. WasSent(new)'
      BY <1>a, <1>1, <1>2 DEF WasSent
    <2>10. \A p \in DOMAIN firstSeq : p # new /\ p[1] \in Sender /\ firstSeq[p] \in Number
      BY <1>a, <1>1, <1>9, FewFragments, ReassemblerAssumption DEF WasSent
    <2>11. \A p \in DOMAIN firstSeq : Place(firstSeq[p]) \in Nat
      BY <2>10, PlaceType DEF Number
    <2>12. \A p \in DOMAIN firstSeq' : WasSent(p)' /\ Place(firstSeq'[p]) < NextPlace(p[1])'
      <3> SUFFICES ASSUME NEW p \in DOMAIN firstSeq'
                   PROVE  WasSent(p)' /\ Place(firstSeq'[p]) < NextPlace(p[1])'
        OBVIOUS
      <3>1. CASE p = new
        <4>1. p[1] = s /\ firstSeq'[p] = first /\ WasSent(p)'
          BY <1>a, <2>8, <2>9, <3>1
        <4>2. Place(first) < NextPlace(s)'
          BY <1>3, <2>2, <2>6
        <4> QED BY <4>1, <4>2
      <3>2. CASE p # new
        <4>1. p \in DOMAIN firstSeq /\ firstSeq'[p] = firstSeq[p]
          BY <2>8, <3>2
        <4>2. WasSent(p)' /\ Place(firstSeq[p]) < NextPlace(p[1]) /\ Place(firstSeq[p]) \in Nat
          BY <1>9, <1>10, <2>11, <4>1
        <4>3. NextPlace(p[1])' = NextPlace(p[1]) \/ (p[1] = s /\ NextPlace(s)' = NextPlace(s) + Fragments(new))
          BY <1>8, <2>6, <2>10, <4>1
        <4> QED BY <1>3, <2>2, <4>1, <4>2, <4>3
      <3> QED BY <3>1, <3>2
    <2>13. \A p \in DOMAIN firstSeq : p[1] = s => firstSeq[p] # first
      BY <1>9, <2>2, <2>11, <1>b
    <2>14. \A p, q \in DOMAIN firstSeq' : p[1] = q[1] /\ firstSeq'[p] = firstSeq'[q] => p = q
      <3>1. new[1] = s
        BY <1>a
      <3> QED BY <1>9, <2>8, <2>13, <3>1
    <2> QED BY <1>1, <1>2, <2>5, <2>7, <2>8, <2>12, <2>14 DEF NumbersDiffer
  <1> QED BY <1>12, <1>13

LEMMA SendInv == ASSUME Inv, NEW s \in Sender, SendNetPacket(s) PROVE Inv'
  <1>a. PICK new : new = <<s, nSent[s] + 1>>
    OBVIOUS
  <1>b. PICK first : first = Plus(m_lastSeqNo[s], 1)
    OBVIOUS
  <1>1. /\ nSent' = [nSent EXCEPT ![s] = @ + 1] /\ nSent \in [Sender -> 0 .. MaxPackets]
        /\ nSent[s] < MaxPackets
        /\ link' = link \cup {Fragment(new, first, i) : i \in 0 .. Fragments(new) - 1}
        /\ Fragments(new) > 1 => firstSeq' = With(firstSeq, new, first)
        /\ UNCHANGED receiving
    BY <1>a, <1>b DEF SendNetPacket, Inv, Types, TypeOK
  <1>2. new \in Packets /\ WasSent(new)'
    BY <1>a, <1>1, ReassemblerAssumption DEF Packets, WasSent
  <1>3. /\ Fragments(new) \in 1 .. MaxFragments /\ MaxFragments < SequenceSpace
        /\ new[1] = s /\ SequenceSpace \in Nat
    BY <1>a, <1>2, FewFragments, ReassemblerAssumption
  <1>4. first \in Number
    BY <1>b, PlusType, ReassemblerAssumption DEF Inv, Types, TypeOK, Number
  <1>5. ASSUME NEW i \in 0 .. Fragments(new) - 1
        PROVE  Fragment(new, first, i) \in Piece /\ IsFragment(Fragment(new, first, i))'
    <2>0. i \in 0 .. SequenceSpace - 1
      BY <1>3, ReassemblerAssumption
    <2>1. Plus(first, i) \in Number
      BY <1>4, <2>0, PlusType
    <2>2. Fragment(new, first, i) \in Piece
      BY <1>2, <1>3, <2>1 DEF Fragment, Piece
    <2>3. Fragments(new) > 1 => new \in DOMAIN firstSeq' /\ firstSeq'[new] = first
      BY <1>1 DEF With
    <2>4. PICK f : f = Fragment(new, first, i)
      OBVIOUS
    <2>5. /\ f.packet = new /\ f.endpoint = EndpointOf(new[1])
          /\ f.fragCount = Fragments(new) /\ f.fragIndex = i /\ f.sequence = Plus(first, i)
      BY <2>4 DEF Fragment
    <2>6. IsFragment(f)'
      BY <1>2, <1>3, <2>3, <2>5 DEF IsFragment
    <2> QED BY <2>2, <2>4, <2>6
  <1>6. /\ \A p : WasSent(p) => WasSent(p)'
        /\ \A p \in DOMAIN firstSeq : p \in DOMAIN firstSeq' /\ firstSeq'[p] = firstSeq[p]
    BY SendKeepsFragments
  <1>7. LinkIsHonest'
    <2> SUFFICES ASSUME NEW f \in link' PROVE IsFragment(f)'
      BY DEF LinkIsHonest
    <2>1. CASE f \in link
      BY <1>6, <2>1 DEF Inv, LinkIsHonest, IsFragment
    <2>2. CASE f \notin link
      BY <1>1, <1>5, <2>2
    <2> QED BY <2>1, <2>2
  <1>8. Types' /\ NumbersDiffer'
    <2>1. link' \subseteq Piece
      BY <1>1, <1>5 DEF Inv, Types
    <2>2. nSent' \in [Sender -> 0 .. MaxPackets]
      BY <1>1, ReassemblerAssumption
    <2>3. UNCHANGED <<m_partialPackets, waited>>
      BY <1>1 DEF receiving
    <2> QED BY <2>1, <2>2, <2>3, SendNumbers DEF Inv, Types, TypeOK, Number
  <1>9. UNCHANGED <<m_partialPackets, waited, delivered>> /\ link \subseteq link'
    BY <1>1 DEF receiving
  <1>10. PartialsAreGood' /\ TimersCount'
    BY <1>9 DEF Inv, PartialsAreGood, TimersCount, GoodPieces
  <1>11. DeliveredIsWhole'
    <2>1. \A fs : \A p \in Packets : MakesUp(fs, p) => MakesUp(fs, p)'
      BY <1>6 DEF MakesUp
    <2> QED BY <1>9, <2>1 DEF Inv, DeliveredIsWhole
  <1> QED BY <1>7, <1>8, <1>10, <1>11 DEF Inv

\* Steps of the receiver leave what is known of packets and fragments alone.
LEMMA ReceivingInv ==
  ASSUME Inv, UNCHANGED <<sending, link>>,
         DOMAIN m_partialPackets' \subseteq Keys, DOMAIN waited' = DOMAIN m_partialPackets',
         m_partialPackets' \in [DOMAIN m_partialPackets' -> Partial],
         waited' \in [DOMAIN waited' -> Nat],
         \A k \in DOMAIN m_partialPackets' :
           /\ GoodPieces(k, m_partialPackets'[k].fragments, m_partialPackets'[k].fragCount)
           /\ ~Complete(m_partialPackets'[k])
           /\ waited'[k] + m_partialPackets'[k].dropTimer = reassemblyTimeout,
         \A fs \in delivered' : \E p \in Packets : MakesUp(fs, p)
  PROVE  Inv'
  <1>1. Types'
    BY DEF Inv, Types, TypeOK, sending
  <1>2. NumbersDiffer'
    BY DEF Inv, NumbersDiffer, NextPlace, WasSent, sending
  <1>3. LinkIsHonest'
    BY DEF Inv, LinkIsHonest, IsFragment, WasSent, sending
  <1>4. PartialsAreGood' /\ TimersCount'
    BY DEF PartialsAreGood, TimersCount, GoodPieces
  <1>5. DeliveredIsWhole'
    BY DEF DeliveredIsWhole, MakesUp, WasSent, sending
  <1> QED BY <1>1, <1>2, <1>3, <1>4, <1>5 DEF Inv

LEMMA ReceivingFacts ==
  ASSUME Inv
  PROVE  /\ DOMAIN m_partialPackets \subseteq Keys /\ DOMAIN waited = DOMAIN m_partialPackets
         /\ m_partialPackets \in [DOMAIN m_partialPackets -> Partial]
         /\ waited \in [DOMAIN waited -> Nat]
         /\ \A k \in DOMAIN m_partialPackets :
              /\ GoodPieces(k, m_partialPackets[k].fragments, m_partialPackets[k].fragCount)
              /\ ~Complete(m_partialPackets[k])
              /\ waited[k] + m_partialPackets[k].dropTimer = reassemblyTimeout
         /\ \A fs \in delivered : \E p \in Packets : MakesUp(fs, p)
  BY DEF Inv, Types, TypeOK, PartialsAreGood, TimersCount, DeliveredIsWhole

\* Nothing in a stray fragment is stored or delivered.
LEMMA StrayIsDropped ==
  ASSUME NEW f, f \in link \cup Stray, FastPath(f) \/ IsPiece(f)
  PROVE  f \in link
  <1>1. \A g \in Stray : ~InRange(g) \/ (g.fragCount > 1 /\ g.sequence = NoSequence)
    BY StrayAssumption
  <1>2. InRange(f) /\ (f.fragCount = 1 \/ f.sequence # NoSequence)
    BY DEF FastPath, IsPiece
  <1> QED BY <1>1, <1>2

LEMMA FastPathFacts ==
  ASSUME Inv, NEW f \in link, FastPath(f)
  PROVE  /\ UNCHANGED <<m_partialPackets, waited>> /\ delivered' = delivered \cup {{f}}
         /\ MakesUp({f}, f.packet) /\ f.packet \in Packets
  <1>1. IsFragment(f) /\ Types /\ f.fragCount = 1
    BY DEF Inv, LinkIsHonest, FastPath
  <1>2. f.packet \in Packets /\ Fragments(f.packet) = 1 /\ f.fragIndex = 0
    BY <1>1, FragmentFacts
  <1>3. {<<g.packet, g.fragIndex>> : g \in {f}} = {f.packet} \X (0 .. Fragments(f.packet) - 1)
    BY <1>2
  <1> QED BY <1>1, <1>2, <1>3 DEF FastPath, MakesUp, IsFragment

\* A piece that fits is stored where its key says.
LEMMA StoreFacts ==
  ASSUME Inv, NEW f \in link, IsPiece(f), NEW pp, pp = PartialPacket(f), Fits(f, pp)
  PROVE  /\ Key(f) \in Keys
         /\ Add(pp, f) \in Partial
         /\ GoodPieces(Key(f), Add(pp, f).fragments, Add(pp, f).fragCount)
         /\ Add(pp, f).fragments = pp.fragments \cup {f}
         /\ Add(pp, f).fragCount = pp.fragCount
         /\ Add(pp, f).dropTimer = reassemblyTimeout
  <1>1. IsFragment(f) /\ Types /\ f.fragCount > 1
    BY DEF Inv, LinkIsHonest, IsPiece
  <1>2. Key(f) \in Keys /\ f \in Piece
    BY <1>1, KeyOfFragment, FragmentFacts
  <1>3. /\ pp \in Partial
        /\ pp.fragments = {} \/ GoodPieces(Key(f), pp.fragments, pp.fragCount)
    <2>1. CASE Key(f) \in DOMAIN m_partialPackets
      <3>1. pp = m_partialPackets[Key(f)]
        BY <2>1 DEF PartialPacket
      <3> QED BY <2>1, <3>1, ReceivingFacts
    <2>2. CASE Key(f) \notin DOMAIN m_partialPackets
      <3>1. pp = [fragCount |-> f.fragCount, fragments |-> {}, dropTimer |-> 0]
        BY <2>2 DEF PartialPacket
      <3>2. f.fragCount \in Nat
        BY <1>2 DEF Piece
      <3> QED BY <3>1, <3>2 DEF Partial
    <2> QED BY <2>1, <2>2
  <1>4. reassemblyTimeout \in Nat
    BY ReassemblerAssumption
  <1>5. /\ Add(pp, f) = [pp EXCEPT !.fragments = @ \cup {f}, !.dropTimer = reassemblyTimeout]
        /\ Add(pp, f) \in Partial
        /\ Add(pp, f).fragments = pp.fragments \cup {f}
        /\ Add(pp, f).fragCount = pp.fragCount
        /\ Add(pp, f).dropTimer = reassemblyTimeout
    BY <1>2, <1>3, <1>4 DEF Add, Partial
  <1>6. f.fragCount = pp.fragCount /\ \A g \in pp.fragments : g.fragIndex # f.fragIndex
    BY DEF Fits, Received
  <1>7. GoodPieces(Key(f), pp.fragments \cup {f}, pp.fragCount)
    BY <1>1, <1>3, <1>6 DEF GoodPieces
  <1> QED BY <1>2, <1>5, <1>7

LEMMA StorePieceInv ==
  ASSUME Inv, NEW f \in link, StorePiece(f), UNCHANGED <<sending, link>>
  PROVE  Inv'
  <1>a. PICK pp : pp = PartialPacket(f)
    OBVIOUS
  <1>b. PICK new : new = Add(pp, f)
    OBVIOUS
  <1>c. PICK key : key = Key(f)
    OBVIOUS
  <1>1. CASE ~Fits(f, pp)
    <2>1. UNCHANGED receiving
      BY <1>a, <1>1 DEF StorePiece
    <2> QED BY <2>1, ReceivingInv, ReceivingFacts DEF receiving
  <1>2. CASE Fits(f, pp)
    <2>1. IsPiece(f) /\ Store(f, pp)
      BY <1>a, <1>2 DEF StorePiece
    <2>2. /\ key \in Keys /\ new \in Partial
          /\ GoodPieces(key, new.fragments, new.fragCount)
          /\ new.dropTimer = reassemblyTimeout
      BY <1>a, <1>b, <1>c, <1>2, <2>1, StoreFacts
    <2>3. CASE Complete(new)
      <3>1. /\ m_partialPackets' = Without(m_partialPackets, key)
            /\ waited' = Without(waited, key)
            /\ delivered' = delivered \cup {new.fragments}
        BY <1>b, <1>c, <2>1, <2>3 DEF Store
      <3>2. \E p \in Packets : MakesUp(new.fragments, p)
        BY <2>2, <2>3, CompleteMakesUp DEF Complete
      <3>3. /\ DOMAIN m_partialPackets' = DOMAIN m_partialPackets \ {key}
            /\ \A k \in DOMAIN m_partialPackets' : m_partialPackets'[k] = m_partialPackets[k]
            /\ DOMAIN waited' = DOMAIN waited \ {key}
            /\ \A k \in DOMAIN waited' : waited'[k] = waited[k]
        BY <3>1 DEF Without
      <3>4. /\ m_partialPackets' \in [DOMAIN m_partialPackets' -> Partial]
            /\ waited' \in [DOMAIN waited' -> Nat]
        BY <3>1, ReceivingFacts, WithoutType
      <3> QED BY <3>1, <3>2, <3>3, <3>4, ReceivingFacts, ReceivingInv
    <2>4. CASE ~Complete(new)
      <3>1. /\ m_partialPackets' = With(m_partialPackets, key, new)
            /\ waited' = With(waited, key, 0)
            /\ UNCHANGED delivered
        BY <1>b, <1>c, <2>1, <2>4 DEF Store
      <3>2. /\ DOMAIN m_partialPackets' = DOMAIN m_partialPackets \cup {key}
            /\ \A k \in DOMAIN m_partialPackets' :
                 m_partialPackets'[k] = IF k = key THEN new ELSE m_partialPackets[k]
            /\ DOMAIN waited' = DOMAIN waited \cup {key}
            /\ \A k \in DOMAIN waited' : waited'[k] = IF k = key THEN 0 ELSE waited[k]
        BY <3>1 DEF With
      <3>3. /\ m_partialPackets' \in [DOMAIN m_partialPackets' -> Partial]
            /\ waited' \in [DOMAIN waited' -> Nat]
        BY <2>2, <3>1, ReceivingFacts, WithType
      <3>4. ASSUME NEW k \in DOMAIN m_partialPackets'
            PROVE  /\ GoodPieces(k, m_partialPackets'[k].fragments, m_partialPackets'[k].fragCount)
                   /\ ~Complete(m_partialPackets'[k])
                   /\ waited'[k] + m_partialPackets'[k].dropTimer = reassemblyTimeout
        <4>1. CASE k = key
          <5>1. m_partialPackets'[k] = new /\ waited'[k] = 0
            BY <3>2, <4>1, ReceivingFacts
          <5> QED BY <2>2, <2>4, <4>1, <5>1, ReassemblerAssumption
        <4>2. CASE k # key
          BY <3>2, <4>2, ReceivingFacts
        <4> QED BY <4>1, <4>2
      <3> QED BY <2>2, <3>1, <3>2, <3>3, <3>4, ReceivingFacts, ReceivingInv
    <2> QED BY <2>3, <2>4
  <1> QED BY <1>1, <1>2

LEMMA ReceiveInv == ASSUME Inv, NEW f, ReceiveFragment(f) PROVE Inv'
  <1>1. UNCHANGED <<sending, link>> /\ f \in link \cup Stray
    BY DEF ReceiveFragment
  <1>2. CASE FastPath(f)
    <2>1. f \in link
      BY <1>1, <1>2, StrayIsDropped
    <2>2. /\ UNCHANGED <<m_partialPackets, waited>> /\ delivered' = delivered \cup {{f}}
          /\ MakesUp({f}, f.packet) /\ f.packet \in Packets
      BY <1>2, <2>1, FastPathFacts
    <2> QED BY <1>1, <2>2, ReceivingInv, ReceivingFacts
  <1>3. CASE StorePiece(f)
    BY <1>1, <1>3, StrayIsDropped, StorePieceInv DEF StorePiece
  <1>4. CASE Drop(f)
    BY <1>1, <1>4, ReceivingInv, ReceivingFacts DEF Drop, receiving
  <1> QED BY <1>2, <1>3, <1>4 DEF ReceiveFragment

LEMMA TimeoutInv == ASSUME Inv, NEW k, TimeoutPartialPacket(k) PROVE Inv'
  <1>1. /\ m_partialPackets' = Without(m_partialPackets, k)
        /\ waited' = Without(waited, k)
        /\ UNCHANGED <<sending, link, delivered>>
    BY DEF TimeoutPartialPacket
  <1>2. /\ DOMAIN m_partialPackets' = DOMAIN m_partialPackets \ {k}
        /\ \A x \in DOMAIN m_partialPackets' : m_partialPackets'[x] = m_partialPackets[x]
        /\ DOMAIN waited' = DOMAIN waited \ {k}
        /\ \A x \in DOMAIN waited' : waited'[x] = waited[x]
    BY <1>1 DEF Without
  <1>3. /\ m_partialPackets' \in [DOMAIN m_partialPackets' -> Partial]
        /\ waited' \in [DOMAIN waited' -> Nat]
    BY <1>1, ReceivingFacts, WithoutType
  <1> QED BY <1>1, <1>2, <1>3, ReceivingFacts, ReceivingInv

LEMMA TickInv == ASSUME Inv, Tick PROVE Inv'
  <1>1. UNCHANGED <<sending, link, delivered>>
    BY DEF Tick
  <1>2. ASSUME NEW k \in DOMAIN m_partialPackets
        PROVE  /\ m_partialPackets[k].dropTimer \in Nat \ {0}
               /\ m_partialPackets'[k] \in Partial
               /\ m_partialPackets'[k].fragments = m_partialPackets[k].fragments
               /\ m_partialPackets'[k].fragCount = m_partialPackets[k].fragCount
               /\ m_partialPackets'[k].dropTimer = m_partialPackets[k].dropTimer - 1
    <2>1. m_partialPackets[k] \in Partial
      BY ReceivingFacts
    <2>2. m_partialPackets[k].dropTimer > 0
          /\ m_partialPackets'[k] = [m_partialPackets[k] EXCEPT !.dropTimer = @ - 1]
      BY DEF Tick
    <2> QED BY <2>1, <2>2 DEF Partial
  <1>3. /\ DOMAIN m_partialPackets' = DOMAIN m_partialPackets /\ DOMAIN waited' = DOMAIN waited
        /\ \A k \in DOMAIN waited : waited'[k] = waited[k] + 1
        /\ waited' \in [DOMAIN waited' -> Nat]
    BY ReceivingFacts DEF Tick
  <1>4. m_partialPackets' \in [DOMAIN m_partialPackets' -> Partial]
    BY <1>2, <1>3 DEF Tick
  <1>5. ASSUME NEW k \in DOMAIN m_partialPackets'
        PROVE  /\ GoodPieces(k, m_partialPackets'[k].fragments, m_partialPackets'[k].fragCount)
               /\ ~Complete(m_partialPackets'[k])
               /\ waited'[k] + m_partialPackets'[k].dropTimer = reassemblyTimeout
    <2>1. GoodPieces(k, m_partialPackets'[k].fragments, m_partialPackets'[k].fragCount)
      BY <1>2, <1>3, <1>5, ReceivingFacts
    <2>2. ~Complete(m_partialPackets'[k])
      BY <1>2, <1>3, <1>5, ReceivingFacts DEF Complete
    <2>3. /\ waited[k] + m_partialPackets[k].dropTimer = reassemblyTimeout /\ waited[k] \in Nat
          /\ waited'[k] = waited[k] + 1
      BY <1>3, <1>5, ReceivingFacts
    <2> QED BY <1>2, <1>3, <1>5, <2>1, <2>2, <2>3
  <1> QED BY <1>1, <1>3, <1>4, <1>5, ReceivingFacts, ReceivingInv

LEMMA NextInv == Inv /\ [Next]_vars => Inv'
  <1>1. ASSUME Inv, UNCHANGED vars PROVE Inv'
    BY <1>1, ReceivingInv, ReceivingFacts DEF vars, receiving
  <1> QED BY <1>1, SendInv, ReceiveInv, TimeoutInv, TickInv DEF Next

------------------------------------------------------------------------------
(* The theorems. *)

\* Whatever the link loses, repeats or reorders, the invariant stays.
THEOREM ReassemblerInvariance == Spec => []Inv
  <1> QED BY InitInv, NextInv, PTL DEF Spec

\* The receiver and the senders keep their types.
THEOREM ReassemblerTypes == Spec => []TypeOK
  <1>1. Inv => TypeOK
    BY DEF Inv, Types
  <1> QED BY <1>1, ReassemblerInvariance, PTL

\* A partial packet holds some but not all pieces of one packet, and a timer.
THEOREM PartialsAreSound == Spec => []PartialPacketsAreSound
  <1>1. Inv => PartialPacketsAreSound
    <2> SUFFICES ASSUME Inv, NEW k \in DOMAIN m_partialPackets
                 PROVE  LET pp == m_partialPackets[k]
                        IN /\ pp.fragments # {} /\ Cardinality(pp.fragments) < pp.fragCount
                           /\ \E p \in Packets : \A g \in pp.fragments : g.packet = p
                           /\ pp.dropTimer \in 0 .. reassemblyTimeout
      BY DEF PartialPacketsAreSound
    <2>1. PICK pp : pp = m_partialPackets[k]
      OBVIOUS
    <2>2. /\ GoodPieces(k, pp.fragments, pp.fragCount) /\ ~Complete(pp)
          /\ waited[k] + pp.dropTimer = reassemblyTimeout /\ waited[k] \in Nat /\ pp \in Partial
      BY <2>1, ReceivingFacts
    <2>3. pp.dropTimer \in 0 .. reassemblyTimeout
      BY <2>2, ReassemblerAssumption DEF Partial
    <2>4. /\ Cardinality(pp.fragments) \in Nat /\ pp.fragCount \in Nat
          /\ Cardinality(pp.fragments) <= pp.fragCount
          /\ \E p \in Packets : \A g \in pp.fragments : g.packet = p
      BY <2>2, PiecesFacts
    <2>5. Cardinality(pp.fragments) < pp.fragCount
      BY <2>2, <2>4 DEF Complete
    <2> QED BY <2>1, <2>2, <2>3, <2>4, <2>5 DEF GoodPieces
  <1> QED BY <1>1, ReassemblerInvariance, PTL

\* A partial packet that is given up and not handed over had been idle for the
\* whole reassemblyTimeout.
THEOREM OnlyIdleIsDropped == Spec => DropsOnlyIdle
  <1> DEFINE Kept(k) ==
        \/ waited[k] = reassemblyTimeout
        \/ \E f \in link : m_partialPackets[k].fragments \cup {f} \in delivered'
  <1>1. ASSUME Inv, [Next]_vars, NEW k \in DOMAIN m_partialPackets \ DOMAIN m_partialPackets'
        PROVE  Kept(k)
    <2>1. CASE UNCHANGED <<m_partialPackets, waited>>
      BY <1>1, <2>1
    <2>2. ASSUME NEW key, TimeoutPartialPacket(key) PROVE Kept(k)
      <3>1. k = key /\ m_partialPackets[k].dropTimer = 0
        BY <1>1, <2>2 DEF TimeoutPartialPacket, Without
      <3>2. waited[k] + m_partialPackets[k].dropTimer = reassemblyTimeout /\ waited[k] \in Nat
        BY <1>1, ReceivingFacts
      <3> QED BY <3>1, <3>2
    <2>3. CASE Tick
      BY <1>1, <2>3 DEF Tick
    <2>4. ASSUME NEW f, f \in link \cup Stray, StorePiece(f) PROVE Kept(k)
      <3>1. f \in link
        BY <2>4, StrayIsDropped DEF StorePiece
      <3>2. Fits(f, PartialPacket(f)) /\ Store(f, PartialPacket(f))
        BY <1>1, <2>4 DEF StorePiece, receiving
      <3>3. PICK new : new = Add(PartialPacket(f), f)
        OBVIOUS
      <3>4. CASE ~Complete(new)
        BY <1>1, <3>2, <3>3, <3>4 DEF Store, With
      <3>5. CASE Complete(new)
        <4>1. k = Key(f) /\ delivered' = delivered \cup {new.fragments}
          BY <1>1, <3>2, <3>3, <3>5 DEF Store, Without
        <4>2. PartialPacket(f) = m_partialPackets[k]
          BY <1>1, <4>1 DEF PartialPacket
        <4>3. new.fragments = m_partialPackets[k].fragments \cup {f}
          BY <1>1, <2>4, <3>1, <3>2, <3>3, <4>2, StoreFacts DEF StorePiece
        <4> QED BY <3>1, <4>1, <4>3
      <3> QED BY <3>4, <3>5
    <2>5. ASSUME NEW f, ReceiveFragment(f) PROVE Kept(k)
      BY <2>1, <2>4, <2>5 DEF ReceiveFragment, FastPath, Drop, receiving
    <2>6. ASSUME NEW s \in Sender, SendNetPacket(s) PROVE Kept(k)
      BY <2>1, <2>6 DEF SendNetPacket, receiving
    <2>7. CASE UNCHANGED vars
      BY <2>1, <2>7 DEF vars, receiving
    <2> QED BY <1>1, <2>2, <2>3, <2>5, <2>6, <2>7 DEF Next
  <1>2. Inv /\ [Next]_vars =>
          [\A k \in DOMAIN m_partialPackets \ DOMAIN m_partialPackets' : Kept(k)]_vars
    BY <1>1
  <1> QED BY <1>2, ReassemblerInvariance, PTL DEF Spec, DropsOnlyIdle

------------------------------------------------------------------------------
(* The link of whole packets. *)

SentPackets == {p \in Packets : p[2] <= nSent[p[1]]}
NetPackets == {NetPacket(fs) : fs \in delivered}

\* What a step adds to the delivered packets is a packet that was sent.
LEMMA DeliverOne ==
  ASSUME UNCHANGED sending, NEW fs, NEW p \in Packets, MakesUp(fs, p),
         delivered' = delivered \cup {fs}
  PROVE  Datagrams!Deliver(p)
  <1>1. NetPacket(fs) = p
    BY NetPacketOf
  <1>2. NetPackets' = NetPackets \cup {p}
    BY <1>1 DEF NetPackets
  <1>3. p \in SentPackets /\ SentPackets' = SentPackets
    BY DEF MakesUp, WasSent, SentPackets, sending
  <1> QED BY <1>2, <1>3 DEF Datagrams!Deliver, SentPackets, NetPackets

LEMMA SameDatagrams ==
  ASSUME UNCHANGED <<nSent, delivered>>
  PROVE  UNCHANGED <<SentPackets, NetPackets>>
  BY DEF SentPackets, NetPackets

\* Sending, losing, repeating, reordering and putting together fragments is,
\* for whole packets, sending, losing, repeating and reordering them.
THEOREM ReassemblerImplementsDatagramLink == Spec => ImplementsDatagramLink
  <1>1. Init => Datagrams!Init
    <2> SUFFICES ASSUME Init PROVE Datagrams!Init
      OBVIOUS
    <2>1. SentPackets = {}
      BY FewFragments, ReassemblerAssumption DEF Init, SentPackets
    <2>2. NetPackets = {}
      BY DEF Init, NetPackets
    <2> QED BY <2>1, <2>2 DEF Datagrams!Init, SentPackets, NetPackets
  <1>2. Inv /\ [Next]_vars => [Datagrams!Next]_<<SentPackets, NetPackets>>
    <2> SUFFICES ASSUME Inv, [Next]_vars PROVE Datagrams!Next \/ UNCHANGED <<SentPackets, NetPackets>>
      OBVIOUS
    <2>1. CASE UNCHANGED <<nSent, delivered>>
      BY <2>1, SameDatagrams
    <2>2. ASSUME NEW s \in Sender, SendNetPacket(s) PROVE Datagrams!Next
      <3>1. PICK new : new = <<s, nSent[s] + 1>>
        OBVIOUS
      <3>2. /\ nSent' = [nSent EXCEPT ![s] = @ + 1] /\ nSent \in [Sender -> 0 .. MaxPackets]
            /\ nSent[s] < MaxPackets /\ UNCHANGED delivered
        BY <2>2 DEF SendNetPacket, Inv, Types, TypeOK, receiving
      <3>3. new \in Packets \ SentPackets
        BY <3>1, <3>2, ReassemblerAssumption DEF Packets, SentPackets
      <3>4. SentPackets' = SentPackets \cup {new}
        <4>1. ASSUME NEW p \in Packets PROVE p \in SentPackets' <=> p \in SentPackets \/ p = new
          <5>1. p[1] \in Sender /\ p[2] \in 1 .. MaxPackets /\ p = <<p[1], p[2]>>
            BY FewFragments
          <5>2. CASE p[1] = s
            <6>1. p[2] <= nSent[s] + 1 <=> p[2] <= nSent[s] \/ p[2] = nSent[s] + 1
              BY <3>2, <5>1, <5>2
            <6>2. p = new <=> p[2] = nSent[s] + 1
              BY <3>1, <5>1, <5>2
            <6> QED BY <3>2, <5>1, <5>2, <6>1, <6>2 DEF SentPackets
          <5>3. CASE p[1] # s
            BY <3>1, <3>2, <5>1, <5>3 DEF SentPackets
          <5> QED BY <5>2, <5>3
        <4> QED BY <3>3, <4>1 DEF SentPackets
      <3>5. NetPackets' = NetPackets
        BY <3>2 DEF NetPackets
      <3>6. Datagrams!Send(new)
        BY <3>3, <3>4, <3>5 DEF Datagrams!Send, SentPackets, NetPackets
      <3> QED BY <3>3, <3>6 DEF Datagrams!Next
    <2>3. ASSUME NEW f \in link, FastPath(f), UNCHANGED <<sending, link>> PROVE Datagrams!Next
      <3>1. delivered' = delivered \cup {{f}} /\ MakesUp({f}, f.packet) /\ f.packet \in Packets
        BY <2>3, FastPathFacts
      <3>2. Datagrams!Deliver(f.packet)
        BY <2>3, <3>1, DeliverOne
      <3> QED BY <3>1, <3>2 DEF Datagrams!Next
    <2>4. ASSUME NEW f \in link, StorePiece(f), UNCHANGED <<sending, link>>
          PROVE  Datagrams!Next \/ UNCHANGED <<nSent, delivered>>
      <3>1. PICK pp : pp = PartialPacket(f)
        OBVIOUS
      <3>2. PICK new : new = Add(pp, f)
        OBVIOUS
      <3>3. CASE Fits(f, pp) /\ Complete(new)
        <4>1. Store(f, pp) /\ IsPiece(f)
          BY <2>4, <3>1, <3>3 DEF StorePiece
        <4>2. delivered' = delivered \cup {new.fragments}
          BY <3>2, <3>3, <4>1 DEF Store
        <4>3. GoodPieces(Key(f), new.fragments, new.fragCount) /\ Cardinality(new.fragments) = new.fragCount
          BY <2>4, <3>1, <3>2, <3>3, <4>1, StoreFacts DEF Complete
        <4>4. PICK p \in Packets : MakesUp(new.fragments, p)
          BY <4>3, CompleteMakesUp
        <4>5. Datagrams!Deliver(p)
          BY <2>4, <4>2, <4>4, DeliverOne
        <4> QED BY <4>5 DEF Datagrams!Next
      <3>4. CASE ~(Fits(f, pp) /\ Complete(new))
        BY <2>4, <3>1, <3>2, <3>4 DEF StorePiece, Store, receiving, sending
      <3> QED BY <3>3, <3>4
    <2>5. ASSUME NEW f, ReceiveFragment(f) PROVE Datagrams!Next \/ UNCHANGED <<nSent, delivered>>
      <3>1. UNCHANGED <<sending, link>> /\ f \in link \cup Stray
        BY <2>5 DEF ReceiveFragment
      <3>2. CASE FastPath(f)
        BY <2>3, <3>1, <3>2, StrayIsDropped
      <3>3. CASE StorePiece(f)
        BY <2>4, <3>1, <3>3, StrayIsDropped DEF StorePiece
      <3>4. CASE Drop(f)
        BY <3>1, <3>4 DEF Drop, receiving, sending
      <3> QED BY <2>5, <3>2, <3>3, <3>4 DEF ReceiveFragment
    <2>6. ASSUME NEW k, TimeoutPartialPacket(k) PROVE UNCHANGED <<nSent, delivered>>
      BY <2>6 DEF TimeoutPartialPacket, sending
    <2>7. CASE Tick
      BY <2>1, <2>7 DEF Tick, sending
    <2>8. CASE UNCHANGED vars
      BY <2>1, <2>8 DEF vars, sending, receiving
    <2> QED BY <2>1, <2>2, <2>5, <2>6, <2>7, <2>8 DEF Next
  <1> QED BY <1>1, <1>2, ReassemblerInvariance, PTL
        DEF Spec, ImplementsDatagramLink, Datagrams!Spec, SentPackets, NetPackets
==============================================================================
