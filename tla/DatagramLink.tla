----------------------------- MODULE DatagramLink -----------------------------
(***************************************************************************)
(* What a link promises for whole packets: it may lose, repeat and reorder *)
(* them, but what it delivers was sent, as it was sent.                    *)
(***************************************************************************)
CONSTANT Packets

VARIABLES sent, delivered

Init == sent = {} /\ delivered = {}

Send(p) ==
  /\ p \notin sent
  /\ sent' = sent \cup {p} /\ UNCHANGED delivered

Deliver(p) ==
  /\ p \in sent
  /\ delivered' = delivered \cup {p} /\ UNCHANGED sent

Next == \E p \in Packets : Send(p) \/ Deliver(p)

Spec == Init /\ [][Next]_<<sent, delivered>>
==============================================================================
