----------------------------- MODULE BoundedCache -----------------------------
(***************************************************************************)
(* What a ContentStore promises to the pipelines, whatever its policy: at  *)
(* most limit Data, each fresh or stale; a Data put in is there and fresh  *)
(* unless the store is off or a victim had to leave; nothing leaves        *)
(* without need.  Forwarder's CsInsert is Put for a constant limit.        *)
(***************************************************************************)
EXTENDS Naturals, FiniteSets

CONSTANTS
  Data,      \* the Data packets, by full name
  MaxLimit   \* bound on the limits that are set

VARIABLES
  store,   \* store[d]: "absent", "fresh" or "stale"
  limit

vars == <<store, limit>>

Stored == {d \in Data : store[d] # "absent"}

Put(d) ==
  /\ \/ limit = 0 /\ UNCHANGED store
     \/ /\ limit > 0
        /\ store[d] # "absent" \/ Cardinality(Stored) < limit
        /\ store' = [store EXCEPT ![d] = "fresh"]
     \/ /\ limit > 0 /\ store[d] = "absent" /\ Cardinality(Stored) = limit
        /\ \E victim \in Stored \cup {d} :
             store' = [[store EXCEPT ![d] = "fresh"] EXCEPT ![victim] = "absent"]
  /\ UNCHANGED limit

SetLimit(l) ==
  /\ limit' = l
  /\ \E kept \in SUBSET Stored :
       /\ kept = Stored \/ Cardinality(kept) = l
       /\ Cardinality(kept) <= l
       /\ store' = [d \in Data |-> IF d \in kept THEN store[d] ELSE "absent"]

GrowStale ==
  /\ \E aged \in SUBSET Stored :
       store' = [d \in Data |-> IF d \in aged THEN "stale" ELSE store[d]]
  /\ UNCHANGED limit

Init ==
  /\ store = [d \in Data |-> "absent"]
  /\ limit \in 0 .. MaxLimit

Next ==
  \/ \E d \in Data : Put(d)
  \/ \E l \in 0 .. MaxLimit : SetLimit(l)
  \/ GrowStale

Spec == Init /\ [][Next]_vars
==============================================================================
