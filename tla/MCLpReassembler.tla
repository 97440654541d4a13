--------------------------- MODULE MCLpReassembler ---------------------------
(* Values for LpReassembler.tla: two senders that number their fragments      *)
(* alike, packets of one, two and three fragments, and fragments that the     *)
(* receiver must drop.                                                        *)
EXTENDS LpReassembler

CONSTANTS a, b

MCFragments(p) == IF p[2] = 1 THEN 3 ELSE IF p[1] = a THEN 1 ELSE 2

MCEndpointOf(s) == IF s = a THEN 1 ELSE 2

MCStray ==
  {[packet |-> <<a, 1>>, endpoint |-> 1, fragIndex |-> 2, fragCount |-> 2, sequence |-> 0],
   [packet |-> <<a, 1>>, endpoint |-> 1, fragIndex |-> 0, fragCount |-> 4, sequence |-> 0],
   [packet |-> <<a, 1>>, endpoint |-> 1, fragIndex |-> 1, fragCount |-> 2, sequence |-> NoSequence]}
==============================================================================
