---------------------------- MODULE MCContentStore ----------------------------
(* Four Data packets: one without FreshnessPeriod, the others of 0 to 2 ticks. *)
EXTENDS ContentStore, TLC

CONSTANTS d1, d2, d3, d4

MCFreshness == (d1 :> 0) @@ (d2 :> 1) @@ (d3 :> 2) @@ (d4 :> Never)

\* 5-bit hashes: two at the ends, two whose deviations tie.
MCHash  == (d1 :> 0) @@ (d2 :> 31) @@ (d3 :> 12) @@ (d4 :> 14)
MCOrder == <<d3, d1, d4, d2>>
==============================================================================
