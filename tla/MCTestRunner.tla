----------------------------- MODULE MCTestRunner -----------------------------
(* A suite, an example and a job to skip, on two processors. *)
EXTENDS TestRunner, TLC

CONSTANTS suite, example, skipped, w1, w2
==============================================================================
