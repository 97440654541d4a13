---------------------------- MODULE MCConsumerHash ----------------------------
(* Values for ConsumerHash.tla: a timeout of one or two checks that can be    *)
(* doubled twice, up to the largest one.                                      *)
EXTENDS ConsumerHash

MCEstimates == {1, 2}
==============================================================================
