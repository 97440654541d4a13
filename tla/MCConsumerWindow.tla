--------------------------- MODULE MCConsumerWindow ---------------------------
(* Values for ConsumerWindow.tla: the default window of one packet. *)
EXTENDS ConsumerWindow

MCEstimates == {1, 2}
==============================================================================
