------------------------ MODULE MC_AggregationInput ------------------------
(* A FIFO of one packet, a ring of two frames and batches of two: the FIFO  *)
(* and the ring both fill, and a batch can end for each of its reasons.     *)
EXTENDS AggregationInput
=============================================================================
