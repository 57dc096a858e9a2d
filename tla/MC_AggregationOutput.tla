------------------------ MODULE MC_AggregationOutput ------------------------
(* One engine of each kind, families of two records and a ring of two: a    *)
(* family can be refused at its first or at its second record.              *)
EXTENDS AggregationOutput
=============================================================================
