----------------------- MODULE MC_HarmonicFailClosed -----------------------
(* Both kinds of engine and a ring smaller than a family of records.        *)
EXTENDS AggregationOutput
=============================================================================
