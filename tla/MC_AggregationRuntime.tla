------------------------- MODULE MC_AggregationRuntime -------------------------
(* The module has no parameter: three tasks, five flags, one transport.     *)
EXTENDS AggregationRuntime
================================================================================
